--------------------------- MODULE JobQueueProofs ---------------------------
(* Theorems about JobQueue for every number of jobs, processes, activations *)
(* and slots: its types; then, where leases outlive their holders' work and *)
(* nobody retries a job that is still executing, that IInv is an inductive  *)
(* invariant, and with it the safety of claiming; and what an outcome is    *)
(* worth: a job reported done has been worked, and, where running jobs are  *)
(* not cancelled, the queue implements JobLedger.  Last, Housekeeping, whose *)
(* jobs queue their own next run.                                           *)
EXTENDS Housekeeping, FiniteSetTheorems, TLAPS

-----------------------------------------------------------------------------
(* Shapes: what an update by key or by field leaves well typed.            *)

LEMMA StateFacts ==
  /\ "queued" \in States /\ "running" \in States /\ "done" \in States
  /\ "failed" \in States /\ "cancelled" \in States /\ "absent" \in States
BY DEF States, Live, Terminal

LEMMA RowFacts ==
  ASSUME NEW row \in Row, NEW s \in States
  PROVE  Released(row, s) \in Row /\ Closed(row, s) \in Row
BY DEF Row, Released, Closed

LEMMA ClaimedFact ==
  ASSUME NEW row \in Row, NEW p \in Procs PROVE Claimed(row, p) \in Row
<1>1. row.attempts + 1 \in Nat BY DEF Row
<1> QED BY <1>1, StateFacts DEF Row, Claimed

LEMMA NoneFacts == None \notin Jobs /\ None \notin Procs
BY QueueAssumption

LEMMA ProcOfType == ASSUME NEW r \in Runs PROVE ProcOf[r] \in Procs
BY QueueAssumption


-----------------------------------------------------------------------------
(* Type correctness.                                                        *)

\* Every action keeps the types of the table, the processes and the
\* activations.
LEMMA TypeStep == TypeOK /\ Shape /\ [Next]_vars => TypeOK'
<1> SUFFICES ASSUME TypeOK, Shape, [Next]_vars PROVE TypeOK'
  OBVIOUS
<1> USE DEF TypeOK
<1>1. ASSUME NEW c \in Callers, CallerStep(c) PROVE TypeOK'
  <2>1. ASSUME NEW k \in Kinds, EnqueueLookup(c, k) PROVE TypeOK'
    BY <2>1 DEF EnqueueLookup, Call
  <2>2. CASE EnqueueInsert(c)
    <3>1. ASSUME NEW j \in Jobs, NEW d \in BOOLEAN,
                 rows' = [rows EXCEPT ![j] = NewRow(calls[c].kind, d)]
          PROVE  rows' \in [Jobs -> Row]
      <4>1. calls[c].kind \in Kinds \cup {None} /\ (calls[c].kind \in Deduped) \in BOOLEAN
        BY DEF Call
      <4>2. NewRow(calls[c].kind, d) \in Row
        BY <4>1, StateFacts DEF NewRow, NoRow, Row
      <4> QED BY <3>1, <4>2
    <3>2. rows' \in [Jobs -> Row] /\ worked' \in [Jobs -> BOOLEAN]
      BY <2>2, <3>1 DEF EnqueueInsert
    <3>3. calls' \in [Callers -> Call] /\ used' \in Budget
      BY <2>2 DEF EnqueueInsert, Call, NoCall, Budget, DbFails
    <3> QED BY <2>2, <3>2, <3>3 DEF EnqueueInsert
  <2>3. CASE EnqueueReread(c)
    BY <2>3 DEF EnqueueReread, Call, NoCall
  <2> QED BY <1>1, <2>1, <2>2, <2>3 DEF CallerStep
<1>2. ASSUME NEW j \in Jobs, Operator(j) \/ Clock(j) PROVE TypeOK'
  <2>1. CASE Cancel(j)
    <3>1. rows' \in [Jobs -> Row] BY <2>1, StateFacts DEF Cancel, Row
    <3> QED BY <2>1, <3>1 DEF Cancel, Budget
  <2>2. CASE Retry(j)
    <3>1. rows' \in [Jobs -> Row] BY <2>2, StateFacts DEF Retry, Row, Released
    <3> QED BY <2>2, <3>1 DEF Retry, Budget
  <2>3. CASE LeaseLapses(j) BY <2>3 DEF LeaseLapses, Row
  <2>4. CASE RunAfterPasses(j) BY <2>4 DEF RunAfterPasses, Row
  <2> QED BY <1>2, <2>1, <2>2, <2>3, <2>4 DEF Operator, Clock
<1>3. ASSUME NEW p \in Procs, ProcStep(p) \/ Lifecycle(p) PROVE TypeOK'
  <2> USE DEF Proc
  <2>1. CASE TickStart(p)
    <3>1. rows' \in [Jobs -> Row]
      <4>1. CASE UNCHANGED rows BY <4>1
      <4>2. CASE rows' = [j \in Jobs |-> IF Lapsed(j) /\ rows[j].attempts < MaxAttempts
                                       THEN Released(rows[j], "queued") ELSE rows[j]]
        <5>1. ASSUME NEW j \in Jobs
              PROVE  rows[j] \in Row /\ Released(rows[j], "queued") \in Row
          BY StateFacts, RowFacts
        <5> QED BY ONLY <4>2, <5>1
      <4> QED BY <2>1, <4>1, <4>2 DEF TickStart
    <3>2. procs' \in [Procs -> Proc] BY <2>1 DEF TickStart, SetTick
    <3>3. used' \in Budget BY <2>1 DEF TickStart, DbFails, Budget
    <3> QED BY <2>1, <3>1, <3>2, <3>3 DEF TickStart
  <2>2. CASE ReclaimGiveUp(p)
    <3>1. rows' \in [Jobs -> Row]
      <4>1. CASE UNCHANGED rows BY <4>1
      <4>2. CASE rows' = [j \in Jobs |-> IF Lapsed(j) /\ rows[j].attempts >= MaxAttempts
                                       THEN Closed(rows[j], "failed") ELSE rows[j]]
        <5>1. ASSUME NEW j \in Jobs
              PROVE  rows[j] \in Row /\ Closed(rows[j], "failed") \in Row
          BY StateFacts, RowFacts
        <5> QED BY ONLY <4>2, <5>1
      <4> QED BY <2>2, <4>1, <4>2 DEF ReclaimGiveUp
    <3> QED BY <2>2, <3>1 DEF ReclaimGiveUp, SetTick, DbFails, Budget
  <2>3. CASE Claim(p)
    <3>1. PICK j \in Jobs :
             /\ rows' = [rows EXCEPT ![j] = Claimed(@, p)]
             /\ procs' = [procs EXCEPT ![p] =
                           [@ EXCEPT !.tick = "readback", !.got = j]]
      BY <2>3 DEF Claim, Claimable
    <3>2. rows' \in [Jobs -> Row] BY <3>1, ClaimedFact
    <3>3. [procs[p] EXCEPT !.tick = "readback", !.got = j] \in Proc OBVIOUS
    <3>4. procs' \in [Procs -> Proc] BY <3>1, <3>3
    <3> QED BY <2>3, <3>2, <3>4 DEF Claim
  <2>4. CASE TickEnd(p)
    BY <2>4 DEF TickEnd, SetTick, DbFails, Budget
  <2>5. CASE ReadBack(p)
    <3>1. procs[p].got \in Jobs /\ rows[procs[p].got].attempts \in Nat
      BY <2>5 DEF ReadBack, Shape, Row
    <3>2. [phase |-> "handler", job |-> procs[p].got,
           att |-> rows[procs[p].got].attempts] \in Run
      BY <3>1 DEF Run
    <3>3. PICK r \in Runs : runs' = [runs EXCEPT ![r] =
             [phase |-> "handler", job |-> procs[p].got,
              att |-> rows[procs[p].got].attempts]]
      BY <2>5 DEF ReadBack
    <3>4. runs' \in [Runs -> Run]
      <4> DEFINE new == [phase |-> "handler", job |-> procs[p].got,
                         att |-> rows[procs[p].got].attempts]
      <4>1. new \in Run BY <3>2
      <4>2. runs' = [runs EXCEPT ![r] = new] BY <3>3
      <4> HIDE DEF new
      <4> QED BY <4>1, <4>2
    <3>5. procs' \in [Procs -> Proc] BY <2>5 DEF ReadBack
    <3>6. running' \in [Procs -> SUBSET Jobs] BY <2>5, <3>1 DEF ReadBack
    <3> QED BY <2>5, <3>4, <3>5, <3>6 DEF ReadBack
  <2>6. CASE ReadBackMiss(p)
    <3>1. procs' \in [Procs -> Proc] BY <2>6 DEF ReadBackMiss
    <3>2. used' \in Budget BY <2>6 DEF ReadBackMiss, DbFails, Budget
    <3> QED BY <2>6, <3>1, <3>2 DEF ReadBackMiss
  <2>7. CASE Stop(p) BY <2>7 DEF Stop, Budget
  <2>8. CASE Crash(p) BY <2>8 DEF Crash, Budget, Run, FreeRun, NewProc
  <2>9. CASE Start(p) BY <2>9 DEF Start
  <2> QED BY <1>3, <2>1, <2>2, <2>3, <2>4, <2>5, <2>6, <2>7, <2>8, <2>9
          DEF ProcStep, Lifecycle
<1>4. ASSUME NEW r \in Runs, RunStep(r) \/ Heartbeat(r) PROVE TypeOK'
  <2>1. runs[r].phase # "free" /\ runs[r].job \in Jobs
    BY <1>4 DEF Shape, Run, RunStep, Heartbeat, HandlerEnds, HandlerStops,
                HandlerReturns, HandlerThrows, ReadState, FinishDone, FailOrBackOff
  <2>2. CASE Heartbeat(r) BY <2>1, <2>2 DEF Heartbeat, Row
  <2>3. CASE HandlerStops(r)
    BY <2>3 DEF HandlerStops, SetPhase, DbFails, Budget, Run
  <2>4. CASE HandlerReturns(r) BY <2>4 DEF HandlerReturns, SetPhase, Run
  <2>5. CASE HandlerThrows(r) BY <2>5 DEF HandlerThrows, SetPhase, Run
  <2>6. Settle(r) => runs' \in [Runs -> Run] /\ running' \in [Procs -> SUBSET Jobs]
    <3>1. FreeRun \in Run BY DEF FreeRun, Run
    <3>2. ASSUME Settle(r) PROVE running' \in [Procs -> SUBSET Jobs]
      BY <3>2, ProcOfType DEF Settle
    <3> QED BY <3>1, <3>2 DEF Settle
  <2>7. CASE ReadState(r)
    BY <2>6, <2>7 DEF ReadState, SetPhase, DbFails, Budget, Run
  <2>8. Finished(runs[r].job, "done") \in [Jobs -> Row]
        /\ Finished(runs[r].job, "failed") \in [Jobs -> Row]
    BY <2>1, StateFacts, RowFacts DEF Finished
  <2>9. BackedOff(runs[r].job) \in [Jobs -> Row]
    BY <2>1, StateFacts DEF BackedOff, Row, Released
  <2>10. CASE FinishDone(r)
    BY <2>6, <2>8, <2>10 DEF FinishDone, DbFails, Budget
  <2>11. CASE FailOrBackOff(r)
    BY <2>6, <2>8, <2>9, <2>11 DEF FailOrBackOff, DbFails, Budget
  <2> QED BY <1>4, <2>2, <2>3, <2>4, <2>5, <2>7, <2>10, <2>11
          DEF RunStep, HandlerEnds
<1>5. CASE UNCHANGED vars
  BY <1>5 DEF vars
<1> QED BY <1>1, <1>2, <1>3, <1>4, <1>5 DEF Next

\* A free activation has no job and a claim being read back has one.
LEMMA ShapeStep == TypeOK /\ Shape /\ [Next]_vars => Shape'
<1> SUFFICES ASSUME TypeOK, Shape, [Next]_vars PROVE Shape'
  OBVIOUS
<1> USE NoneFacts DEF Shape, TypeOK
<1>1. ASSUME NEW c \in Callers, CallerStep(c) PROVE UNCHANGED <<procs, runs>>
  BY <1>1 DEF CallerStep, EnqueueLookup, EnqueueInsert, EnqueueReread
<1>2. ASSUME NEW j \in Jobs, Operator(j) \/ Clock(j)
      PROVE  UNCHANGED <<procs, runs>>
  BY <1>2 DEF Operator, Clock, Cancel, Retry, LeaseLapses, RunAfterPasses
<1>3. ASSUME NEW p \in Procs, ProcStep(p) \/ Lifecycle(p) PROVE Shape'
  <2> USE DEF Proc
  <2>1. CASE TickStart(p) BY <2>1 DEF TickStart, SetTick
  <2>2. CASE ReclaimGiveUp(p) BY <2>2 DEF ReclaimGiveUp, SetTick
  <2>3. CASE Claim(p) BY <2>3 DEF Claim, Claimable
  <2>4. CASE TickEnd(p) BY <2>4 DEF TickEnd, SetTick
  <2>5. CASE ReadBack(p) BY <2>5 DEF ReadBack, Run
  <2>6. CASE ReadBackMiss(p) BY <2>6 DEF ReadBackMiss
  <2>7. CASE Stop(p) BY <2>7 DEF Stop
  <2>8. CASE Crash(p) BY <2>8 DEF Crash, FreeRun, NewProc
  <2>9. CASE Start(p) BY <2>9 DEF Start
  <2> QED BY <1>3, <2>1, <2>2, <2>3, <2>4, <2>5, <2>6, <2>7, <2>8, <2>9
          DEF ProcStep, Lifecycle
<1>4. ASSUME NEW r \in Runs, RunStep(r) \/ Heartbeat(r) PROVE Shape'
  <2>1. UNCHANGED procs
    BY <1>4 DEF RunStep, Heartbeat, HandlerEnds, HandlerStops, HandlerReturns,
                HandlerThrows, ReadState, FinishDone, FailOrBackOff
  <2>2. \/ UNCHANGED runs \/ Settle(r)
        \/ runs[r].phase # "free" /\ \E ph \in {"returned", "threw", "finishing"} :
                                        SetPhase(r, ph)
    BY <1>4 DEF RunStep, Heartbeat, HandlerEnds, HandlerStops, HandlerReturns,
                HandlerThrows, ReadState, FinishDone, FailOrBackOff
  <2> QED BY <2>1, <2>2 DEF Settle, SetPhase, FreeRun, Run
<1>5. CASE UNCHANGED vars
  BY <1>5 DEF vars
<1> QED BY <1>1, <1>2, <1>3, <1>4, <1>5 DEF Next

LEMMA InitTyped == Init => TypeOK /\ Shape
<1> SUFFICES ASSUME Init PROVE TypeOK /\ Shape
  OBVIOUS
<1>1. NoRow \in Row BY StateFacts DEF NoRow, Row
<1>2. NewProc \in Proc /\ FreeRun \in Run /\ NoCall \in Call
  BY DEF NewProc, Proc, FreeRun, Run, NoCall, Call
<1>3. TypeOK BY <1>1, <1>2 DEF Init, TypeOK, Budget
<1>4. Shape BY DEF Init, Shape, NewProc, FreeRun
<1> QED BY <1>3, <1>4

\* The table, the processes and the activations keep their types whatever the
\* callers, the operators and the environment do.
THEOREM TypeCorrect == Spec => []TypeOK
<1>1. TypeOK /\ Shape /\ [Next]_vars => (TypeOK /\ Shape)'
  BY TypeStep, ShapeStep
<1> QED BY <1>1, InitTyped, PTL DEF Spec

-----------------------------------------------------------------------------
(* The safety of claiming.                                                  *)

\* What the attempt count of one row says about its state.
Spent(row) ==
  /\ row.attempts <= MaxAttempts
  /\ row.state = "queued" => row.attempts < MaxAttempts
  /\ row.state = "running" => row.attempts > 0
  /\ row.state = "failed" => row.attempts >= MaxAttempts

LEMMA SpentFact ==
  (\A j \in Jobs : Spent(rows[j]))
    <=> (AttemptsBounded /\ AttemptLeft /\ FailedMeansSpent)
BY DEF Spent, AttemptsBounded, AttemptLeft, FailedMeansSpent

LEMMA RunningFinite == TypeOK => \A p \in Procs : IsFiniteSet(running[p])
<1> SUFFICES ASSUME TypeOK, NEW p \in Procs PROVE IsFiniteSet(running[p])
  OBVIOUS
<1>1. MaxJobs \in Nat BY QueueAssumption
<1>2. IsFiniteSet(1..MaxJobs) BY <1>1, FS_Interval
<1>3. running[p] \subseteq 1..MaxJobs BY DEF TypeOK, Jobs
<1> QED BY <1>2, <1>3, FS_Subset

-----------------------------------------------------------------------------
(* Steps that leave the activations alone and change the table row by row.  *)

\* The ways in which a row may change under an activation or a pending claim.
Tolerated(j) ==
  \/ rows'[j] = rows[j]
  \/ ~ Executing(j) /\ rows'[j].state # "running"
  \/ rows'[j].state = "cancelled" /\ rows'[j].attempts = rows[j].attempts
  \/ ~ Attended(j) /\ rows'[j].owner = rows[j].owner
                   /\ rows[j].state = "running"
  \/ /\ rows'[j].state = rows[j].state /\ rows'[j].owner = rows[j].owner
     /\ rows'[j].attempts = rows[j].attempts /\ rows'[j].lease = "live"

LEMMA RowsStep ==
  ASSUME IInv, TypeOK', Shape', UNCHANGED <<runs, running>>,
         \A p \in Procs : /\ procs'[p].got = procs[p].got
                          /\ procs'[p].tick = "readback" => procs[p].tick = "readback",
         \A j \in Jobs : Tolerated(j) /\ Spent(rows'[j])
  PROVE  IInv'
<1> USE DEF IInv
<1>1. AttemptsBounded' /\ AttemptLeft' /\ FailedMeansSpent'
  BY DEF Spent, AttemptsBounded, AttemptLeft, FailedMeansSpent
<1>2. SlotKept' BY DEF SlotKept
<1>3. OneExecutor' BY DEF OneExecutor
<1>4. SlotsRespected' BY DEF SlotsRespected, Active
<1>5. ClaimHeld'
  <2> SUFFICES ASSUME NEW r \in Runs, runs[r].phase # "free"
               PROVE  LET row == rows'[runs[r].job] IN
                      /\ row.attempts = runs[r].att
                      /\ \/ row.state = "cancelled"
                         \/ /\ row.state = "running" /\ row.owner = ProcOf[r]
                            /\ row.lease = "live"
    BY DEF ClaimHeld, Mine
  <2>1. runs[r].job \in Jobs BY DEF TypeOK, Run, Shape
  <2>2. Executing(runs[r].job) /\ Attended(runs[r].job)
    BY DEF Executing, Attended
  <2> QED BY <2>1, <2>2 DEF ClaimHeld, Mine, Tolerated
<1>6. ClaimPending'
  <2> SUFFICES ASSUME NEW p \in Procs, procs[p].got # None,
                      rows'[procs[p].got].state = "running",
                      rows'[procs[p].got].owner = p
               PROVE  rows'[procs[p].got].lease = "live" /\ ~ Executing(procs[p].got)
    BY DEF ClaimPending, Mine, Executing
  <2>1. procs[p].got \in Jobs BY DEF TypeOK, Proc
  <2>2. Mine(p, procs[p].got) => Attended(procs[p].got) BY DEF Attended
  <2> QED BY <2>1, <2>2 DEF ClaimPending, Mine, Tolerated
<1> QED BY <1>1, <1>2, <1>3, <1>4, <1>5, <1>6

-----------------------------------------------------------------------------
(* Steps that move one activation on, or end it.                            *)

LEMMA PhaseStep ==
  ASSUME IInv, TypeOK', Shape', UNCHANGED <<rows, procs, running>>,
         NEW r \in Runs, runs[r].phase # "free",
         NEW ph \in {"returned", "threw", "finishing"}, SetPhase(r, ph)
  PROVE  IInv'
<1>1. \A s \in Runs : /\ runs'[s].job = runs[s].job /\ runs'[s].att = runs[s].att
                      /\ runs'[s].phase = "free" <=> runs[s].phase = "free"
  BY DEF SetPhase, IInv, TypeOK, Run
<1>2. AttemptsBounded' /\ AttemptLeft' /\ FailedMeansSpent' /\ SlotKept'
  BY DEF IInv, AttemptsBounded, AttemptLeft, FailedMeansSpent, SlotKept
<1>3. OneExecutor' BY <1>1 DEF IInv, OneExecutor
<1>4. ClaimHeld' BY <1>1 DEF IInv, ClaimHeld, Mine
<1>5. ClaimPending' BY <1>1 DEF IInv, ClaimPending, Mine, Executing
<1>6. SlotsRespected'
  <2>1. \A p \in Procs : Active(p)' = Active(p) BY <1>1 DEF Active
  <2>2. \A p \in Procs : {runs'[s].job : s \in Active(p)} = {runs[s].job : s \in Active(p)}
    BY <1>1 DEF Active
  <2> QED BY <2>1, <2>2 DEF IInv, SlotsRespected
<1> QED BY <1>2, <1>3, <1>4, <1>5, <1>6 DEF IInv

\* The row is left alone or taken out of `running'.
LEMMA SettleStep ==
  ASSUME IInv, TypeOK', Shape', UNCHANGED procs,
         NEW r \in Runs, runs[r].phase # "free", Settle(r),
         \A j \in Jobs : j # runs[r].job => rows'[j] = rows[j],
         rows'[runs[r].job] = rows[runs[r].job] \/ rows'[runs[r].job].state # "running",
         Spent(rows'[runs[r].job])
  PROVE  IInv'
<1>0. runs[r].job \in Jobs BY DEF IInv, TypeOK, Run, Shape
<1>1. \A s \in Runs : IF s = r THEN runs'[s] = FreeRun ELSE runs'[s] = runs[s]
  BY DEF Settle, IInv, TypeOK
<1>2. \A s \in Runs : runs'[s].phase # "free" =>
         s # r /\ runs[s].phase # "free" /\ runs'[s] = runs[s]
               /\ runs[s].job \in Jobs /\ runs[s].job # runs[r].job
  BY <1>1 DEF FreeRun, IInv, OneExecutor, TypeOK, Run, Shape
<1>3. AttemptsBounded' /\ AttemptLeft' /\ FailedMeansSpent'
  BY SpentFact DEF IInv, Spent, AttemptsBounded, AttemptLeft, FailedMeansSpent
<1>4. OneExecutor' BY <1>2 DEF IInv, OneExecutor
<1>5. ClaimHeld' BY <1>2 DEF IInv, ClaimHeld, Mine
<1>6. \A j \in Jobs : Executing(j)' => Executing(j)
  BY <1>1, NoneFacts DEF Executing, FreeRun
<1>7. ClaimPending'
  <2> SUFFICES ASSUME NEW p \in Procs, procs[p].got # None, Mine(p, procs[p].got)'
               PROVE  rows'[procs[p].got].lease = "live" /\ ~ Executing(procs[p].got)'
    BY DEF ClaimPending, Mine, Executing
  <2>1. procs[p].got \in Jobs BY DEF IInv, TypeOK, Proc
  <2>2. rows'[procs[p].got] = rows[procs[p].got] BY <1>0, <2>1 DEF Mine
  <2> QED BY <1>6, <2>1, <2>2 DEF IInv, ClaimPending, Mine
<1>8. ASSUME NEW p \in Procs
      PROVE  /\ running'[p] \subseteq running[p]
             /\ running'[p] = {runs'[s].job : s \in Active(p)'}
  <2>1. ProcOf[r] \in Procs BY ProcOfType
  <2>2. running'[p] = IF p = ProcOf[r] THEN running[p] \ {runs[r].job} ELSE running[p]
    BY <2>1 DEF Settle, IInv, TypeOK
  <2>3. Active(p)' = Active(p) \ {r}
    BY <1>1, <1>2 DEF Active, FreeRun
  <2>4. \A s \in Active(p) \ {r} : runs'[s].job = runs[s].job
    BY <1>1 DEF Active
  <2>5. running[p] = {runs[s].job : s \in Active(p)} BY DEF IInv, SlotsRespected
  <2>6. p = ProcOf[r] => r \in Active(p) BY DEF Active
  <2>7. \A s \in Active(p) \ {r} : runs[s].job # runs[r].job
    BY DEF Active, IInv, OneExecutor
  <2>8. p # ProcOf[r] => r \notin Active(p) BY DEF Active
  <2> QED BY <2>2, <2>3, <2>4, <2>5, <2>6, <2>7, <2>8
<1>9. SlotsRespected'
  <2> SUFFICES ASSUME NEW p \in Procs
               PROVE  Cardinality(running'[p]) <= Concurrency
    BY <1>8 DEF SlotsRespected, Active
  <2>1. IsFiniteSet(running[p]) BY RunningFinite DEF IInv
  <2>2. IsFiniteSet(running'[p]) /\ Cardinality(running'[p]) <= Cardinality(running[p])
    BY <1>8, <2>1, FS_Subset
  <2>3. Cardinality(running[p]) \in Nat /\ Cardinality(running'[p]) \in Nat
    BY <2>1, <2>2, FS_CardinalityType
  <2>4. Cardinality(running[p]) <= Concurrency /\ Concurrency \in Nat
    BY QueueAssumption DEF IInv, SlotsRespected
  <2> QED BY <2>2, <2>3, <2>4
<1>10. SlotKept'
  <2> SUFFICES ASSUME NEW p \in Procs, procs[p].tick = "readback"
               PROVE  Cardinality(running'[p]) < Concurrency
    BY DEF SlotKept
  <2>1. IsFiniteSet(running[p]) BY RunningFinite DEF IInv
  <2>2. IsFiniteSet(running'[p]) /\ Cardinality(running'[p]) <= Cardinality(running[p])
    BY <1>8, <2>1, FS_Subset
  <2>3. Cardinality(running[p]) \in Nat /\ Cardinality(running'[p]) \in Nat
    BY <2>1, <2>2, FS_CardinalityType
  <2>4. Cardinality(running[p]) < Concurrency /\ Concurrency \in Nat
    BY QueueAssumption DEF IInv, SlotKept
  <2> QED BY <2>2, <2>3, <2>4
<1> QED BY <1>3, <1>4, <1>5, <1>7, <1>9, <1>10 DEF IInv

-----------------------------------------------------------------------------
(* The actions, one lemma per group.                                        *)

\* A row whose lease has lapsed is executed by nobody.
LEMMA LapsedFact ==
  ASSUME IInv, NEW j \in Jobs, Lapsed(j) PROVE ~ Executing(j)
BY NoneFacts DEF IInv, TypeOK, Run, Shape, ClaimHeld, Lapsed, Executing

\* Nor is one that is neither running nor cancelled.
LEMMA IdleFact ==
  ASSUME IInv, NEW j \in Jobs, rows[j].state \notin {"running", "cancelled"}
  PROVE  ~ Executing(j)
BY NoneFacts DEF IInv, TypeOK, Run, Shape, ClaimHeld, Mine, Executing

LEMMA RowSpent == ASSUME IInv, NEW j \in Jobs PROVE Spent(rows[j])
BY SpentFact DEF IInv

LEMMA LimitFact == MaxAttempts \in Nat /\ MaxAttempts > 0
BY QueueAssumption

LEMMA TableSteps ==
  ASSUME IInv, TypeOK', Shape', ~ Overrun, ~ EagerRetry,
         \/ \E c \in Callers : CallerStep(c)
         \/ \E j \in Jobs : Operator(j) \/ Clock(j)
         \/ \E p \in Procs : TickStart(p) \/ ReclaimGiveUp(p)
         \/ \E r \in Runs : Heartbeat(r)
  PROVE  IInv'
<1> USE LimitFact
<1>1. UNCHANGED <<runs, running>>
  BY DEF CallerStep, EnqueueLookup, EnqueueInsert, EnqueueReread, Operator, Clock,
         Cancel, Retry, LeaseLapses, RunAfterPasses, TickStart, ReclaimGiveUp, Heartbeat
<1>2. \A p \in Procs : /\ procs'[p].got = procs[p].got
                       /\ procs'[p].tick = "readback" => procs[p].tick = "readback"
  <2>1. CASE UNCHANGED procs BY <2>1
  <2>2. ASSUME NEW p \in Procs, SetTick(p, "giveup") \/ SetTick(p, "claim")
        PROVE  \A q \in Procs : /\ procs'[q].got = procs[q].got
                                /\ procs'[q].tick = "readback"
                                     => procs[q].tick = "readback"
    BY <2>2 DEF SetTick, IInv, TypeOK, Proc
  <2> QED
    BY <2>1, <2>2
    DEF CallerStep, EnqueueLookup, EnqueueInsert, EnqueueReread, Operator, Clock,
        Cancel, Retry, LeaseLapses, RunAfterPasses, TickStart, ReclaimGiveUp, Heartbeat
<1>3. ASSUME UNCHANGED rows PROVE \A j \in Jobs : Tolerated(j) /\ Spent(rows'[j])
  BY <1>3, RowSpent DEF Tolerated
<1>4. ASSUME NEW c \in Callers, CallerStep(c)
      PROVE  \A j \in Jobs : Tolerated(j) /\ Spent(rows'[j])
  <2>1. CASE UNCHANGED rows BY <1>3, <2>1
  <2>2. ASSUME NEW i \in Jobs, NEW d \in BOOLEAN, rows[i].state = "absent",
               rows' = [rows EXCEPT ![i] = NewRow(calls[c].kind, d)]
        PROVE  \A j \in Jobs : Tolerated(j) /\ Spent(rows'[j])
    <3>1. rows'[i].state = "queued" /\ rows'[i].attempts = 0
      BY <2>2 DEF NewRow, NoRow, IInv, TypeOK
    <3>2. \A j \in Jobs : j # i => rows'[j] = rows[j] BY <2>2
    <3>3. ~ Executing(i) BY <2>2, IdleFact
    <3> QED BY <3>1, <3>2, <3>3, RowSpent DEF Tolerated, Spent
  <2> QED BY <1>4, <2>1, <2>2 DEF CallerStep, EnqueueLookup, EnqueueInsert, EnqueueReread
<1>5. ASSUME NEW i \in Jobs, Operator(i) \/ Clock(i)
      PROVE  \A j \in Jobs : Tolerated(j) /\ Spent(rows'[j])
  <2> USE DEF IInv, TypeOK, Row
  <2>1. CASE Cancel(i) BY <2>1, RowSpent DEF Cancel, Tolerated, Spent
  <2>2. CASE Retry(i) BY <2>2, RowSpent DEF Retry, Tolerated, Spent, Released
  <2>3. CASE LeaseLapses(i) BY <2>3, RowSpent DEF LeaseLapses, Tolerated, Spent
  <2>4. CASE RunAfterPasses(i)
    BY <2>4, RowSpent, IdleFact DEF RunAfterPasses, Tolerated, Spent
  <2> QED BY <1>5, <2>1, <2>2, <2>3, <2>4 DEF Operator, Clock
<1>6. ASSUME NEW p \in Procs, TickStart(p) \/ ReclaimGiveUp(p)
      PROVE  \A j \in Jobs : Tolerated(j) /\ Spent(rows'[j])
  <2> SUFFICES ASSUME NEW j \in Jobs PROVE Tolerated(j) /\ Spent(rows'[j])
    OBVIOUS
  <2>1. CASE rows'[j] = rows[j] BY <2>1, RowSpent DEF Tolerated
  <2>2. CASE /\ Lapsed(j) /\ rows[j].attempts < MaxAttempts
             /\ rows'[j] = Released(rows[j], "queued")
    BY <2>2, LapsedFact DEF Tolerated, Spent, Released, IInv, TypeOK, Row
  <2>3. CASE /\ Lapsed(j) /\ rows[j].attempts >= MaxAttempts
             /\ rows'[j] = Closed(rows[j], "failed")
    BY <2>3, LapsedFact, RowSpent DEF Tolerated, Spent, Closed, Released, IInv, TypeOK, Row
  <2> QED BY <1>6, <2>1, <2>2, <2>3 DEF TickStart, ReclaimGiveUp
<1>7. ASSUME NEW r \in Runs, Heartbeat(r)
      PROVE  \A j \in Jobs : Tolerated(j) /\ Spent(rows'[j])
  BY <1>7, RowSpent DEF Heartbeat, Tolerated, Spent, IInv, TypeOK, Row
<1>8. \A j \in Jobs : Tolerated(j) /\ Spent(rows'[j])
  BY <1>4, <1>5, <1>6, <1>7
<1> QED BY <1>1, <1>2, <1>8, RowsStep

LEMMA PendingIntro ==
  ASSUME TypeOK',
         \A q \in Procs, i \in Jobs :
           procs'[q].got = i /\ rows'[i].state = "running" /\ rows'[i].owner = q
             => rows'[i].lease = "live" /\ \A s \in Runs : runs'[s].job # i
  PROVE  ClaimPending'
BY DEF TypeOK, Proc, ClaimPending, Mine, Executing

\* A claim uses up an attempt of a row nobody executes.
LEMMA ClaimStep ==
  ASSUME IInv, TypeOK', Shape', NEW p \in Procs, Claim(p) PROVE IInv'
<1> USE LimitFact
<1>1. PICK j \in Jobs :
        /\ rows[j].state = "queued"
        /\ rows' = [rows EXCEPT ![j] = Claimed(@, p)]
        /\ procs' = [procs EXCEPT ![p] = [@ EXCEPT !.tick = "readback", !.got = j]]
  BY DEF Claim, Claimable
<1>2. /\ UNCHANGED <<runs, running>>
      /\ procs[p].tick = "claim" /\ Cardinality(running[p]) < Concurrency
  BY DEF Claim, MayClaim
<1>3. /\ rows'[j].state = "running" /\ rows'[j].owner = p
      /\ rows'[j].lease = "live" /\ rows'[j].attempts = rows[j].attempts + 1
      /\ \A i \in Jobs : i # j => rows'[i] = rows[i]
  BY <1>1 DEF Claimed, IInv, TypeOK, Row
<1>4. /\ procs'[p].got = j
      /\ \A q \in Procs : q # p => procs'[q] = procs[q]
  BY <1>1 DEF IInv, TypeOK, Proc
<1>5. ~ Executing(j) BY <1>1, IdleFact
<1>6. AttemptsBounded' /\ AttemptLeft' /\ FailedMeansSpent'
  <2>1. Spent(rows'[j])
    BY <1>1, <1>3, RowSpent DEF Spent, IInv, TypeOK, Row
  <2>2. \A i \in Jobs : Spent(rows'[i]) BY <1>3, <2>1, RowSpent
  <2> QED BY <2>2 DEF Spent, AttemptsBounded, AttemptLeft, FailedMeansSpent
<1>7. SlotKept' BY <1>2, <1>4 DEF IInv, SlotKept
<1>8. OneExecutor' /\ SlotsRespected'
  BY <1>2 DEF IInv, OneExecutor, SlotsRespected, Active
<1>9. ClaimHeld'
  <2> SUFFICES ASSUME NEW r \in Runs, runs[r].phase # "free"
               PROVE  rows'[runs[r].job] = rows[runs[r].job]
    BY <1>2 DEF IInv, ClaimHeld, Mine
  <2>1. runs[r].job \in Jobs BY NoneFacts DEF IInv, TypeOK, Run, Shape
  <2> QED BY <1>3, <1>5, <2>1 DEF Executing
<1>10. ClaimPending'
  <2> SUFFICES ASSUME NEW q \in Procs, NEW i \in Jobs, procs'[q].got = i,
                      rows'[i].state = "running", rows'[i].owner = q
               PROVE  rows'[i].lease = "live" /\ \A s \in Runs : runs'[s].job # i
    BY PendingIntro
  <2>1. CASE q = p BY <1>2, <1>3, <1>4, <1>5, <2>1 DEF Executing
  <2>2. CASE q # p
    <3>1. procs[q].got = i /\ i # j BY <1>3, <1>4, <2>2
    <3> QED BY <1>2, <1>3, <3>1, NoneFacts DEF IInv, ClaimPending, Mine, Executing
  <2> QED BY <2>1, <2>2
<1> QED BY <1>6, <1>7, <1>8, <1>9, <1>10 DEF IInv

\* Reading the claimed row back starts the one activation of its job, in the
\* slot that was free when the claim was made.
LEMMA ReadBackStep ==
  ASSUME IInv, TypeOK', Shape', NEW p \in Procs, ReadBack(p) PROVE IInv'
<1> DEFINE j == procs[p].got
<1>1. /\ procs[p].tick = "readback" /\ Mine(p, j) /\ j \in Jobs /\ j # None
      /\ UNCHANGED rows
  BY DEF ReadBack, IInv, TypeOK, Proc, Shape
<1>2. PICK r \in Runs :
        /\ ProcOf[r] = p /\ runs[r].phase = "free"
        /\ runs' = [runs EXCEPT ![r] = [phase |-> "handler", job |-> j,
                                        att |-> rows[j].attempts]]
  BY DEF ReadBack
<1>3. /\ runs'[r].phase = "handler" /\ runs'[r].job = j
      /\ runs'[r].att = rows[j].attempts
      /\ \A s \in Runs : s # r => runs'[s] = runs[s]
  BY <1>2 DEF IInv, TypeOK
<1>4. ~ Executing(j) /\ rows[j].lease = "live" BY <1>1 DEF IInv, ClaimPending
<1>5. /\ procs'[p].got = None /\ procs'[p].tick = "claim"
      /\ \A q \in Procs : q # p => procs'[q] = procs[q]
  BY DEF ReadBack, IInv, TypeOK, Proc
<1>6. /\ running'[p] = running[p] \cup {j}
      /\ \A q \in Procs : q # p => running'[q] = running[q]
  BY DEF ReadBack, IInv, TypeOK
<1> HIDE DEF j
<1>7. AttemptsBounded' /\ AttemptLeft' /\ FailedMeansSpent'
  BY <1>1 DEF IInv, AttemptsBounded, AttemptLeft, FailedMeansSpent
<1>8. SlotKept'
  BY <1>5, <1>6 DEF IInv, SlotKept
<1>9. OneExecutor' BY <1>3, <1>4 DEF IInv, OneExecutor, Executing
<1>10. ClaimHeld' BY <1>1, <1>2, <1>3, <1>4 DEF IInv, ClaimHeld, Mine
<1>11. ClaimPending'
  <2> SUFFICES ASSUME NEW q \in Procs, NEW i \in Jobs, procs'[q].got = i,
                      rows'[i].state = "running", rows'[i].owner = q
               PROVE  rows'[i].lease = "live" /\ \A s \in Runs : runs'[s].job # i
    BY PendingIntro
  <2>1. q # p /\ procs[q].got = i BY <1>5, NoneFacts
  <2>2. i # j BY <1>1, <2>1 DEF Mine
  <2> QED BY <1>1, <1>3, <2>1, <2>2, NoneFacts DEF IInv, ClaimPending, Mine, Executing
<1>12. SlotsRespected'
  <2>1. ASSUME NEW q \in Procs PROVE running'[q] = {runs'[s].job : s \in Active(q)'}
    <3>1. running[q] = {runs[s].job : s \in Active(q)} BY DEF IInv, SlotsRespected
    <3>2. Active(q)' = IF q = p THEN Active(q) \cup {r} ELSE Active(q)
      BY <1>2, <1>3 DEF Active
    <3>3. r \notin Active(q) BY <1>2 DEF Active
    <3>4. \A s \in Active(q) : runs'[s] = runs[s] BY <1>3, <3>3 DEF Active
    <3> QED BY <1>3, <1>6, <3>1, <3>2, <3>4
  <2>2. ASSUME NEW q \in Procs PROVE Cardinality(running'[q]) <= Concurrency
    <3>1. CASE q # p BY <1>6, <3>1 DEF IInv, SlotsRespected
    <3>2. CASE q = p
      <4>1. IsFiniteSet(running[p]) BY RunningFinite DEF IInv
      <4>2. Cardinality(running[p] \cup {j}) \in
              {Cardinality(running[p]), Cardinality(running[p]) + 1}
        BY <4>1, FS_AddElement
      <4>3. Cardinality(running[p]) \in Nat BY <4>1, FS_CardinalityType
      <4>4. Cardinality(running[p]) < Concurrency /\ Concurrency \in Nat
        BY <1>1, QueueAssumption DEF IInv, SlotKept
      <4>5. Cardinality(running[p] \cup {j}) <= Concurrency BY <4>2, <4>3, <4>4
      <4> QED BY <1>6, <3>2, <4>5
    <3> QED BY <3>1, <3>2
  <2> QED BY <2>1, <2>2 DEF SlotsRespected, Active
<1> QED BY <1>7, <1>8, <1>9, <1>10, <1>11, <1>12 DEF IInv

\* The loop moves on, a process comes up or goes down: the table stays, and
\* activations and pending claims only go.
LEMMA LoopStep ==
  ASSUME IInv, TypeOK', Shape', NEW p \in Procs,
         TickEnd(p) \/ ReadBackMiss(p) \/ Lifecycle(p)
  PROVE  IInv'
<1>1. UNCHANGED rows
      /\ \A q \in Procs : /\ procs'[q].got \in {procs[q].got, None}
                          /\ procs'[q].tick = "readback" => procs[q].tick = "readback"
  <2> USE DEF IInv, TypeOK, Proc
  <2>1. CASE TickEnd(p) BY <2>1 DEF TickEnd, SetTick
  <2>2. CASE ReadBackMiss(p) BY <2>2 DEF ReadBackMiss
  <2>3. CASE Stop(p) BY <2>3 DEF Stop
  <2>4. CASE Crash(p) BY <2>4 DEF Crash, NewProc
  <2>5. CASE Start(p) BY <2>5 DEF Start
  <2> QED BY <2>1, <2>2, <2>3, <2>4, <2>5 DEF Lifecycle
<1>2. AttemptsBounded' /\ AttemptLeft' /\ FailedMeansSpent'
  BY <1>1 DEF IInv, AttemptsBounded, AttemptLeft, FailedMeansSpent
<1>3. CASE UNCHANGED <<runs, running>>
  <2>1. ClaimPending' BY <1>1, <1>3 DEF IInv, ClaimPending, Mine, Executing
  <2>2. OneExecutor' /\ SlotsRespected'
    BY <1>3 DEF IInv, OneExecutor, SlotsRespected, Active
  <2>3. ClaimHeld' BY <1>1, <1>3 DEF IInv, ClaimHeld, Mine
  <2>4. SlotKept' BY <1>1, <1>3 DEF IInv, SlotKept
  <2> QED BY <1>2, <2>1, <2>2, <2>3, <2>4 DEF IInv
<1>4. CASE Crash(p)
  <2>1. \A r \in Runs : runs'[r] = IF ProcOf[r] = p THEN FreeRun ELSE runs[r]
    BY <1>4 DEF Crash
  <2>2. \A q \in Procs : running'[q] = IF q = p THEN {} ELSE running[q]
    BY <1>4 DEF Crash, IInv, TypeOK
  <2>3. \A r \in Runs : runs'[r].phase # "free" => ProcOf[r] # p /\ runs'[r] = runs[r]
    BY <2>1 DEF FreeRun
  <2>4. procs'[p].tick = "idle" BY <1>4 DEF Crash, NewProc, IInv, TypeOK
  <2>5. OneExecutor' BY <2>3 DEF IInv, OneExecutor
  <2>6. ClaimHeld' BY <1>1, <2>3 DEF IInv, ClaimHeld, Mine
  <2>7. \A j \in Jobs : Executing(j)' => Executing(j)
    BY <2>1, NoneFacts DEF Executing, FreeRun
  <2>8. ClaimPending'
    <3> SUFFICES ASSUME NEW q \in Procs, NEW i \in Jobs, procs'[q].got = i,
                        rows'[i].state = "running", rows'[i].owner = q
                 PROVE  rows'[i].lease = "live" /\ \A s \in Runs : runs'[s].job # i
      BY PendingIntro
    <3>1. procs[q].got = i BY <1>1, NoneFacts
    <3> QED BY <1>1, <2>7, <3>1, NoneFacts DEF IInv, ClaimPending, Mine, Executing
  <2>9. SlotKept' BY <1>1, <2>2, <2>4 DEF IInv, SlotKept
  <2>10. SlotsRespected'
    <3>1. ASSUME NEW q \in Procs, q # p
          PROVE  running'[q] = {runs'[s].job : s \in Active(q)'}
      <4>1. Active(q)' = Active(q) /\ \A s \in Active(q) : runs'[s] = runs[s]
        BY <2>1, <3>1 DEF Active
      <4>2. {runs'[s].job : s \in Active(q)} = {runs[s].job : s \in Active(q)}
        BY <4>1
      <4> QED BY <2>2, <3>1, <4>1, <4>2 DEF IInv, SlotsRespected
    <3>2. Active(p)' = {} BY <2>1 DEF Active, FreeRun
    <3>3. running'[p] = {runs'[s].job : s \in Active(p)'} BY <2>2, <3>2
    <3>4. Cardinality({}) <= Concurrency BY FS_EmptySet, QueueAssumption
    <3>5. ASSUME NEW q \in Procs PROVE Cardinality(running'[q]) <= Concurrency
      BY <2>2, <3>4 DEF IInv, SlotsRespected
    <3>6. \A q \in Procs : running'[q] = {runs'[s].job : s \in Active(q)'}
      BY <3>1, <3>3
    <3> QED BY <3>5, <3>6 DEF SlotsRespected, Active
  <2> QED BY <1>2, <2>5, <2>6, <2>8, <2>9, <2>10 DEF IInv
<1> QED BY <1>3, <1>4 DEF TickEnd, ReadBackMiss, Lifecycle, Stop, Start

\* The handler runs and its outcome is written: finish() and the backoff touch
\* only the row of the claim they belong to.
LEMMA OutcomeSteps ==
  ASSUME IInv, TypeOK', Shape', NEW r \in Runs, RunStep(r) PROVE IInv'
<1> USE LimitFact
<1> DEFINE j == runs[r].job
<1>1. runs[r].phase # "free" /\ j \in Jobs
  BY DEF RunStep, HandlerEnds, HandlerStops, HandlerReturns, HandlerThrows,
         ReadState, FinishDone, FailOrBackOff, IInv, TypeOK, Run, Shape
<1>2. Spent(rows[j]) /\ rows[j].attempts = runs[r].att
  BY <1>1, RowSpent DEF IInv, ClaimHeld
<1>3. ASSUME UNCHANGED <<rows, procs, running>>,
             NEW ph \in {"returned", "threw", "finishing"}, SetPhase(r, ph)
      PROVE  IInv'
  BY <1>1, <1>3, PhaseStep
<1>4. ASSUME UNCHANGED <<rows, procs>>, Settle(r) PROVE IInv'
  BY <1>1, <1>2, <1>4, SettleStep
<1>5. ASSUME NEW new \in Row, UNCHANGED procs, Settle(r),
             rows' = [rows EXCEPT ![j] = new], new.state # "running", Spent(new)
      PROVE  IInv'
  <2>1. rows'[j] = new /\ \A i \in Jobs : i # j => rows'[i] = rows[i]
    BY <1>1, <1>5 DEF IInv, TypeOK
  <2> QED BY <1>1, <1>5, <2>1, SettleStep
<1>6. CASE HandlerEnds(r)
  BY <1>3, <1>6 DEF HandlerEnds, HandlerStops, HandlerReturns, HandlerThrows
<1>7. CASE ReadState(r)
  BY <1>3, <1>4, <1>7 DEF ReadState
<1>8. rows[j] \in Row BY <1>1 DEF IInv, TypeOK
<1>9. CASE FinishDone(r)
  <2>1. Closed(rows[j], "done") \in Row BY <1>8, StateFacts, RowFacts
  <2>2. Closed(rows[j], "done").state = "done" /\ Spent(Closed(rows[j], "done"))
    BY <1>2, <1>8 DEF Closed, Released, Spent, Row
  <2> QED BY <1>4, <1>5, <1>9, <2>1, <2>2 DEF FinishDone, Finished
<1>10. CASE FailOrBackOff(r)
  <2>1. Closed(rows[j], "failed") \in Row BY <1>8, StateFacts, RowFacts
  <2>2. runs[r].att >= MaxAttempts =>
          Closed(rows[j], "failed").state = "failed" /\ Spent(Closed(rows[j], "failed"))
    BY <1>2, <1>8 DEF Closed, Released, Spent, Row
  <2> DEFINE queued == [Released(rows[j], "queued") EXCEPT !.due = FALSE]
  <2>3. queued \in Row /\ queued.state = "queued" /\ queued.attempts = rows[j].attempts
    BY <1>8, StateFacts DEF Released, Row
  <2>4. ~ (runs[r].att >= MaxAttempts) => Spent(queued)
    BY <1>2, <1>8, <2>3 DEF Spent, Row
  <2>5. \/ UNCHANGED rows
        \/ runs[r].att >= MaxAttempts
           /\ rows' = [rows EXCEPT ![j] = Closed(rows[j], "failed")]
        \/ ~ (runs[r].att >= MaxAttempts) /\ rows' = [rows EXCEPT ![j] = queued]
    BY <1>10 DEF FailOrBackOff, Finished, BackedOff
  <2>6. UNCHANGED procs /\ Settle(r) BY <1>10 DEF FailOrBackOff
  <2> HIDE DEF queued
  <2> QED BY <1>4, <1>5, <2>1, <2>2, <2>3, <2>4, <2>5, <2>6
<1> QED BY <1>6, <1>7, <1>9, <1>10 DEF RunStep

-----------------------------------------------------------------------------
LEMMA InvariantStep ==
  ASSUME ~ Overrun, ~ EagerRetry, IInv, [Next]_vars PROVE IInv'
<1>1. TypeOK' /\ Shape' BY TypeStep, ShapeStep DEF IInv
<1>2. CASE UNCHANGED vars
  BY <1>1, <1>2 DEF vars, IInv, SlotKept, AttemptLeft, ClaimPending, AttemptsBounded,
     OneExecutor, ClaimHeld, SlotsRespected, FailedMeansSpent, Active, Mine, Executing
<1>3. CASE \/ \E c \in Callers : CallerStep(c)
           \/ \E j \in Jobs : Operator(j) \/ Clock(j)
           \/ \E p \in Procs : TickStart(p) \/ ReclaimGiveUp(p)
           \/ \E r \in Runs : Heartbeat(r)
  BY <1>1, <1>3, TableSteps
<1>4. ASSUME NEW p \in Procs, ProcStep(p) \/ Lifecycle(p) PROVE IInv'
  BY <1>1, <1>3, <1>4, ClaimStep, ReadBackStep, LoopStep DEF ProcStep
<1>5. ASSUME NEW r \in Runs, RunStep(r) PROVE IInv'
  BY <1>1, <1>5, OutcomeSteps
<1> QED BY <1>2, <1>3, <1>4, <1>5 DEF Next

LEMMA InvariantInit == Init => IInv
<1> SUFFICES ASSUME Init PROVE IInv
  OBVIOUS
<1>1. TypeOK /\ Shape BY InitTyped
<1>2. SlotKept /\ ClaimPending BY DEF Init, SlotKept, ClaimPending, NewProc
<1>3. AttemptLeft /\ AttemptsBounded /\ FailedMeansSpent
  BY LimitFact DEF Init, AttemptLeft, AttemptsBounded, FailedMeansSpent, NoRow
<1>4. OneExecutor /\ ClaimHeld BY DEF Init, OneExecutor, ClaimHeld, FreeRun
<1>5. SlotsRespected
  <2>1. \A p \in Procs : Active(p) = {} BY DEF Init, Active, FreeRun
  <2>2. Cardinality({}) <= Concurrency BY FS_EmptySet, QueueAssumption
  <2> QED BY <2>1, <2>2 DEF Init, SlotsRespected
<1> QED BY <1>1, <1>2, <1>3, <1>4, <1>5 DEF IInv

\* Where leases outlive the work of their holders and an operator retries only
\* what has settled, every claim of the queue holds after any sequence of
\* claims, crashes, restarts, failed statements, cancels and retries: the
\* attempts stay within their limit, no job is executed twice at once, an
\* activation's row is still its own claim, the slots of a process are never
\* exceeded, and nothing fails before its attempts are spent.
THEOREM ClaimingSafe ==
  ASSUME ~ Overrun, ~ EagerRetry
  PROVE  Spec => [](/\ AttemptsBounded /\ OneExecutor /\ ClaimHeld
                    /\ SlotsRespected /\ FailedMeansSpent)
<1>1. IInv /\ [Next]_vars => IInv' BY InvariantStep
<1>2. IInv => /\ AttemptsBounded /\ OneExecutor /\ ClaimHeld
              /\ SlotsRespected /\ FailedMeansSpent
  BY DEF IInv
<1> QED BY <1>1, <1>2, InvariantInit, PTL DEF Spec

-----------------------------------------------------------------------------
(* One live row for a unit of work.                                         *)

\* The unique index, and what keeps a live row's key: nobody but an operator cancels,
\* and nobody but an operator makes a row live that has lost its key.
KeyInv ==
  /\ \A i, j \in Jobs : rows[i].keyed /\ rows[j].keyed /\ rows[i].kind = rows[j].kind => i = j
  /\ used.cancel = 0 => \A j \in Jobs : rows[j].state # "cancelled"
  /\ used.retry = 0 /\ used.cancel = 0 =>
       \A j \in Jobs : rows[j].state \in Live /\ rows[j].kind \in Deduped => rows[j].keyed

\* A row stays the row of its work, and lives on only with its key.
SameWork(old, new) == new.kind = old.kind /\ (new.keyed => old.keyed)
LivesOn(old, new) ==
  /\ new.state = "cancelled" => old.state = "cancelled"
  /\ new.state \in Live => old.state \in Live \cup {"cancelled"} /\ new.keyed = old.keyed

\* A new row, under a key nobody holds.
Inserted == \E j \in Jobs, k \in Kinds \cup {None}, d \in BOOLEAN :
  /\ k \in Deduped => ~ \E i \in Jobs : HoldsKey(i, k)
  /\ rows' = [rows EXCEPT ![j] = NewRow(k, d)]

Budgets == used'.cancel = used.cancel /\ used'.retry = used.retry

\* What a step does to the rows, seen from their keys.
LEMMA RowsKeyed ==
  ASSUME IInv, [Next]_vars
  PROVE  \/ Inserted /\ Budgets
         \/ Budgets /\ \A j \in Jobs : SameWork(rows[j], rows'[j]) /\ LivesOn(rows[j], rows'[j])
         \/ /\ \A j \in Jobs : SameWork(rows[j], rows'[j])
            /\ \/ used'.cancel # 0
               \/ /\ used'.retry # 0 /\ used'.cancel = used.cancel
                  /\ \A j \in Jobs : rows'[j].state = "cancelled" => rows[j].state = "cancelled"
<1> DEFINE Ordinary == \A j \in Jobs : SameWork(rows[j], rows'[j]) /\ LivesOn(rows[j], rows'[j])
<1>0. rows \in [Jobs -> Row] /\ used \in Budget BY DEF IInv, TypeOK
<1>1. UNCHANGED rows => Ordinary
  BY DEF SameWork, LivesOn
<1>2. DbFails => Budgets BY <1>0 DEF DbFails, Budgets, Budget
<1>3. UNCHANGED used => Budgets BY DEF Budgets
<1>4. ASSUME NEW j \in Jobs, NEW new, rows' = [rows EXCEPT ![j] = new],
             SameWork(rows[j], new), LivesOn(rows[j], new)
      PROVE  Ordinary
  BY <1>0, <1>1, <1>4 DEF SameWork, LivesOn
<1>5. ASSUME NEW c \in Callers, CallerStep(c) PROVE (Inserted \/ Ordinary) /\ Budgets
  <2>1. CASE \E k \in Kinds : EnqueueLookup(c, k) BY <1>1, <1>3, <2>1 DEF EnqueueLookup
  <2>2. CASE EnqueueInsert(c)
    <3>1. calls[c].kind \in Kinds \cup {None} BY DEF IInv, TypeOK, Call
    <3>2. rows' = rows \/ Inserted
      BY <2>2, <3>1 DEF EnqueueInsert, Inserted
    <3>3. DbFails \/ UNCHANGED used BY <2>2 DEF EnqueueInsert
    <3> QED BY <1>1, <1>2, <1>3, <3>2, <3>3
  <2>3. CASE EnqueueReread(c) BY <1>1, <1>3, <2>3 DEF EnqueueReread
  <2> QED BY <1>5, <2>1, <2>2, <2>3 DEF CallerStep
<1>6. ASSUME NEW j \in Jobs, Cancel(j)
      PROVE  used'.cancel # 0 /\ \A i \in Jobs : SameWork(rows[i], rows'[i])
  <2>1. used'.cancel # 0 BY <1>0, <1>6 DEF Cancel, Budget
  <2>2. PICK new : new = [rows[j] EXCEPT !.state = "cancelled", !.keyed = FALSE] OBVIOUS
  <2>3. rows' = [rows EXCEPT ![j] = new] /\ SameWork(rows[j], new)
    BY <1>0, <1>6, <2>2 DEF Cancel, SameWork, Row
  <2> QED BY <1>0, <2>1, <2>3 DEF SameWork
<1>7. ASSUME NEW j \in Jobs, Retry(j)
      PROVE  /\ used'.retry # 0 /\ used'.cancel = used.cancel
             /\ \A i \in Jobs : /\ SameWork(rows[i], rows'[i])
                                /\ rows'[i].state = "cancelled" => rows[i].state = "cancelled"
  <2>1. used'.retry # 0 /\ used'.cancel = used.cancel BY <1>0, <1>7 DEF Retry, Budget
  <2>2. PICK new : new = [Released(rows[j], "queued") EXCEPT !.attempts = 0, !.due = TRUE] OBVIOUS
  <2>3. rows' = [rows EXCEPT ![j] = new] BY <1>7, <2>2 DEF Retry
  <2>4. SameWork(rows[j], new) /\ new.state = "queued"
    BY <1>0, <2>2 DEF Released, SameWork, Row
  <2> QED BY <1>0, <2>1, <2>3, <2>4 DEF SameWork
<1>8. ASSUME NEW j \in Jobs, Clock(j) PROVE Ordinary /\ Budgets
  <2>1. PICK new : \/ new = [rows[j] EXCEPT !.lease = "lapsed"] /\ LeaseLapses(j)
                   \/ new = [rows[j] EXCEPT !.due = TRUE] /\ RunAfterPasses(j)
    BY <1>8 DEF Clock
  <2>2. rows' = [rows EXCEPT ![j] = new] /\ UNCHANGED used
    BY <2>1 DEF LeaseLapses, RunAfterPasses
  <2>3. new.kind = rows[j].kind /\ new.keyed = rows[j].keyed /\ new.state = rows[j].state
    BY <1>0, <2>1 DEF Row
  <2>4. SameWork(rows[j], new) /\ LivesOn(rows[j], new) BY <2>3 DEF SameWork, LivesOn
  <2> QED BY <1>3, <1>4, <2>2, <2>4
<1>9. ASSUME NEW p \in Procs, ProcStep(p) \/ Lifecycle(p) PROVE Ordinary /\ Budgets
  <2>1. \A j \in Jobs : Lapsed(j) =>
          /\ SameWork(rows[j], Released(rows[j], "queued"))
          /\ LivesOn(rows[j], Released(rows[j], "queued"))
          /\ SameWork(rows[j], Closed(rows[j], "failed"))
          /\ LivesOn(rows[j], Closed(rows[j], "failed"))
    BY <1>0 DEF Lapsed, Released, Closed, SameWork, LivesOn, Live, Row
  <2>2. \A j \in Jobs : SameWork(rows[j], rows[j]) /\ LivesOn(rows[j], rows[j])
    BY DEF SameWork, LivesOn
  <2>3. CASE TickStart(p)
    <3>1. ASSUME rows' = [j \in Jobs |-> IF Lapsed(j) /\ rows[j].attempts < MaxAttempts
                                         THEN Released(rows[j], "queued") ELSE rows[j]]
          PROVE  Ordinary
      <4> SUFFICES ASSUME NEW j \in Jobs
                   PROVE  SameWork(rows[j], rows'[j]) /\ LivesOn(rows[j], rows'[j])
        OBVIOUS
      <4>1. rows'[j] = rows[j] \/ (Lapsed(j) /\ rows'[j] = Released(rows[j], "queued")) BY <3>1
      <4> QED BY <2>1, <2>2, <4>1
    <3>2. Ordinary BY <1>1, <2>3, <3>1 DEF TickStart
    <3> QED BY <1>2, <1>3, <2>3, <3>2 DEF TickStart
  <2>4. CASE ReclaimGiveUp(p)
    <3>1. ASSUME rows' = [j \in Jobs |-> IF Lapsed(j) /\ rows[j].attempts >= MaxAttempts
                                         THEN Closed(rows[j], "failed") ELSE rows[j]]
          PROVE  Ordinary
      <4> SUFFICES ASSUME NEW j \in Jobs
                   PROVE  SameWork(rows[j], rows'[j]) /\ LivesOn(rows[j], rows'[j])
        OBVIOUS
      <4>1. rows'[j] = rows[j] \/ (Lapsed(j) /\ rows'[j] = Closed(rows[j], "failed")) BY <3>1
      <4> QED BY <2>1, <2>2, <4>1
    <3>2. Ordinary BY <1>1, <2>4, <3>1 DEF ReclaimGiveUp
    <3> QED BY <1>2, <1>3, <2>4, <3>2 DEF ReclaimGiveUp
  <2>5. CASE Claim(p)
    <3>1. PICK j \in Claimable(p) : rows' = [rows EXCEPT ![j] = Claimed(rows[j], p)]
      BY <2>5 DEF Claim
    <3>2. j \in Jobs /\ rows[j].state = "queued" BY DEF Claimable
    <3>3. SameWork(rows[j], Claimed(rows[j], p)) /\ LivesOn(rows[j], Claimed(rows[j], p))
      BY <1>0, <3>2 DEF Claimed, SameWork, LivesOn, Live, Row
    <3> QED BY <1>3, <1>4, <2>5, <3>1, <3>2, <3>3 DEF Claim
  <2>6. CASE TickEnd(p) \/ ReadBack(p) \/ ReadBackMiss(p)
    BY <1>1, <1>2, <1>3, <2>6 DEF TickEnd, ReadBack, ReadBackMiss
  <2>7. CASE Lifecycle(p)
    BY <1>0, <1>1, <2>7 DEF Lifecycle, Stop, Crash, Start, Budgets, Budget
  <2> QED BY <1>9, <2>3, <2>4, <2>5, <2>6, <2>7 DEF ProcStep
<1>10. ASSUME NEW r \in Runs, RunStep(r) \/ Heartbeat(r) PROVE Ordinary /\ Budgets
  <2>1. runs[r].phase # "free" /\ runs[r].job \in Jobs
    BY <1>10 DEF RunStep, HandlerEnds, HandlerStops, HandlerReturns, HandlerThrows,
       ReadState, FinishDone, FailOrBackOff, Heartbeat, IInv, TypeOK, Run, Shape
  <2>2. PICK j \in Jobs : j = runs[r].job BY <2>1
  <2>3. rows[j].state \in {"running", "cancelled"}
    BY <2>1, <2>2 DEF IInv, ClaimHeld, Mine
  <2>4. CASE Heartbeat(r)
    <3>1. PICK new : new = [rows[j] EXCEPT !.lease = "live"] OBVIOUS
    <3>2. rows' = [rows EXCEPT ![j] = new] /\ UNCHANGED used BY <2>2, <2>4, <3>1 DEF Heartbeat
    <3>3. new.kind = rows[j].kind /\ new.keyed = rows[j].keyed /\ new.state = rows[j].state
      BY <1>0, <3>1 DEF Row
    <3>4. SameWork(rows[j], new) /\ LivesOn(rows[j], new) BY <3>3 DEF SameWork, LivesOn
    <3> QED BY <1>3, <1>4, <3>2, <3>4
  <2>5. CASE HandlerEnds(r) \/ ReadState(r)
    BY <1>1, <1>2, <1>3, <2>5
    DEF HandlerEnds, HandlerStops, HandlerReturns, HandlerThrows, ReadState
  <2>6. CASE FinishDone(r) \/ FailOrBackOff(r)
    <3>1. \A s \in {"done", "failed"} :
            SameWork(rows[j], Closed(rows[j], s)) /\ LivesOn(rows[j], Closed(rows[j], s))
      BY <1>0 DEF Closed, Released, SameWork, LivesOn, Live, Row
    <3>2. PICK new : new = [Released(rows[j], "queued") EXCEPT !.due = FALSE] OBVIOUS
    <3>3. new.kind = rows[j].kind /\ new.keyed = rows[j].keyed /\ new.state = "queued"
      BY <1>0, <3>2 DEF Released, Row
    <3>4. SameWork(rows[j], new) /\ LivesOn(rows[j], new)
      BY <2>3, <3>3 DEF SameWork, LivesOn, Live
    <3>5. \/ UNCHANGED rows
          \/ \E s \in {"done", "failed"} : rows' = [rows EXCEPT ![j] = Closed(rows[j], s)]
          \/ rows' = [rows EXCEPT ![j] = new]
      BY <2>2, <2>6, <3>2 DEF FinishDone, FailOrBackOff, Finished, BackedOff
    <3>6. DbFails \/ UNCHANGED used BY <2>6 DEF FinishDone, FailOrBackOff
    <3>7. Ordinary BY <1>1, <1>4, <3>1, <3>4, <3>5
    <3> QED BY <1>2, <1>3, <3>6, <3>7
  <2> QED BY <1>10, <2>4, <2>5, <2>6 DEF RunStep
<1>11. CASE UNCHANGED vars BY <1>1, <1>3, <1>11 DEF vars
<1> QED BY <1>5, <1>6, <1>7, <1>8, <1>9, <1>10, <1>11 DEF Next, Operator

\* A row inserted under a key nobody holds is the only one with it.
LEMMA KeyInserted ==
  ASSUME rows \in [Jobs -> Row], KeyInv, Inserted, Budgets PROVE KeyInv'
<1>1. PICK j \in Jobs, k \in Kinds \cup {None}, d \in BOOLEAN :
        /\ k \in Deduped => ~ \E i \in Jobs : HoldsKey(i, k)
        /\ rows' = [rows EXCEPT ![j] = NewRow(k, d)]
  BY DEF Inserted
<1>2. PICK new : new = NewRow(k, d) OBVIOUS
<1>3. new.kind = k /\ new.keyed = (k \in Deduped) /\ new.state = "queued"
  BY <1>2 DEF NewRow, NoRow
<1>4. rows'[j] = new /\ \A i \in Jobs \ {j} : rows'[i] = rows[i]
  BY <1>1, <1>2
<1>5. \A i \in Jobs \ {j} : rows[i].keyed /\ rows[i].kind = k => ~ new.keyed
  BY <1>1, <1>3 DEF HoldsKey
<1>6. \A x, y \in Jobs : rows'[x].keyed /\ rows'[y].keyed /\ rows'[x].kind = rows'[y].kind => x = y
  <2> SUFFICES ASSUME NEW x \in Jobs, NEW y \in Jobs, rows'[x].keyed, rows'[y].keyed,
                      rows'[x].kind = rows'[y].kind, x # y
               PROVE  FALSE
    OBVIOUS
  <2> QED BY <1>3, <1>4, <1>5 DEF KeyInv
<1>7. used'.cancel = 0 => \A x \in Jobs : rows'[x].state # "cancelled"
  BY <1>3, <1>4 DEF KeyInv, Budgets
<1>8. used'.retry = 0 /\ used'.cancel = 0 =>
        \A x \in Jobs : rows'[x].state \in Live /\ rows'[x].kind \in Deduped => rows'[x].keyed
  BY <1>3, <1>4 DEF KeyInv, Budgets
<1> QED BY <1>6, <1>7, <1>8 DEF KeyInv

LEMMA KeysKept == ASSUME IInv, KeyInv, [Next]_vars PROVE KeyInv'
<1>0. rows \in [Jobs -> Row] /\ used \in Budget BY DEF IInv, TypeOK
<1>1. CASE Inserted /\ Budgets BY <1>0, <1>1, KeyInserted
<1>2. ASSUME \A j \in Jobs : SameWork(rows[j], rows'[j])
      PROVE  \A i, j \in Jobs :
               rows'[i].keyed /\ rows'[j].keyed /\ rows'[i].kind = rows'[j].kind => i = j
  BY <1>2 DEF KeyInv, SameWork
<1>3. CASE Budgets /\ \A j \in Jobs : SameWork(rows[j], rows'[j]) /\ LivesOn(rows[j], rows'[j])
  <2>1. used'.cancel = 0 => \A j \in Jobs : rows'[j].state # "cancelled"
    BY <1>3 DEF KeyInv, Budgets, LivesOn
  <2>2. used'.retry = 0 /\ used'.cancel = 0 =>
          \A j \in Jobs : rows'[j].state \in Live /\ rows'[j].kind \in Deduped => rows'[j].keyed
    BY <1>3 DEF KeyInv, Budgets, LivesOn, SameWork
  <2> QED BY <1>2, <1>3, <2>1, <2>2 DEF KeyInv
<1>4. CASE /\ \A j \in Jobs : SameWork(rows[j], rows'[j])
           /\ \/ used'.cancel # 0
              \/ /\ used'.retry # 0 /\ used'.cancel = used.cancel
                 /\ \A j \in Jobs : rows'[j].state = "cancelled" => rows[j].state = "cancelled"
  BY <1>2, <1>4 DEF KeyInv
<1> QED BY <1>1, <1>3, <1>4, RowsKeyed

\* "Re-queuing the same work while it is still pending returns the EXISTING job": however
\* callers race between their lookup and their INSERT, and whatever is claimed, reclaimed,
\* lost or backed off in between, one unit of work has one live row, until an operator
\* has cancelled or retried a job.
THEOREM WorkQueuedOnce ==
  ASSUME ~ Overrun, ~ EagerRetry PROVE Spec => []OneLiveUntilOperator
<1>1. Init => KeyInv
  BY DEF Init, KeyInv, NoRow, Live
<1>2. IInv /\ KeyInv /\ [Next]_vars => (IInv /\ KeyInv)' BY InvariantStep, KeysKept
<1>3. KeyInv => OneLiveUntilOperator
  BY DEF KeyInv, OneLiveUntilOperator, OneLivePerWork, LiveFor
<1> QED BY <1>1, <1>2, <1>3, InvariantInit, PTL DEF Spec

-----------------------------------------------------------------------------
(* What an outcome is worth.                                                *)

\* The environment in which an outcome can be trusted.
Benign == ~ Overrun /\ ~ EagerRetry /\ ~ BlindReads

LEMMA IInvStep == ASSUME Benign, IInv, [Next]_vars PROVE IInv'
BY InvariantStep DEF Benign

-----------------------------------------------------------------------------
(* Outcomes.                                                                *)

\* Any step that starts, drops or fails activations and closes no row as done.
LEMMA OutcomeFrame ==
  ASSUME OutcomeInv, IInv',
         \A r \in Runs : runs'[r].phase \in {"finishing", "returned"}
                           => runs'[r] = runs[r],
         \A j \in Jobs :
           /\ \/ worked'[j] = worked[j]
              \/ ~ Executing(j) /\ rows'[j].state = "queued"
           /\ rows'[j].state = "done" => rows[j].state = "done"
           /\ rows[j].state = "cancelled" /\ rows'[j].state # "cancelled"
                => \A r \in Runs : runs'[r].job = j
                                     => runs'[r].phase \notin {"finishing", "returned"}
  PROVE  OutcomeInv'
<1>1. DoneMeansWorked' BY DEF OutcomeInv, DoneMeansWorked
<1>2. OutcomeSound'
  <2> SUFFICES ASSUME NEW r \in Runs, runs'[r].phase \in {"finishing", "returned"}
               PROVE  /\ runs[r].phase = "finishing" => worked'[runs[r].job]
                      /\ runs[r].phase = "returned" =>
                           worked'[runs[r].job] \/ rows'[runs[r].job].state = "cancelled"
    BY DEF OutcomeSound
  <2>1. runs'[r] = runs[r] /\ runs[r].job \in Jobs
    BY DEF OutcomeInv, IInv, TypeOK, Run, Shape
  <2>2. worked'[runs[r].job] = worked[runs[r].job]
    BY <2>1 DEF Executing
  <2> QED BY <2>1, <2>2 DEF OutcomeInv, OutcomeSound
<1> QED BY <1>1, <1>2 DEF OutcomeInv

LEMMA OutcomeTableSteps ==
  ASSUME Benign, OutcomeInv, IInv',
         \/ \E c \in Callers : CallerStep(c)
         \/ \E j \in Jobs : Operator(j) \/ Clock(j)
         \/ \E r \in Runs : Heartbeat(r)
  PROVE  OutcomeInv'
<1> USE DEF OutcomeInv, IInv, TypeOK, Row
<1>1. UNCHANGED runs
  BY DEF CallerStep, EnqueueLookup, EnqueueInsert, EnqueueReread, Operator, Clock,
         Cancel, Retry, LeaseLapses, RunAfterPasses, Heartbeat
<1>2. CASE UNCHANGED <<rows, worked>> BY <1>1, <1>2, OutcomeFrame
<1>3. ASSUME NEW i \in Jobs, NEW d \in BOOLEAN, NEW k, rows[i].state = "absent",
             rows' = [rows EXCEPT ![i] = NewRow(k, d)],
             worked' = [worked EXCEPT ![i] = FALSE]
      PROVE  OutcomeInv'
  <2>1. ~ Executing(i) BY <1>3, IdleFact
  <2>2. rows'[i].state = "queued" /\ \A j \in Jobs : j # i => rows'[j] = rows[j]
    BY <1>3 DEF NewRow, NoRow
  <2>3. \A j \in Jobs : j # i => worked'[j] = worked[j] BY <1>3
  <2> QED BY <1>1, <1>3, <2>1, <2>2, <2>3, OutcomeFrame
<1>4. ASSUME NEW i \in Jobs, Retry(i) PROVE OutcomeInv'
  <2>1. ~ Executing(i) BY <1>4 DEF Retry, Benign
  <2>2. rows'[i].state = "queued" /\ \A j \in Jobs : j # i => rows'[j] = rows[j]
    BY <1>4 DEF Retry, Released
  <2>3. \A j \in Jobs : j # i => worked'[j] = worked[j] BY <1>4 DEF Retry
  <2>4. \A r \in Runs : runs'[r].job # i BY <1>1, <2>1 DEF Executing
  <2> QED BY <1>1, <2>1, <2>2, <2>3, <2>4, OutcomeFrame
<1>5. ASSUME NEW i \in Jobs, Cancel(i) \/ Clock(i) PROVE OutcomeInv'
  <2>1. UNCHANGED worked
    BY <1>5 DEF Cancel, Clock, LeaseLapses, RunAfterPasses
  <2>2. \A j \in Jobs : /\ rows'[j].state = "done" => rows[j].state = "done"
                        /\ rows[j].state = "cancelled" => rows'[j].state = "cancelled"
    <3>1. CASE Cancel(i) BY <3>1 DEF Cancel
    <3>2. CASE LeaseLapses(i) BY <3>2 DEF LeaseLapses
    <3>3. CASE RunAfterPasses(i) BY <3>3 DEF RunAfterPasses
    <3> QED BY <1>5, <3>1, <3>2, <3>3 DEF Clock
  <2> QED BY <1>1, <2>1, <2>2, OutcomeFrame
<1>6. ASSUME NEW r \in Runs, Heartbeat(r) PROVE OutcomeInv'
  BY <1>1, <1>6, OutcomeFrame DEF Heartbeat
<1>7. ASSUME NEW c \in Callers, CallerStep(c) PROVE OutcomeInv'
  BY <1>2, <1>3, <1>7 DEF CallerStep, EnqueueLookup, EnqueueInsert, EnqueueReread
<1> QED BY <1>4, <1>5, <1>6, <1>7 DEF Operator

LEMMA OutcomeLoopSteps ==
  ASSUME Benign, OutcomeInv, IInv', NEW p \in Procs, ProcStep(p) \/ Lifecycle(p)
  PROVE  OutcomeInv'
<1> USE DEF OutcomeInv, IInv, TypeOK, Row
<1>1. UNCHANGED worked
  BY DEF ProcStep, Lifecycle, TickStart, ReclaimGiveUp, Claim, TickEnd, ReadBack,
         ReadBackMiss, Stop, Crash, Start
<1>2. \A r \in Runs : runs'[r].phase \in {"finishing", "returned"} => runs'[r] = runs[r]
  <2>1. CASE ReadBack(p) BY <2>1 DEF ReadBack
  <2>2. CASE Crash(p) BY <2>2 DEF Crash, FreeRun
  <2> QED BY <2>1, <2>2 DEF ProcStep, Lifecycle, TickStart, ReclaimGiveUp, Claim,
                            TickEnd, ReadBackMiss, Stop, Start
<1>3. \A j \in Jobs : /\ rows'[j].state = "done" => rows[j].state = "done"
                      /\ rows[j].state = "cancelled" => rows'[j].state = "cancelled"
  <2>1. CASE UNCHANGED rows BY <2>1
  <2>2. ASSUME TickStart(p) \/ ReclaimGiveUp(p), NEW j \in Jobs, rows'[j] # rows[j]
        PROVE  rows[j].state = "running" /\ rows'[j].state \in {"queued", "failed"}
    <3>1. rows[j] \in Row OBVIOUS
    <3>2. /\ Released(rows[j], "queued").state = "queued"
          /\ Closed(rows[j], "failed").state = "failed"
      BY <3>1 DEF Released, Closed, Row
    <3> QED BY <2>2, <3>2 DEF TickStart, ReclaimGiveUp, Lapsed
  <2>3. CASE TickStart(p) \/ ReclaimGiveUp(p) BY <2>2, <2>3
  <2>4. CASE Claim(p)
    <3>1. PICK i \in Jobs : rows[i].state = "queued"
                            /\ rows' = [rows EXCEPT ![i] = Claimed(@, p)]
      BY <2>4 DEF Claim, Claimable
    <3>2. rows'[i].state = "running" BY <3>1 DEF Claimed
    <3> QED BY <3>1, <3>2
  <2> QED BY <2>1, <2>2, <2>3, <2>4 DEF ProcStep, Lifecycle, TickEnd, ReadBack,
                                        ReadBackMiss, Stop, Crash, Start
<1> QED BY <1>1, <1>2, <1>3, OutcomeFrame

LEMMA OutcomeRunSteps ==
  ASSUME Benign, OutcomeInv, IInv', NEW r \in Runs, RunStep(r) PROVE OutcomeInv'
<1> USE DEF OutcomeInv, IInv, TypeOK, Row
<1> DEFINE j == runs[r].job
<1>1. runs[r].phase # "free" /\ j \in Jobs
  BY DEF RunStep, HandlerEnds, HandlerStops, HandlerReturns, HandlerThrows,
         ReadState, FinishDone, FailOrBackOff, Run, Shape
<1>2. \A s \in Runs : s # r /\ runs[s].phase # "free" => runs[s].job # j
  BY <1>1 DEF OneExecutor
<1>3. \A s \in Runs : runs[s].phase # "free" => runs[s].job \in Jobs
  BY DEF Run, Shape
<1>4. ASSUME SetPhase(r, "returned"), UNCHANGED rows,
             \/ UNCHANGED worked /\ rows[j].state = "cancelled"
             \/ worked' = [worked EXCEPT ![j] = TRUE]
      PROVE  OutcomeInv'
  <2>1. /\ runs'[r].phase = "returned" /\ runs'[r].job = j
        /\ \A s \in Runs : s # r => runs'[s] = runs[s]
    BY <1>4 DEF SetPhase, Run
  <2>2. DoneMeansWorked' BY <1>1, <1>4 DEF DoneMeansWorked
  <2>3. worked'[j] \/ rows'[j].state = "cancelled" BY <1>1, <1>4
  <2>4. \A i \in Jobs : i # j => worked'[i] = worked[i] BY <1>4
  <2>5. OutcomeSound'
    BY <1>2, <1>3, <1>4, <2>1, <2>3, <2>4 DEF OutcomeSound
  <2> QED BY <2>2, <2>5
<1>5. CASE HandlerStops(r) BY <1>4, <1>5 DEF HandlerStops, Benign
<1>6. CASE HandlerReturns(r) BY <1>4, <1>6 DEF HandlerReturns
<1>7. CASE HandlerThrows(r)
  <2>1. \A s \in Runs : runs'[s].phase \in {"finishing", "returned"} => runs'[s] = runs[s]
    BY <1>7 DEF HandlerThrows, SetPhase, Run
  <2> QED BY <1>7, <2>1, OutcomeFrame DEF HandlerThrows
<1>8. Settle(r) => \A s \in Runs : IF s = r THEN runs'[s].phase = "free"
                                            ELSE runs'[s] = runs[s]
  BY DEF Settle, FreeRun
<1>9. CASE ReadState(r)
  <2>1. CASE rows[j].state = "cancelled" /\ Settle(r)
    BY <1>8, <1>9, <2>1, OutcomeFrame DEF ReadState
  <2>2. CASE rows[j].state # "cancelled" /\ SetPhase(r, "finishing")
    <3>1. /\ runs'[r].phase = "finishing" /\ runs'[r].job = j
          /\ \A s \in Runs : s # r => runs'[s] = runs[s]
      BY <2>2 DEF SetPhase, Run
    <3>2. worked[j] BY <1>9, <2>2 DEF ReadState, OutcomeSound
    <3> QED BY <1>9, <3>1, <3>2 DEF ReadState, OutcomeSound, DoneMeansWorked
  <2> QED BY <1>9, <2>1, <2>2 DEF ReadState, Benign
<1>10. CASE FinishDone(r)
  <2>1. worked[j] BY <1>10 DEF FinishDone, OutcomeSound
  <2>2. \A i \in Jobs : i # j => rows'[i] = rows[i]
    BY <1>10 DEF FinishDone, Finished
  <2>3. UNCHANGED worked /\ Settle(r) BY <1>10 DEF FinishDone
  <2>4. DoneMeansWorked' BY <2>1, <2>2, <2>3 DEF DoneMeansWorked
  <2>5. OutcomeSound' BY <1>2, <1>3, <1>8, <2>2, <2>3 DEF OutcomeSound
  <2> QED BY <2>4, <2>5
<1>11. CASE FailOrBackOff(r)
  <2>1. \A i \in Jobs : i # j => rows'[i] = rows[i]
    BY <1>11 DEF FailOrBackOff, Finished, BackedOff
  <2>2. rows'[j] = rows[j] \/ rows'[j].state \in {"failed", "queued"}
    <3>1. rows[j] \in Row BY <1>1
    <3>2. /\ Released(rows[j], "queued").state = "queued"
          /\ Closed(rows[j], "failed").state = "failed"
          /\ [Released(rows[j], "queued") EXCEPT !.due = FALSE].state = "queued"
      BY <3>1 DEF Released, Closed, Row
    <3> QED BY <1>1, <1>11, <3>2 DEF FailOrBackOff, Finished, BackedOff
  <2>3. UNCHANGED worked /\ Settle(r) BY <1>11 DEF FailOrBackOff
  <2>4. DoneMeansWorked' BY <2>1, <2>2, <2>3 DEF DoneMeansWorked
  <2>5. OutcomeSound' BY <1>2, <1>3, <1>8, <2>1, <2>3 DEF OutcomeSound
  <2> QED BY <2>4, <2>5
<1> QED BY <1>5, <1>6, <1>7, <1>9, <1>10, <1>11 DEF RunStep, HandlerEnds

LEMMA OutcomeStep ==
  ASSUME Benign, OutcomeInv, [Next]_vars PROVE OutcomeInv'
<1>1. IInv' BY IInvStep DEF OutcomeInv
<1>2. CASE UNCHANGED vars
  BY <1>1, <1>2 DEF vars, OutcomeInv, OutcomeSound, DoneMeansWorked
<1> QED BY <1>1, <1>2, OutcomeTableSteps, OutcomeLoopSteps, OutcomeRunSteps DEF Next

LEMMA OutcomeInit == Init => OutcomeInv
<1>1. Init => OutcomeSound /\ DoneMeansWorked
  BY DEF Init, OutcomeSound, DoneMeansWorked, FreeRun, NoRow
<1> QED BY <1>1, InvariantInit DEF OutcomeInv

\* A job is reported done only if its handler saw its work to the end since the
\* job was last queued, where the state of a job can be read: the answer of
\* ctx.cancelled() and of the read before `done' are then about the row.
THEOREM DoneTrusted == ASSUME Benign PROVE Spec => []DoneMeansWorked
<1>1. OutcomeInv /\ [Next]_vars => OutcomeInv' BY OutcomeStep
<1>2. OutcomeInv => DoneMeansWorked BY DEF OutcomeInv
<1> QED BY <1>1, <1>2, OutcomeInit, PTL DEF Spec

-----------------------------------------------------------------------------
(* The refinement.                                                          *)

\* Only a job in state queued is cancelled, so an activation never stands on a
\* cancelled row.
NotWithdrawn == \A r \in Runs :
  runs[r].phase # "free" => rows[runs[r].job].state # "cancelled"

Trusted == Benign /\ ~ CancelRunning

LEMMA NotWithdrawnFrame ==
  ASSUME IInv, NotWithdrawn,
         \A r \in Runs : runs'[r].phase # "free" =>
           runs[r].phase # "free" /\ runs'[r].job = runs[r].job,
         \A j \in Jobs : rows'[j].state = "cancelled" =>
           rows[j].state = "cancelled" \/ ~ Executing(j)
  PROVE  NotWithdrawn'
<1> SUFFICES ASSUME NEW r \in Runs, runs'[r].phase # "free"
             PROVE  rows'[runs'[r].job].state # "cancelled"
  BY DEF NotWithdrawn
<1>1. runs[r].phase # "free" /\ runs'[r].job = runs[r].job /\ runs[r].job \in Jobs
  BY DEF IInv, TypeOK, Run, Shape
<1> QED BY <1>1 DEF NotWithdrawn, Executing

LEMMA NotWithdrawnStep ==
  ASSUME Trusted, IInv, NotWithdrawn, [Next]_vars PROVE NotWithdrawn'
<1> USE DEF IInv, TypeOK, Row
<1>1. CASE UNCHANGED vars BY <1>1 DEF vars, NotWithdrawn
<1>2. ASSUME NEW c \in Callers, CallerStep(c) PROVE NotWithdrawn'
  <2>1. UNCHANGED runs
    BY <1>2 DEF CallerStep, EnqueueLookup, EnqueueInsert, EnqueueReread
  <2>2. ASSUME NEW i \in Jobs, NEW d \in BOOLEAN, NEW k,
               rows' = [rows EXCEPT ![i] = NewRow(k, d)]
        PROVE  \A j \in Jobs : rows'[j].state = "cancelled" => rows[j].state = "cancelled"
    <3>1. rows'[i].state = "queued" BY <2>2 DEF NewRow, NoRow
    <3> QED BY <2>2, <3>1
  <2>3. \A j \in Jobs : rows'[j].state = "cancelled" => rows[j].state = "cancelled"
    BY <1>2, <2>2 DEF CallerStep, EnqueueLookup, EnqueueInsert, EnqueueReread
  <2> QED BY <2>1, <2>3, NotWithdrawnFrame
<1>3. ASSUME NEW i \in Jobs, Operator(i) \/ Clock(i) PROVE NotWithdrawn'
  <2>1. UNCHANGED runs
    BY <1>3 DEF Operator, Clock, Cancel, Retry, LeaseLapses, RunAfterPasses
  <2>2. CASE Cancel(i)
    <3>1. ~ Executing(i)
      BY <2>2, IdleFact DEF Cancel, Trusted, Live
    <3>2. \A j \in Jobs : j # i => rows'[j] = rows[j] BY <2>2 DEF Cancel
    <3> QED BY <2>1, <3>1, <3>2, NotWithdrawnFrame
  <2>3. \A j \in Jobs : Retry(i) \/ Clock(i) =>
          (rows'[j].state = "cancelled" => rows[j].state = "cancelled")
    <3>1. \A j \in Jobs : [Released(rows[j], "queued") EXCEPT !.attempts = 0,
                                            !.due = TRUE].state = "queued"
      BY DEF Released
    <3>2. CASE Retry(i) BY <3>1, <3>2 DEF Retry
    <3>3. CASE LeaseLapses(i) BY <3>3 DEF LeaseLapses
    <3>4. CASE RunAfterPasses(i) BY <3>4 DEF RunAfterPasses
    <3> QED BY <3>2, <3>3, <3>4 DEF Clock
  <2> QED BY <1>3, <2>1, <2>2, <2>3, NotWithdrawnFrame DEF Operator
<1>4. ASSUME NEW p \in Procs, ProcStep(p) \/ Lifecycle(p) PROVE NotWithdrawn'
  <2>1. CASE ReadBack(p)
    <3>1. Mine(p, procs[p].got) /\ UNCHANGED rows BY <2>1 DEF ReadBack
    <3>2. PICK r \in Runs :
            runs' = [runs EXCEPT ![r] = [phase |-> "handler", job |-> procs[p].got,
                                         att |-> rows[procs[p].got].attempts]]
      BY <2>1 DEF ReadBack
    <3> QED BY <3>1, <3>2 DEF NotWithdrawn, Mine
  <2>2. CASE ~ ReadBack(p)
    <3>1. \A r \in Runs : runs'[r].phase # "free" =>
            runs[r].phase # "free" /\ runs'[r].job = runs[r].job
      <4>1. CASE Crash(p) BY <4>1 DEF Crash, FreeRun
      <4> QED BY <1>4, <2>2, <4>1 DEF ProcStep, Lifecycle, TickStart, ReclaimGiveUp,
                                      Claim, TickEnd, ReadBackMiss, Stop, Start
    <3>2. \A j \in Jobs : rows'[j].state = "cancelled" => rows[j].state = "cancelled"
      <4>1. \A j \in Jobs : /\ Released(rows[j], "queued").state = "queued"
                            /\ Closed(rows[j], "failed").state = "failed"
                            /\ Claimed(rows[j], p).state = "running"
        BY DEF Released, Closed, Claimed
      <4>2. CASE TickStart(p) \/ ReclaimGiveUp(p)
        BY <4>1, <4>2 DEF TickStart, ReclaimGiveUp
      <4>3. CASE Claim(p) BY <4>1, <4>3 DEF Claim, Claimable
      <4> QED BY <1>4, <2>2, <4>2, <4>3 DEF ProcStep, Lifecycle, TickEnd, ReadBackMiss,
                                            Stop, Crash, Start
    <3> QED BY <3>1, <3>2, NotWithdrawnFrame
  <2> QED BY <2>1, <2>2
<1>5. ASSUME NEW r \in Runs, RunStep(r) \/ Heartbeat(r) PROVE NotWithdrawn'
  <2>1. \A s \in Runs : runs'[s].phase # "free" =>
          runs[s].phase # "free" /\ runs'[s].job = runs[s].job
    <3>1. CASE Settle(r) BY <3>1 DEF Settle, FreeRun
    <3>2. ASSUME NEW ph, SetPhase(r, ph), runs[r].phase # "free"
          PROVE  \A s \in Runs : runs'[s].phase # "free" =>
                   runs[s].phase # "free" /\ runs'[s].job = runs[s].job
      BY <3>2 DEF SetPhase, Run
    <3> QED BY <1>5, <3>1, <3>2
            DEF RunStep, HandlerEnds, HandlerStops, HandlerReturns, HandlerThrows,
                ReadState, FinishDone, FailOrBackOff, Heartbeat
  <2>2. \A j \in Jobs : rows'[j].state = "cancelled" => rows[j].state = "cancelled"
    <3>1. \A j \in Jobs : /\ Closed(rows[j], "failed").state = "failed"
                          /\ Closed(rows[j], "done").state = "done"
                          /\ [Released(rows[j], "queued") EXCEPT !.due = FALSE].state
                               = "queued"
      BY DEF Released, Closed
    <3>2. CASE Heartbeat(r) BY <3>2 DEF Heartbeat
    <3>3. CASE FinishDone(r) \/ FailOrBackOff(r)
      BY <3>1, <3>3 DEF FinishDone, FailOrBackOff, Finished, BackedOff
    <3> QED BY <1>5, <3>2, <3>3 DEF RunStep, HandlerEnds, HandlerStops, HandlerReturns,
                                    HandlerThrows, ReadState
  <2> QED BY <2>1, <2>2, NotWithdrawnFrame
<1> QED BY <1>1, <1>2, <1>3, <1>4, <1>5 DEF Next

-----------------------------------------------------------------------------
(* What a change of the table means to the ledger.                          *)

Abs(row) == IF row.state \in Live THEN "pending" ELSE row.state

LEMMA AbsFacts ==
  /\ "queued" \in Live /\ "running" \in Live
  /\ \A s \in Terminal \cup {"absent"} : s \notin Live
  /\ Terminal = Ledger!Closed
BY DEF Live, Terminal, Ledger!Closed

\* Nothing the ledger sees has changed.
LEMMA Stutter ==
  ASSUME UNCHANGED worked,
         \A j \in Jobs : Abs(rows'[j]) = Abs(rows[j])
                         /\ rows'[j].attempts = rows[j].attempts
  PROVE  UNCHANGED Ledger!vars
BY DEF Ledger!vars, Abs

\* One row has changed.
LEMMA OneRow ==
  ASSUME NEW i \in Jobs, \A j \in Jobs : j # i => rows'[j] = rows[j]
  PROVE  /\ Abs(rows'[i]) = "pending" /\ rows'[i].attempts = 0
            /\ Abs(rows[i]) \in Terminal \cup {"absent"}
            /\ worked' = [worked EXCEPT ![i] = FALSE]
              => Ledger!Submit(i)
         /\ Abs(rows[i]) = "pending" /\ Abs(rows'[i]) = "pending"
            /\ rows[i].attempts < MaxAttempts /\ UNCHANGED worked
            /\ rows'[i].attempts = rows[i].attempts + 1
              => Ledger!Try(i)
         /\ Abs(rows[i]) = "pending" /\ rows'[i].attempts = rows[i].attempts
            /\ UNCHANGED worked
              => /\ Abs(rows'[i]) = "cancelled" => Ledger!Withdraw(i)
                 /\ Abs(rows'[i]) = "done" /\ worked[i] => Ledger!Complete(i)
<1>1. [j \in Jobs |-> Abs(rows'[j])]
        = [[j \in Jobs |-> Abs(rows[j])] EXCEPT ![i] = Abs(rows'[i])]
  OBVIOUS
<1>2. [j \in Jobs |-> rows'[j].attempts]
        = [[j \in Jobs |-> rows[j].attempts] EXCEPT ![i] = rows'[i].attempts]
  OBVIOUS
<1>3. rows'[i].attempts = rows[i].attempts =>
        [j \in Jobs |-> rows'[j].attempts] = [j \in Jobs |-> rows[j].attempts]
  OBVIOUS
<1> QED
  BY <1>1, <1>2, <1>3, AbsFacts
  DEF Abs, Ledger!Submit, Ledger!Try, Ledger!Withdraw, Ledger!Complete, Ledger!Close

\* Rows found spent are given up.
LEMMA Spend ==
  ASSUME UNCHANGED worked, NEW S \in SUBSET Jobs,
         \A j \in S : /\ Abs(rows[j]) = "pending" /\ rows[j].attempts = MaxAttempts
                      /\ Abs(rows'[j]) = "failed",
         \A j \in Jobs : /\ rows'[j].attempts = rows[j].attempts
                         /\ j \notin S => Abs(rows'[j]) = Abs(rows[j])
  PROVE  Ledger!GiveUp(S)
BY DEF Abs, Ledger!GiveUp

LEMMA NextFacts ==
  /\ \A i \in Jobs : (\/ Ledger!Submit(i) \/ Ledger!Try(i) \/ Ledger!Perform(i)
                      \/ Ledger!Complete(i) \/ Ledger!Withdraw(i)) => Ledger!Next
  /\ \A S \in SUBSET Jobs : Ledger!GiveUp(S) => Ledger!Next
BY DEF Ledger!Next

LEMMA LedgerStep ==
  ASSUME Trusted, OutcomeInv, NotWithdrawn, [Next]_vars
  PROVE  Ledger!Next \/ UNCHANGED Ledger!vars
<1> USE LimitFact, AbsFacts DEF OutcomeInv, IInv, TypeOK
<1>0. CASE UNCHANGED vars
  BY <1>0, Stutter DEF vars
<1>1. ASSUME UNCHANGED <<rows, worked>> PROVE UNCHANGED Ledger!vars
  BY <1>1, Stutter
<1>2. ASSUME NEW c \in Callers, CallerStep(c)
      PROVE  Ledger!Next \/ UNCHANGED Ledger!vars
  <2>1. ASSUME NEW i \in Jobs, NEW d \in BOOLEAN, NEW k, rows[i].state = "absent",
               rows' = [rows EXCEPT ![i] = NewRow(k, d)],
               worked' = [worked EXCEPT ![i] = FALSE]
        PROVE  Ledger!Next
    <3>1. rows'[i].state = "queued" /\ rows'[i].attempts = 0
          /\ \A j \in Jobs : j # i => rows'[j] = rows[j]
      BY <2>1 DEF NewRow, NoRow
    <3>2. Ledger!Submit(i) BY <2>1, <3>1, OneRow DEF Abs
    <3> QED BY <3>2, NextFacts
  <2> QED BY <1>1, <1>2, <2>1
          DEF CallerStep, EnqueueLookup, EnqueueInsert, EnqueueReread
<1>3. ASSUME NEW i \in Jobs, Operator(i) \/ Clock(i)
      PROVE  Ledger!Next \/ UNCHANGED Ledger!vars
  <2>0. rows[i] \in Row OBVIOUS
  <2>1. CASE Cancel(i)
    <3>1. /\ rows'[i].state = "cancelled" /\ rows'[i].attempts = rows[i].attempts
          /\ UNCHANGED worked /\ rows[i].state \in Live
          /\ \A j \in Jobs : j # i => rows'[j] = rows[j]
      BY <2>0, <2>1 DEF Cancel, Row
    <3>2. Ledger!Withdraw(i) BY <3>1, OneRow DEF Abs, Terminal
    <3> QED BY <3>2, NextFacts
  <2>2. CASE Retry(i)
    <3>1. /\ rows'[i].state = "queued" /\ rows'[i].attempts = 0
          /\ rows[i].state \in Terminal
          /\ worked' = [worked EXCEPT ![i] = FALSE]
          /\ \A j \in Jobs : j # i => rows'[j] = rows[j]
      BY <2>0, <2>2 DEF Retry, Row, Released
    <3>2. Ledger!Submit(i) BY <3>1, OneRow DEF Abs
    <3> QED BY <3>2, NextFacts
  <2>3. CASE Clock(i)
    <3>1. UNCHANGED worked /\ \A j \in Jobs : /\ rows'[j].state = rows[j].state
                                             /\ rows'[j].attempts = rows[j].attempts
      <4>1. CASE LeaseLapses(i) BY <2>0, <4>1 DEF LeaseLapses, Row
      <4>2. CASE RunAfterPasses(i) BY <2>0, <4>2 DEF RunAfterPasses, Row
      <4> QED BY <2>3, <4>1, <4>2 DEF Clock
    <3> QED BY <3>1, Stutter DEF Abs
  <2> QED BY <1>3, <2>1, <2>2, <2>3 DEF Operator
<1>4. ASSUME NEW p \in Procs, ProcStep(p) \/ Lifecycle(p)
      PROVE  Ledger!Next \/ UNCHANGED Ledger!vars
  <2>0. \A j \in Jobs : /\ Released(rows[j], "queued").state = "queued"
                        /\ Released(rows[j], "queued").attempts = rows[j].attempts
                        /\ Closed(rows[j], "failed").state = "failed"
                        /\ Closed(rows[j], "failed").attempts = rows[j].attempts
    BY DEF Released, Closed, Row
  <2>1. CASE TickStart(p)
    <3>1. UNCHANGED worked /\ \A j \in Jobs : /\ Abs(rows'[j]) = Abs(rows[j])
                                             /\ rows'[j].attempts = rows[j].attempts
      BY <2>0, <2>1 DEF TickStart, Lapsed, Abs
    <3> QED BY <3>1, Stutter
  <2>2. CASE ReclaimGiveUp(p)
    <3> DEFINE S == {j \in Jobs : Lapsed(j) /\ rows[j].attempts >= MaxAttempts}
    <3>1. CASE UNCHANGED rows BY <1>1, <2>2, <3>1 DEF ReclaimGiveUp
    <3>2. CASE rows' = [j \in Jobs |-> IF Lapsed(j) /\ rows[j].attempts >= MaxAttempts
                                       THEN Closed(rows[j], "failed") ELSE rows[j]]
      <4>1. \A j \in Jobs : rows[j].attempts \in Nat /\ rows[j].attempts <= MaxAttempts
        BY DEF Row, AttemptsBounded
      <4>2. \A j \in S : /\ Abs(rows[j]) = "pending" /\ rows[j].attempts = MaxAttempts
                         /\ Abs(rows'[j]) = "failed"
        BY <2>0, <3>2, <4>1 DEF Abs, Lapsed, Terminal
      <4>3. \A j \in Jobs : /\ rows'[j].attempts = rows[j].attempts
                            /\ j \notin S => Abs(rows'[j]) = Abs(rows[j])
        BY <2>0, <3>2
      <4>4. UNCHANGED worked BY <2>2 DEF ReclaimGiveUp
      <4> HIDE DEF S
      <4>5. S \in SUBSET Jobs BY DEF S
      <4> QED BY <4>2, <4>3, <4>4, <4>5, Spend, NextFacts
    <3> QED BY <2>2, <3>1, <3>2 DEF ReclaimGiveUp
  <2>3. CASE Claim(p)
    <3>1. PICK i \in Jobs : rows[i].state = "queued"
                            /\ rows' = [rows EXCEPT ![i] = Claimed(@, p)]
      BY <2>3 DEF Claim, Claimable
    <3>2. rows[i].attempts < MaxAttempts BY <3>1 DEF AttemptLeft
    <3>3. /\ rows'[i].state = "running" /\ rows'[i].attempts = rows[i].attempts + 1
          /\ \A j \in Jobs : j # i => rows'[j] = rows[j]
      BY <3>1 DEF Claimed, Row
    <3>4. UNCHANGED worked BY <2>3 DEF Claim
    <3>5. Ledger!Try(i) BY <3>1, <3>2, <3>3, <3>4, OneRow DEF Abs
    <3> QED BY <3>5, NextFacts
  <2> QED BY <1>1, <1>4, <2>1, <2>2, <2>3
          DEF ProcStep, Lifecycle, TickEnd, ReadBack, ReadBackMiss, Stop, Crash, Start
<1>5. ASSUME NEW r \in Runs, RunStep(r) \/ Heartbeat(r)
      PROVE  Ledger!Next \/ UNCHANGED Ledger!vars
  <2>1. PICK i \in Jobs : runs[r].job = i /\ runs[r].phase # "free"
    BY <1>5 DEF RunStep, Heartbeat, HandlerEnds, HandlerStops, HandlerReturns,
                HandlerThrows, ReadState, FinishDone, FailOrBackOff, Run, Shape
  <2>2. /\ rows[i] \in Row /\ rows[i].state = "running" /\ Abs(rows[i]) = "pending"
        /\ rows[i].attempts = runs[r].att /\ rows[i].attempts > 0
        /\ rows[i].attempts <= MaxAttempts
    BY <2>1 DEF ClaimHeld, NotWithdrawn, Mine, Abs, AttemptLeft, AttemptsBounded
  <2>3. /\ Closed(rows[i], "failed").state = "failed"
        /\ Closed(rows[i], "failed").attempts = rows[i].attempts
        /\ Closed(rows[i], "done").state = "done"
        /\ Closed(rows[i], "done").attempts = rows[i].attempts
        /\ [Released(rows[i], "queued") EXCEPT !.due = FALSE].state = "queued"
        /\ [Released(rows[i], "queued") EXCEPT !.due = FALSE].attempts = rows[i].attempts
    BY <2>2 DEF Released, Closed, Row
  <2>4. CASE Heartbeat(r)
    <3>1. UNCHANGED worked /\ \A j \in Jobs : /\ rows'[j].state = rows[j].state
                                             /\ rows'[j].attempts = rows[j].attempts
      BY <2>1, <2>4 DEF Heartbeat, Row
    <3> QED BY <3>1, Stutter DEF Abs
  <2>5. CASE HandlerReturns(r)
    <3>1. worked' = [worked EXCEPT ![i] = TRUE] /\ UNCHANGED rows
      BY <2>1, <2>5 DEF HandlerReturns
    <3>2. Ledger!Perform(i)
      BY <2>1, <2>2, <3>1 DEF Ledger!Perform, Abs
    <3> QED BY <2>1, <3>2, NextFacts
  <2>6. CASE FinishDone(r)
    <3>1. CASE UNCHANGED rows BY <1>1, <2>6, <3>1 DEF FinishDone
    <3>2. CASE rows' = Finished(i, "done")
      <4>1. /\ rows'[i].state = "done" /\ rows'[i].attempts = rows[i].attempts
            /\ \A j \in Jobs : j # i => rows'[j] = rows[j]
        BY <2>1, <2>3, <3>2 DEF Finished
      <4>2. worked[i] /\ UNCHANGED worked BY <2>1, <2>6 DEF FinishDone, OutcomeSound
      <4>3. Abs(rows'[i]) = "done" BY <4>1 DEF Abs, Terminal
      <4>4. Ledger!Complete(i) BY <2>1, <2>2, <4>1, <4>2, <4>3, OneRow
      <4> QED BY <2>1, <4>4, NextFacts
    <3> QED BY <2>1, <2>6, <3>1, <3>2 DEF FinishDone
  <2>7. CASE FailOrBackOff(r)
    <3>0. UNCHANGED worked BY <2>7 DEF FailOrBackOff
    <3>1. CASE UNCHANGED rows BY <1>1, <3>0, <3>1
    <3>2. CASE runs[r].att >= MaxAttempts /\ rows' = Finished(i, "failed")
      <4>1. /\ rows'[i].state = "failed" /\ rows'[i].attempts = rows[i].attempts
            /\ \A j \in Jobs : j # i => rows'[j] = rows[j]
        BY <2>1, <2>3, <3>2 DEF Finished
      <4>2. rows[i].attempts = MaxAttempts
        <5>1. rows[i].attempts \in Nat BY <2>2 DEF Row
        <5> QED BY <2>2, <3>2, <5>1
      <4>3. Abs(rows'[i]) = "failed" BY <4>1 DEF Abs, Terminal
      <4>4. {i} \in SUBSET Jobs BY <2>1
      <4>5. Ledger!GiveUp({i}) BY <2>2, <3>0, <4>1, <4>2, <4>3, <4>4, Spend
      <4> QED BY <4>4, <4>5, NextFacts
    <3>3. CASE rows' = BackedOff(i)
      <4>1. /\ rows'[i].state = "queued" /\ rows'[i].attempts = rows[i].attempts
            /\ \A j \in Jobs : j # i => rows'[j] = rows[j]
        BY <2>1, <2>3, <3>3 DEF BackedOff
      <4>2. Abs(rows'[i]) = "pending" BY <4>1 DEF Abs
      <4> QED BY <2>2, <3>0, <4>1, <4>2, Stutter
    <3> QED BY <2>1, <2>7, <3>1, <3>2, <3>3 DEF FailOrBackOff
  <2> QED BY <1>1, <1>5, <2>4, <2>5, <2>6, <2>7
          DEF RunStep, HandlerEnds, HandlerStops, HandlerThrows, ReadState
<1> QED BY <1>0, <1>2, <1>3, <1>4, <1>5 DEF Next

LEMMA LedgerInit == Init => Ledger!Init /\ NotWithdrawn
BY AbsFacts DEF Init, Ledger!Init, NoRow, NotWithdrawn, FreeRun

\* Callers cannot tell the queue from the ledger where leases outlive the work,
\* running jobs are not cancelled, nobody retries a job still executing and a
\* job's state can be read: every claim, crash, lost write and backoff is a try,
\* a performance, a closing or nothing at all.
THEOREM QueueImplementsLedger == ASSUME Trusted PROVE Spec => ImplementsLedger
<1> DEFINE Inv == OutcomeInv /\ NotWithdrawn
<1>1. Init => Inv /\ Ledger!Init BY OutcomeInit, LedgerInit
<1>2. Inv /\ [Next]_vars => Inv'
  <2>1. OutcomeInv /\ [Next]_vars => OutcomeInv' BY OutcomeStep DEF Trusted
  <2>2. Inv /\ [Next]_vars => NotWithdrawn' BY NotWithdrawnStep DEF OutcomeInv
  <2> QED BY <2>1, <2>2
<1>3. Inv /\ [Next]_vars => [Ledger!Next]_(Ledger!vars) BY LedgerStep
<1> HIDE DEF Inv
<1> QED BY <1>1, <1>2, <1>3, PTL DEF Spec, ImplementsLedger, Ledger!Spec
\* Only a retry takes a row out of state cancelled, where no activation stands on one.
LEMMA CancelledRow ==
  ASSUME IInv, NotWithdrawn, [Next]_vars, NEW j \in Jobs, rows[j].state = "cancelled",
         rows'[j].state # "cancelled"
  PROVE  used'.retry = used.retry + 1
<1>0. rows \in [Jobs -> Row] /\ used \in Budget BY DEF IInv, TypeOK
<1>1. rows' # rows OBVIOUS
<1>2. ASSUME NEW i \in Jobs, NEW new, rows' = [rows EXCEPT ![i] = new] PROVE i = j
  BY <1>0, <1>2
<1>3. \A c \in Callers : ~ CallerStep(c)
  <2> SUFFICES ASSUME NEW c \in Callers, CallerStep(c) PROVE FALSE OBVIOUS
  <2>1. EnqueueInsert(c)
    BY <1>1 DEF CallerStep, EnqueueLookup, EnqueueReread
  <2>2. PICK i \in Jobs : rows[i].state = "absent" /\ \E new : rows' = [rows EXCEPT ![i] = new]
    BY <1>1, <2>1 DEF EnqueueInsert
  <2> QED BY <1>2, <2>2
<1>4. \A p \in Procs : ~ ProcStep(p) /\ ~ Lifecycle(p)
  <2> SUFFICES ASSUME NEW p \in Procs, ProcStep(p) \/ Lifecycle(p) PROVE FALSE OBVIOUS
  <2>1. TickStart(p) \/ ReclaimGiveUp(p) \/ Claim(p)
    BY <1>1 DEF ProcStep, Lifecycle, TickEnd, ReadBack, ReadBackMiss, Stop, Crash, Start
  <2>2. ~ Lapsed(j) BY DEF Lapsed
  <2>3. CASE Claim(p)
    <3>1. PICK i \in Claimable(p) : rows' = [rows EXCEPT ![i] = Claimed(rows[i], p)]
      BY <2>3 DEF Claim
    <3>2. i \in Jobs /\ rows[i].state = "queued" BY DEF Claimable
    <3> QED BY <1>2, <3>1, <3>2
  <2>4. CASE TickStart(p)
    <3>1. rows'[j] = rows[j] BY <1>1, <2>2, <2>4 DEF TickStart
    <3> QED BY <3>1
  <2>5. CASE ReclaimGiveUp(p)
    <3>1. rows'[j] = rows[j] BY <1>1, <2>2, <2>5 DEF ReclaimGiveUp
    <3> QED BY <3>1
  <2> QED BY <2>1, <2>3, <2>4, <2>5
<1>5. \A r \in Runs : ~ RunStep(r) /\ ~ Heartbeat(r)
  <2> SUFFICES ASSUME NEW r \in Runs, RunStep(r) \/ Heartbeat(r) PROVE FALSE OBVIOUS
  <2>1. runs[r].phase # "free" /\ runs[r].job \in Jobs
    BY DEF RunStep, HandlerEnds, HandlerStops, HandlerReturns, HandlerThrows,
       ReadState, FinishDone, FailOrBackOff, Heartbeat, IInv, TypeOK, Run, Shape
  <2>2. \E new : rows' = [rows EXCEPT ![runs[r].job] = new]
    BY <1>1 DEF RunStep, HandlerEnds, HandlerStops, HandlerReturns, HandlerThrows,
       ReadState, FinishDone, FailOrBackOff, Heartbeat, Finished, BackedOff
  <2>3. runs[r].job = j BY <1>2, <2>1, <2>2
  <2> QED BY <2>1, <2>3 DEF NotWithdrawn
<1>6. PICK i \in Jobs : Operator(i) \/ Clock(i) BY <1>1, <1>3, <1>4, <1>5 DEF Next, vars
<1>7. \E new : rows' = [rows EXCEPT ![i] = new]
  BY <1>6 DEF Operator, Clock, Cancel, Retry, LeaseLapses, RunAfterPasses
<1>8. i = j BY <1>2, <1>7
<1>9. Retry(i) BY <1>6, <1>8 DEF Operator, Clock, Cancel, LeaseLapses, RunAfterPasses, Live
<1> QED BY <1>0, <1>9 DEF Retry, Budget

\* A job cancelled before anybody claimed it stays cancelled until it is retried: with
\* no cancel of running work, nothing the processes do brings it back.
THEOREM CancelledStays == ASSUME Trusted PROVE Spec => CancelSticks
<1> DEFINE Inv == IInv /\ NotWithdrawn
<1>1. Init => Inv BY InvariantInit, LedgerInit DEF Init, NotWithdrawn, FreeRun
<1>2. Inv /\ [Next]_vars => Inv'
  BY InvariantStep, NotWithdrawnStep DEF Trusted, Benign
<1>3. Inv /\ [Next]_vars => [\A j \in Jobs : rows[j].state = "cancelled" /\ rows'[j].state # "cancelled"
                                => used'.retry = used.retry + 1]_vars
  BY CancelledRow
<1> HIDE DEF Inv
<1> QED BY <1>1, <1>2, <1>3, PTL DEF Spec, CancelSticks

-----------------------------------------------------------------------------
(* Housekeeping: the job that queues its own next run.                      *)

\* Housekeeping's own state keeps its types too.
LEMMA HousekeepingTyped ==
  ASSUME HTypeOK, Shape, [HNext]_hvars PROVE HTypeOK' /\ Shape'
<1>1. TypeOK /\ boots \subseteq Procs /\ requeued \subseteq Runs BY DEF HTypeOK
<1>2. ASSUME NEW d \in BOOLEAN, QueueSweep(d), UNCHANGED <<calls, procs, running, runs, used>>
      PROVE  TypeOK' /\ Shape'
  <2>1. Sweep \in Kinds /\ Sweep \in Deduped BY QueueAssumption, SweepAssumption
  <2>2. NewRow(Sweep, d) \in Row BY <2>1, StateFacts DEF NewRow, NoRow, Row
  <2>3. rows' \in [Jobs -> Row] /\ worked' \in [Jobs -> BOOLEAN]
    BY <1>1, <1>2, <2>2 DEF QueueSweep, TypeOK
  <2> QED BY <1>1, <1>2, <2>3 DEF TypeOK, Shape
<1>3. ASSUME NEW p \in Procs, Boot(p) PROVE HTypeOK' /\ Shape'
  <2>1. TypeOK' /\ Shape' BY <1>2, <1>3 DEF Boot
  <2> QED BY <1>1, <1>3, <2>1 DEF Boot, HTypeOK
<1>4. ASSUME NEW r \in Runs, AskAgain(r) PROVE HTypeOK' /\ Shape'
  <2>1. TypeOK' /\ Shape' BY <1>2, <1>4 DEF AskAgain
  <2> QED BY <1>1, <1>4, <2>1 DEF AskAgain, HTypeOK
<1>5. ASSUME [Next]_vars PROVE TypeOK' /\ Shape' BY <1>1, <1>5, TypeStep, ShapeStep
<1>6. ASSUME NEW p \in Procs, Replaced(p) PROVE HTypeOK' /\ Shape'
  <2>1. Next BY <1>6 DEF Replaced, Next, Lifecycle
  <2> QED BY <1>1, <1>5, <1>6, <2>1 DEF Replaced, HTypeOK
<1>7. ASSUME Next, UNCHANGED boots, requeued' \subseteq requeued PROVE HTypeOK' /\ Shape'
  BY <1>1, <1>5, <1>7 DEF HTypeOK
<1>8. ASSUME NEW p \in Procs, Within(ProcStep(p)) \/ Within(Start(p)) PROVE HTypeOK' /\ Shape'
  BY <1>7, <1>8 DEF Within, Next, Lifecycle
<1>9. ASSUME NEW r \in Runs, Within(SweepStep(r)) PROVE HTypeOK' /\ Shape'
  BY <1>7, <1>9 DEF Within, SweepStep, SweepReturns, RunStep, HandlerEnds, Next
<1>10. ASSUME NEW j \in Jobs, Within(Clock(j)) PROVE HTypeOK' /\ Shape'
  BY <1>7, <1>10 DEF Within, Next
<1>11. CASE UNCHANGED hvars BY <1>1, <1>5, <1>11 DEF hvars, HTypeOK
<1> QED BY <1>3, <1>4, <1>6, <1>8, <1>9, <1>10, <1>11 DEF HNext

\* The processes yet to boot are processes, the activations that asked again activations,
\* and the queue under them keeps its types, whatever crashes and statements fail.
THEOREM SweepsTyped == HSpec => []HTypeOK
<1>1. HInit => HTypeOK /\ Shape BY InitTyped DEF HInit, HTypeOK
<1>2. HTypeOK /\ Shape /\ [HNext]_hvars => HTypeOK' /\ Shape' BY HousekeepingTyped
<1> QED BY <1>1, <1>2, PTL DEF HSpec

\* What the step leaves of the queue's variables when a sweep is asked for.
LEMMA SweepQueued ==
  ASSUME IInv, KeyInv, NEW d \in BOOLEAN, QueueSweep(d),
         UNCHANGED <<calls, procs, running, runs, used>>
  PROVE  IInv' /\ KeyInv'
<1>0. /\ rows \in [Jobs -> Row] /\ worked \in [Jobs -> BOOLEAN] /\ used \in Budget
      /\ Sweep \in Kinds /\ Sweep \in Deduped
  BY QueueAssumption, SweepAssumption DEF IInv, TypeOK
<1>1. CASE UNCHANGED rows /\ UNCHANGED worked
  BY <1>1 DEF IInv, KeyInv, TypeOK, Shape, SlotKept, AttemptLeft, ClaimPending,
     AttemptsBounded, OneExecutor, ClaimHeld, SlotsRespected, FailedMeansSpent, Active,
     Mine, Executing
<1>2. ASSUME NEW i \in Jobs, rows[i].state = "absent", ~ \E j \in Jobs : HoldsKey(j, Sweep),
             rows' = [rows EXCEPT ![i] = NewRow(Sweep, d)],
             worked' = [worked EXCEPT ![i] = FALSE]
      PROVE  IInv' /\ KeyInv'
  <2>1. NewRow(Sweep, d) \in Row
    BY <1>0, StateFacts DEF NewRow, NoRow, Row
  <2>2. TypeOK' /\ Shape'
    BY <1>0, <1>2, <2>1 DEF IInv, TypeOK, Shape
  <2>3. rows'[i].state = "queued" /\ rows'[i].attempts = 0
    BY <1>0, <1>2 DEF NewRow, NoRow
  <2>4. \A j \in Jobs : j # i => rows'[j] = rows[j] BY <1>0, <1>2
  <2>5. ~ Executing(i) BY <1>2, IdleFact
  <2>6. \A j \in Jobs : Tolerated(j) /\ Spent(rows'[j])
    BY <2>3, <2>4, <2>5, RowSpent, LimitFact DEF Tolerated, Spent
  <2>7. IInv' BY <2>2, <2>6, RowsStep
  <2>8. Inserted /\ Budgets BY <1>0, <1>2 DEF Inserted, Budgets
  <2> QED BY <1>0, <2>7, <2>8, KeyInserted
<1> QED BY <1>1, <1>2 DEF QueueSweep

\* Every other step is one of the queue; none is an operator's.
LEMMA HousekeepingStep ==
  ASSUME ~ Overrun, ~ EagerRetry, IInv, KeyInv, used.retry = 0, used.cancel = 0, [HNext]_hvars
  PROVE  IInv' /\ KeyInv' /\ used'.retry = 0 /\ used'.cancel = 0
<1>1. ASSUME NEW d \in BOOLEAN, QueueSweep(d), UNCHANGED <<calls, procs, running, runs, used>>
      PROVE  IInv' /\ KeyInv' /\ used'.retry = 0 /\ used'.cancel = 0
  BY <1>1, SweepQueued
<1>2. ASSUME [Next]_vars, Budgets
      PROVE  IInv' /\ KeyInv' /\ used'.retry = 0 /\ used'.cancel = 0
  BY <1>2, InvariantStep, KeysKept DEF Budgets
<1>3. ASSUME NEW p \in Procs, Boot(p) PROVE \E d \in BOOLEAN :
        QueueSweep(d) /\ UNCHANGED <<calls, procs, running, runs, used>>
  BY <1>3 DEF Boot
<1>4. ASSUME NEW r \in Runs, AskAgain(r) PROVE \E d \in BOOLEAN :
        QueueSweep(d) /\ UNCHANGED <<calls, procs, running, runs, used>>
  BY <1>4 DEF AskAgain
<1>5. used \in Budget BY DEF IInv, TypeOK
<1>6. UNCHANGED used \/ DbFails => Budgets BY <1>5 DEF DbFails, Budgets, Budget
<1>7. ASSUME NEW p \in Procs, Crash(p) \/ ProcStep(p) \/ Start(p) PROVE Next /\ Budgets
  <2>1. Next BY <1>7 DEF Next, Lifecycle
  <2>2. CASE Crash(p) BY <1>5, <2>1, <2>2 DEF Crash, Budgets, Budget
  <2>3. CASE ProcStep(p) \/ Start(p)
    BY <1>6, <2>1, <2>3
    DEF ProcStep, Start, TickStart, ReclaimGiveUp, Claim, TickEnd, ReadBack, ReadBackMiss
  <2> QED BY <1>7, <2>2, <2>3
<1>8. ASSUME NEW r \in Runs, SweepStep(r) PROVE Next /\ Budgets
  <2>1. RunStep(r) BY <1>8 DEF SweepStep, SweepReturns, RunStep, HandlerEnds
  <2>2. UNCHANGED used \/ DbFails
    BY <1>8 DEF SweepStep, SweepReturns, HandlerReturns, ReadState, FinishDone
  <2> QED BY <1>6, <2>1, <2>2 DEF Next
<1>9. ASSUME NEW j \in Jobs, Clock(j) PROVE Next /\ Budgets
  <2>1. Next BY <1>9 DEF Next
  <2> QED BY <1>6, <1>9, <2>1 DEF Clock, LeaseLapses, RunAfterPasses
<1>10. CASE UNCHANGED hvars BY <1>2, <1>6, <1>10 DEF hvars, vars
<1> QED BY <1>1, <1>2, <1>3, <1>4, <1>7, <1>8, <1>9, <1>10 DEF HNext, Replaced, Within

\* However many processes boot, die in the middle of a sweep and boot again, or end one
\* whose row was given to another: "skips if one is already pending", so there is never
\* a second chain of sweeps beside the first.
THEOREM OneSweepChain ==
  ASSUME ~ Overrun, ~ EagerRetry PROVE HSpec => []OneLivePerWork
<1> DEFINE Inv == IInv /\ KeyInv /\ used.retry = 0 /\ used.cancel = 0
<1>1. HInit => Inv
  BY InvariantInit DEF HInit, Init, KeyInv, NoRow, Live
<1>2. Inv /\ [HNext]_hvars => Inv' BY HousekeepingStep
<1>3. Inv => OneLivePerWork
  BY DEF KeyInv, OneLivePerWork, LiveFor
<1> HIDE DEF Inv
<1> QED BY <1>1, <1>2, <1>3, PTL DEF HSpec
=============================================================================
