----------------------------- MODULE Enrichment -----------------------------
(***************************************************************************)
(* What a model says about the assets of the library, what it costs, and   *)
(* what people make of it (src/src/ai.js, aistore.js, the jobs enrich,     *)
(* enrich_batch and bulk of jobtypes.js, and the API's review and tags).   *)
(*                                                                         *)
(* A live enrichment is a job per asset; a backfill submits one batch for  *)
(* many assets, and another job ingests its results when they are there.   *)
(* Meanwhile people rule on the suggested tags and edit the asset's own.   *)
(* All of them work by statements, without transactions, and a statement   *)
(* may fail: the code passes over some failures, catches others, and lets  *)
(* the rest end the job.  What the queue promises its jobs is JobQueue's   *)
(* subject: here a job that is interrupted is started again.               *)
(***************************************************************************)
EXTENDS Naturals, FiniteSets

CONSTANTS
  Asset, Tag,
  People,        \* requests and bulk jobs of people under way at once
  Backfills,     \* backfill jobs under way at once
  Budget,        \* the monthly ceiling
  Live, Half,    \* the price of a call, and of an asset in a batch
  None,
  MaxBatches, MaxRuns, MaxActs, MaxFaults   \* bounds: batches, live runs, acts of people, faults

Batch == 1 .. MaxBatches
Status == {"ok", "failed", "rejected"}
Ruling == {"promoted", "rejected"}
Op == {"promote", "reject", "dismiss", "closing", "set", "filling", "tag", "untag"}

ASSUME EnrichmentAssumption ==
  /\ IsFiniteSet(Asset) /\ Budget \in Nat \ {0} /\ Live \in Nat /\ Half \in Nat
  /\ MaxBatches \in Nat /\ MaxRuns \in Nat /\ MaxActs \in Nat /\ MaxFaults \in Nat
  /\ None \notin Asset \cup Tag \cup Nat \cup Status \cup Ruling \cup Op \cup {"open"}

VARIABLES
  ai,         \* ai[f]: the status of f's row of file_ai, or None
  suggested,  \* suggested[f][t]: the row of file_ai_tags
  tags,       \* tags[f]: the people's tags, file_tags
  jobs,       \* jobs[f]: the live enrichment of f
  saves,      \* calls of save() under way, by a batch or a live job (None)
  backfills,  \* the backfill jobs
  batches,    \* batches[b]: a batch at the provider, and its rows
  acts,       \* acts[p]: what each person is doing
  recorded,   \* the sum of ai_usage
  used,       \* how much of each bound is spent
  billed,     \* observed: what live calls cost so far
  lost,       \* observed: what of it could not be recorded
  blind,      \* observed: calls that started past the ceiling, the spending being unreadable
  unsaved,    \* observed: <<b, f>>: the failure of f in batch b (or None) that could not be saved
  ruled,      \* ruled[f][t]: observed: the last ruling of a person on t, or None
  contested   \* observed: assets two were at together, or one was interrupted at

rows == <<ai, unsaved>>
store == <<rows, suggested, tags>>
money == <<recorded, billed, lost, blind>>
vars == <<store, jobs, saves, backfills, batches, acts, money, used, ruled, contested>>

NoAct == [op |-> None, file |-> None, names |-> {}, tag |-> None, todo |-> {}]
NoBatch == [st |-> "none", files |-> {}, items |-> {}, poll |-> "none", todo |-> {}]

TypeOK ==
  /\ ai \in [Asset -> Status \cup {None}]
  /\ suggested \in [Asset -> [Tag -> {None, "open"} \cup Ruling]]
  /\ tags \in [Asset -> SUBSET Tag]
  /\ jobs \in [Asset -> {"none", "queued", "calling", "answered", "refused", "saving", "failing"}]
  /\ saves \subseteq [by: Batch \cup {None}, file: Asset, tags: SUBSET Tag,
                      step: {"upsert", "replace", "insert"}]
  /\ backfills \in [Backfills -> [step: {"idle", "queued", "selected", "submitted"},
                                  files: SUBSET Asset, batch: Batch \cup {None}]]
  /\ batches \in [Batch -> [st: {"none", "processing", "ended", "ingested"}, files: SUBSET Asset,
                            items: SUBSET Asset, poll: {"none", "queued", "running"},
                            todo: SUBSET Asset]]
  /\ acts \in [People -> [op: Op \cup {None}, file: Asset \cup {None}, names: SUBSET Tag,
                          tag: Tag \cup {None}, todo: SUBSET Asset]]
  /\ recorded \in Nat /\ billed \in Nat /\ lost \in Nat /\ blind \in Nat
  /\ unsaved \subseteq (Batch \cup {None}) \X Asset
  /\ used \in [batches: 0 .. MaxBatches, runs: Nat, acts: Nat, faults: Nat]
  /\ ruled \in [Asset -> [Tag -> Ruling \cup {None}]] /\ contested \subseteq Asset

Init ==
  /\ ai = [f \in Asset |-> None]
  /\ suggested = [f \in Asset |-> [t \in Tag |-> None]]
  /\ tags = [f \in Asset |-> {}]
  /\ jobs = [f \in Asset |-> "none"] /\ saves = {}
  /\ backfills = [w \in Backfills |-> [step |-> "idle", files |-> {}, batch |-> None]]
  /\ batches = [b \in Batch |-> NoBatch]
  /\ acts = [p \in People |-> NoAct]
  /\ recorded = 0 /\ billed = 0 /\ lost = 0 /\ blind = 0 /\ unsaved = {}
  /\ used = [batches |-> 0, runs |-> 0, acts |-> 0, faults |-> 0]
  /\ ruled = [f \in Asset |-> [t \in Tag |-> None]] /\ contested = {}

-----------------------------------------------------------------------------
(* Who is at an asset.                                                     *)

Saving(f) == \E s \in saves : s.file = f
Acting(f) == {p \in People : acts[p].file = f \/ f \in acts[p].todo}
Fault == used.faults < MaxFaults /\ used' = [used EXCEPT !.faults = @ + 1]
SetJob(f, st) == jobs' = [jobs EXCEPT ![f] = st]

\* A new save of f meets those who are at it.
BeginSave(by, f, result) ==
  /\ saves' = saves \cup {[by |-> by, file |-> f, tags |-> result, step |-> "upsert"]}
  /\ contested' = IF Saving(f) \/ Acting(f) # {} THEN contested \cup {f} ELSE contested

\* saveFailure(): the row says so, whatever it said before; or the statement fails
\* as well, which nobody hears of.
Written(f) == ai' = [ai EXCEPT ![f] = "failed"] /\ UNCHANGED unsaved
PassedOver(by, f) == unsaved' = unsaved \cup {<<by, f>>} /\ UNCHANGED ai
SaveFailure(by, f) ==
  \/ Written(f) /\ UNCHANGED used
  \/ Fault /\ PassedOver(by, f)

-----------------------------------------------------------------------------
(* ai.js: the budget and the live call; the job enrich.                    *)

\* monthlySpend(): what is recorded, or nothing when that cannot be read.
MonthlySpend(spent, faults) ==
  \/ spent = recorded /\ faults = 0
  \/ spent = 0 /\ faults = 1 /\ used.faults < MaxFaults

\* Mutant: the last call may start with nothing left.
BudgetCheck_AtCap(spent) == spent <= Budget
\* budgetCheck(), of what monthlySpend() says.
BudgetCheck(spent) == spent < Budget

RequestEnrich(f) ==
  /\ jobs[f] = "none" /\ used.runs < MaxRuns
  /\ SetJob(f, "queued") /\ used' = [used EXCEPT !.runs = @ + 1]
  /\ UNCHANGED <<store, saves, backfills, batches, acts, money, ruled, contested>>

StartEnrich(f) ==
  /\ jobs[f] = "queued"
  /\ \E spent \in {0, recorded}, faults \in {0, 1} :
     /\ MonthlySpend(spent, faults)
     /\ SetJob(f, IF BudgetCheck(spent) THEN "calling" ELSE "failing")
     /\ used' = [used EXCEPT !.faults = @ + faults]
     /\ blind' = IF faults = 1 /\ recorded >= Budget THEN blind + 1 ELSE blind
  /\ UNCHANGED <<store, saves, backfills, batches, acts, recorded, billed, lost, ruled, contested>>

\* The call is paid for, whether or not the model declines.
Call(f) ==
  /\ jobs[f] = "calling"
  /\ \/ \E st \in {"answered", "refused"} : SetJob(f, st) /\ billed' = billed + Live /\ UNCHANGED used
     \/ Fault /\ SetJob(f, "queued") /\ UNCHANGED billed
  /\ UNCHANGED <<store, saves, backfills, batches, acts, recorded, lost, blind, ruled, contested>>

\* record(), whose failure is passed over, and parseResult().
RecordCall(f) ==
  /\ jobs[f] \in {"answered", "refused"}
  /\ \/ recorded' = recorded + Live /\ UNCHANGED <<lost, used>>
     \/ Fault /\ lost' = lost + Live /\ UNCHANGED recorded
  /\ \/ /\ jobs[f] = "answered" /\ SetJob(f, "saving")
        /\ \E result \in SUBSET Tag : BeginSave(None, f, result)
     \/ /\ jobs[f] = "refused" /\ SetJob(f, "failing")
        /\ UNCHANGED <<saves, contested>>
  /\ UNCHANGED <<store, backfills, batches, acts, billed, blind, ruled>>

\* A refusal, or a budget stop, is the job's result.
EndRefused(f) ==
  /\ jobs[f] = "failing" /\ SetJob(f, "none") /\ SaveFailure(None, f)
  /\ UNCHANGED <<suggested, tags, saves, backfills, batches, acts, money, ruled, contested>>

-----------------------------------------------------------------------------
(* aistore.js: save().                                                     *)

SaveRow(s) ==
  /\ s \in saves /\ s.step = "upsert"
  /\ ai' = [ai EXCEPT ![s.file] = "ok"]
  /\ saves' = (saves \ {s}) \cup {[s EXCEPT !.step = "replace"]}
  /\ UNCHANGED <<unsaved, suggested, tags, jobs, backfills, batches, acts, money, used, ruled,
                 contested>>

\* Mutant: the whole suggestion set is replaced.
Replace_All(s) ==
  /\ s \in saves /\ s.step = "replace"
  /\ suggested' = [suggested EXCEPT ![s.file] = [t \in Tag |-> None]]
  /\ saves' = (saves \ {s}) \cup {[s EXCEPT !.step = "insert"]}
  /\ UNCHANGED <<rows, tags, jobs, backfills, batches, acts, money, used, ruled, contested>>

\* What nobody has ruled on is forgotten.
Replace(s) ==
  /\ s \in saves /\ s.step = "replace"
  /\ suggested' = [suggested EXCEPT ![s.file] = [t \in Tag |-> IF @[t] = "open" THEN None ELSE @[t]]]
  /\ saves' = (saves \ {s}) \cup {[s EXCEPT !.step = "insert"]}
  /\ UNCHANGED <<rows, tags, jobs, backfills, batches, acts, money, used, ruled, contested>>

\* INSERT IGNORE, a tag at a time; then the live job returns.
InsertTag(s) ==
  /\ s \in saves /\ s.step = "insert"
  /\ IF s.tags = {}
     THEN /\ saves' = saves \ {s} /\ UNCHANGED suggested
          /\ IF s.by = None THEN SetJob(s.file, "none") ELSE UNCHANGED jobs
     ELSE \E t \in s.tags :
          /\ suggested' = [suggested EXCEPT ![s.file][t] = IF @ = None THEN "open" ELSE @]
          /\ saves' = (saves \ {s}) \cup {[s EXCEPT !.tags = @ \ {t}]}
          /\ UNCHANGED jobs
  /\ UNCHANGED <<rows, tags, backfills, batches, acts, money, used, ruled, contested>>

\* A statement of save() fails: the live job is retried, while a batch notes the
\* failure - or cannot, the database being away - and goes on to its next result.
SaveFails(s) ==
  /\ s \in saves /\ Fault /\ saves' = saves \ {s}
  /\ \/ s.by = None /\ SetJob(s.file, "queued") /\ UNCHANGED rows
     \/ s.by # None /\ (Written(s.file) \/ PassedOver(s.by, s.file)) /\ UNCHANGED jobs
  /\ UNCHANGED <<suggested, tags, backfills, batches, acts, money, ruled, contested>>

-----------------------------------------------------------------------------
(* The job enrich_batch: the backfill.                                     *)

StartBackfill(w) ==
  /\ backfills[w].step = "idle" /\ used.batches < MaxBatches
  /\ backfills' = [backfills EXCEPT ![w].step = "queued"]
  /\ UNCHANGED <<store, jobs, saves, batches, acts, money, used, ruled, contested>>

Unenriched == {f \in Asset : ai[f] = None}

\* Assets that have no row yet, up to a limit.
Select(w) ==
  /\ backfills[w].step = "queued"
  /\ \/ /\ Unenriched = {}
        /\ backfills' = [backfills EXCEPT ![w].step = "idle"]
     \/ \E files \in SUBSET Unenriched \ {{}} :
          backfills' = [backfills EXCEPT ![w].step = "selected", ![w].files = files]
  /\ UNCHANGED <<store, jobs, saves, batches, acts, money, used, ruled, contested>>

\* The provider takes all of it, or the job fails on an empty budget.
Submit(w) ==
  LET b == used.batches + 1 IN
  /\ backfills[w].step = "selected"
  /\ \E spent \in {0, recorded}, faults \in {0, 1} :
     /\ MonthlySpend(spent, faults)
     /\ \/ /\ BudgetCheck(spent) /\ used.batches < MaxBatches
           /\ batches' = [batches EXCEPT ![b].st = "processing", ![b].files = backfills[w].files]
           /\ backfills' = [backfills EXCEPT ![w].step = "submitted", ![w].batch = b]
           /\ used' = [used EXCEPT !.batches = b, !.faults = @ + faults]
        \/ /\ ~ BudgetCheck(spent)
           /\ backfills' = [backfills EXCEPT ![w].step = "idle", ![w].files = {}]
           /\ UNCHANGED <<batches, used>>
  /\ UNCHANGED <<store, jobs, saves, acts, money, ruled, contested>>

\* The mapping from custom_id to asset, a row at a time.
StoreItem(w) ==
  /\ backfills[w].step = "submitted" /\ backfills[w].files # {}
  /\ \E f \in backfills[w].files :
     /\ batches' = [batches EXCEPT ![backfills[w].batch].items = @ \cup {f}]
     /\ backfills' = [backfills EXCEPT ![w].files = @ \ {f}]
  /\ UNCHANGED <<store, jobs, saves, acts, money, used, ruled, contested>>

\* Mutant: the poll is queued before the mapping is complete.
QueuePoll_Early(w) ==
  /\ backfills[w].step = "submitted" /\ batches[backfills[w].batch].poll = "none"
  /\ batches' = [batches EXCEPT ![backfills[w].batch].poll = "queued"]
  /\ UNCHANGED <<store, jobs, saves, backfills, acts, money, used, ruled, contested>>

QueuePoll(w) ==
  /\ backfills[w].step = "submitted" /\ backfills[w].files = {}
  /\ batches' = [batches EXCEPT ![backfills[w].batch].poll = "queued"]
  /\ backfills' = [backfills EXCEPT ![w].step = "idle", ![w].batch = None]
  /\ UNCHANGED <<store, jobs, saves, acts, money, used, ruled, contested>>

\* The provider is done with the batch.
BatchEnds(b) ==
  /\ batches[b].st = "processing"
  /\ batches' = [batches EXCEPT ![b].st = "ended"]
  /\ UNCHANGED <<store, jobs, saves, backfills, acts, money, used, ruled, contested>>

\* ingestBatch().  A batch that is not ready is to be polled again; but the job
\* that asks for that holds the dedupe key itself, and then ends.
Poll(b) ==
  /\ batches[b].poll = "queued"
  /\ batches' = [batches EXCEPT ![b].poll = IF batches[b].st = "processing" THEN "none" ELSE "running",
                                ![b].todo = IF batches[b].st = "processing" THEN {} ELSE batches[b].files]
  /\ UNCHANGED <<store, jobs, saves, backfills, acts, money, used, ruled, contested>>

Ingesting(b, f) ==
  /\ batches[b].poll = "running" /\ f \in batches[b].todo
  /\ \A s \in saves : s.by # b
  /\ batches' = [batches EXCEPT ![b].todo = @ \ {f}]

\* A result that succeeded: recorded, unless that fails, and saved.
Succeeded(b, f) ==
  /\ f \in batches[b].items
  /\ \/ recorded' = recorded + Half /\ UNCHANGED used
     \/ Fault /\ UNCHANGED recorded
  /\ \E result \in SUBSET Tag : BeginSave(b, f, result)
  /\ UNCHANGED rows

\* Mutant: a result that did not succeed is counted, and not saved.
IngestResult_FailureSkipped(b, f) ==
  /\ Ingesting(b, f)
  /\ \/ Succeeded(b, f)
     \/ UNCHANGED <<rows, recorded, saves, used, contested>>
  /\ UNCHANGED <<suggested, tags, jobs, backfills, acts, billed, lost, blind, ruled>>

\* One result, in any order: parsed, recorded and saved; or a failure, or one
\* that cannot be parsed, which is saved as such and not recorded; or it has no mapping.
IngestResult(b, f) ==
  /\ Ingesting(b, f)
  /\ \/ Succeeded(b, f)
     \/ /\ f \in batches[b].items /\ SaveFailure(b, f)
        /\ UNCHANGED <<recorded, saves, contested>>
     \/ /\ f \notin batches[b].items
        /\ UNCHANGED <<rows, recorded, saves, used, contested>>
  /\ UNCHANGED <<suggested, tags, jobs, backfills, acts, billed, lost, blind, ruled>>

\* The state of the batch is the last statement, whose failure is passed over.
Ingested(b) ==
  /\ batches[b].poll = "running" /\ batches[b].todo = {} /\ \A s \in saves : s.by # b
  /\ \/ batches' = [batches EXCEPT ![b].poll = "none", ![b].st = "ingested"] /\ UNCHANGED used
     \/ Fault /\ batches' = [batches EXCEPT ![b].poll = "none"]
  /\ UNCHANGED <<store, jobs, saves, backfills, acts, money, ruled, contested>>

-----------------------------------------------------------------------------
(* People: the review of an enrichment, the tags of a file, and the bulk   *)
(* job that adds or removes tags of every asset.                           *)

\* An act begins; those it meets at its assets are noted.
BeginAct(p, act) ==
  /\ acts[p] = NoAct /\ used.acts < MaxActs
  /\ acts' = [acts EXCEPT ![p] = act]
  /\ used' = [used EXCEPT !.acts = @ + 1]
  /\ contested' = contested \cup
       {f \in Asset : (f = act.file \/ f \in act.todo) /\ (Saving(f) \/ Acting(f) # {})}

\* A reviewer rules on tags that are shown to him.
Review(p, op, f, names) ==
  /\ op \in {"promote", "reject"} /\ names # {} /\ \A t \in names : suggested[f][t] # None
  /\ BeginAct(p, [NoAct EXCEPT !.op = op, !.file = f, !.names = names])
  /\ UNCHANGED <<store, jobs, saves, backfills, batches, money, ruled>>

Dismiss(p, f) ==
  /\ ai[f] # None
  /\ BeginAct(p, [NoAct EXCEPT !.op = "dismiss", !.file = f])
  /\ UNCHANGED <<store, jobs, saves, backfills, batches, money, ruled>>

SetFileTags(p, f, names) ==
  /\ BeginAct(p, [NoAct EXCEPT !.op = "set", !.file = f, !.names = names])
  /\ UNCHANGED <<store, jobs, saves, backfills, batches, money, ruled>>

Bulk(p, op, names) ==
  /\ op \in {"tag", "untag"} /\ names # {}
  /\ BeginAct(p, [NoAct EXCEPT !.op = op, !.names = names, !.todo = Asset])
  /\ UNCHANGED <<store, jobs, saves, backfills, batches, money, ruled>>

\* The second statement on t is to come; or t is done with, and the request when no name is left.
HalfWay(p, t) == acts[p].tag = None /\ acts' = [acts EXCEPT ![p].tag = t]
NextName(p, t) ==
  acts' = [acts EXCEPT ![p] = IF @.names = {t} THEN NoAct
                              ELSE [acts[p] EXCEPT !.names = @ \ {t}, !.tag = None]]
Rule(f, t, ruling) ==
  suggested' = [suggested EXCEPT ![f][t] = IF @ = None THEN None ELSE ruling]
Ruled(f, t, ruling) == ruled' = [ruled EXCEPT ![f][t] = ruling]

\* promoteTags(): the tag first, then the row of the suggestion, if there is one.
Promote(p) ==
  LET f == acts[p].file IN
  /\ acts[p].op = "promote"
  /\ \E t \in acts[p].names :
       \/ /\ HalfWay(p, t)
          /\ tags' = [tags EXCEPT ![f] = @ \cup {t}] /\ UNCHANGED <<suggested, ruled>>
       \/ /\ acts[p].tag = t /\ NextName(p, t)
          /\ Rule(f, t, "promoted") /\ Ruled(f, t, "promoted") /\ UNCHANGED tags
  /\ UNCHANGED <<rows, jobs, saves, backfills, batches, money, used, contested>>

\* rejectTags(): the row first, then the tag is taken back.
Reject(p) ==
  LET f == acts[p].file IN
  /\ acts[p].op = "reject"
  /\ \E t \in acts[p].names :
       \/ /\ HalfWay(p, t)
          /\ Rule(f, t, "rejected") /\ UNCHANGED <<tags, ruled>>
       \/ /\ acts[p].tag = t /\ NextName(p, t)
          /\ tags' = [tags EXCEPT ![f] = @ \ {t}] /\ Ruled(f, t, "rejected") /\ UNCHANGED suggested
  /\ UNCHANGED <<rows, jobs, saves, backfills, batches, money, used, contested>>

\* reject(): the whole enrichment, and every suggestion that was not promoted.
CloseRow(p) ==
  /\ acts[p].op = "dismiss"
  /\ ai' = [ai EXCEPT ![acts[p].file] = "rejected"]
  /\ acts' = [acts EXCEPT ![p].op = "closing"]
  /\ UNCHANGED <<unsaved, suggested, tags, jobs, saves, backfills, batches, money, used, ruled,
                 contested>>

CloseTags(p) ==
  LET f == acts[p].file
      closed == {t \in Tag : suggested[f][t] \in {"open", "rejected"}}
  IN
  /\ acts[p].op = "closing" /\ acts' = [acts EXCEPT ![p] = NoAct]
  /\ suggested' = [suggested EXCEPT ![f] = [t \in Tag |-> IF t \in closed THEN "rejected" ELSE @[t]]]
  /\ UNCHANGED <<rows, tags, jobs, saves, backfills, batches, money, used, ruled, contested>>

\* The set is emptied and filled again, a tag at a time: what was ruled before is overruled.
EmptyTags(p) ==
  LET f == acts[p].file IN
  /\ acts[p].op = "set"
  /\ tags' = [tags EXCEPT ![f] = {}]
  /\ acts' = [acts EXCEPT ![p].op = "filling"]
  /\ ruled' = [ruled EXCEPT ![f] = [t \in Tag |-> None]]
  /\ UNCHANGED <<rows, suggested, jobs, saves, backfills, batches, money, used, contested>>

FillTags(p) ==
  LET f == acts[p].file IN
  /\ acts[p].op = "filling"
  /\ \/ /\ acts[p].names = {} /\ acts' = [acts EXCEPT ![p] = NoAct] /\ UNCHANGED tags
     \/ \E t \in acts[p].names : NextName(p, t) /\ tags' = [tags EXCEPT ![f] = @ \cup {t}]
  /\ UNCHANGED <<rows, suggested, jobs, saves, backfills, batches, money, used, ruled, contested>>

\* The bulk job's turn at f, one name after the other; a failing one ends the turn,
\* and the job goes on.
BulkFile(p, f) ==
  /\ acts[p].op \in {"tag", "untag"} /\ f \in acts[p].todo
  /\ \E done \in SUBSET acts[p].names :
     /\ \/ done = acts[p].names /\ UNCHANGED used
        \/ done # acts[p].names /\ Fault
     /\ tags' = [tags EXCEPT ![f] = IF acts[p].op = "tag" THEN @ \cup done ELSE @ \ done]
     /\ ruled' = [ruled EXCEPT ![f] = [t \in Tag |-> IF t \in done THEN None ELSE @[t]]]
  /\ acts' = [acts EXCEPT ![p] = IF @.todo = {f} THEN NoAct
                              ELSE [acts[p] EXCEPT !.todo = @ \ {f}]]
  /\ contested' = IF Saving(f) THEN contested \cup {f} ELSE contested
  /\ UNCHANGED <<rows, suggested, jobs, saves, backfills, batches, money>>

-----------------------------------------------------------------------------
(* A failed statement ends the job or the request it belongs to, a crash    *)
(* ends all of them: jobs start again from the beginning, requests of people *)
(* do not.                                                                 *)

BackfillFails(w) ==
  /\ Fault /\ backfills[w].step \in {"selected", "submitted"}
  /\ backfills' = [backfills EXCEPT ![w] = [step |-> "queued", files |-> {}, batch |-> None]]
  /\ UNCHANGED <<store, jobs, saves, batches, acts, money, ruled, contested>>

\* The next result, or what it maps to, cannot be read.
PollFails(b) ==
  /\ Fault /\ batches[b].poll = "running" /\ \A s \in saves : s.by # b
  /\ batches' = [batches EXCEPT ![b].poll = "queued", ![b].todo = {}]
  /\ UNCHANGED <<store, jobs, saves, backfills, acts, money, ruled, contested>>

RequestFails(p) ==
  /\ Fault /\ acts[p].op \notin {None, "tag", "untag"}
  /\ acts' = [acts EXCEPT ![p] = NoAct] /\ contested' = contested \cup {acts[p].file}
  /\ UNCHANGED <<store, jobs, saves, backfills, batches, money, ruled>>

Crash ==
  /\ Fault
  /\ lost' = lost + Live * Cardinality({f \in Asset : jobs[f] \in {"answered", "refused"}})
  /\ jobs' = [f \in Asset |-> IF jobs[f] = "none" THEN "none" ELSE "queued"]
  /\ saves' = {}
  /\ backfills' = [w \in Backfills |->
       IF backfills[w].step = "idle" THEN backfills[w]
       ELSE [step |-> "queued", files |-> {}, batch |-> None]]
  /\ batches' = [b \in Batch |->
       IF batches[b].poll = "running" THEN [batches[b] EXCEPT !.poll = "queued", !.todo = {}]
       ELSE batches[b]]
  /\ acts' = [p \in People |-> IF acts[p].op \in {"tag", "untag"} THEN acts[p] ELSE NoAct]
  /\ contested' = contested \cup {f \in Asset : Acting(f) # {}}
  /\ UNCHANGED <<store, recorded, billed, blind, ruled>>

-----------------------------------------------------------------------------

EnrichStep(f) == RequestEnrich(f) \/ StartEnrich(f) \/ Call(f) \/ RecordCall(f)
                 \/ EndRefused(f)
SaveStep(s) == SaveRow(s) \/ Replace(s) \/ InsertTag(s) \/ SaveFails(s)
BackfillStep(w) == StartBackfill(w) \/ Select(w) \/ Submit(w) \/ StoreItem(w) \/ QueuePoll(w)
                   \/ BackfillFails(w)
BatchStep(b) == BatchEnds(b) \/ Poll(b) \/ Ingested(b) \/ PollFails(b) \/ \E f \in Asset : IngestResult(b, f)
PersonStep(p) ==
  \/ \E op \in {"promote", "reject"}, f \in Asset, names \in SUBSET Tag : Review(p, op, f, names)
  \/ \E f \in Asset : Dismiss(p, f) \/ BulkFile(p, f)
  \/ \E f \in Asset, names \in SUBSET Tag : SetFileTags(p, f, names)
  \/ \E op \in {"tag", "untag"}, names \in SUBSET Tag : Bulk(p, op, names)
  \/ Promote(p) \/ Reject(p) \/ CloseRow(p) \/ CloseTags(p) \/ EmptyTags(p) \/ FillTags(p)
  \/ RequestFails(p)

Next ==
  \/ \E f \in Asset : EnrichStep(f)
  \/ \E s \in saves : SaveStep(s)
  \/ \E w \in Backfills : BackfillStep(w)
  \/ \E b \in Batch : BatchStep(b)
  \/ \E p \in People : PersonStep(p)
  \/ Crash

Spec == Init /\ [][Next]_vars

-----------------------------------------------------------------------------

\* What a person ruled on a suggestion stays ruled, however often the asset is
\* enriched again: a rejected tag is neither suggested nor among the people's
\* tags, a promoted one is among them - until a person changes it. Left out are
\* assets that two were at together: see the README (aistore.js).
RulingsKept ==
  \A f \in Asset \ contested, t \in Tag : Acting(f) = {} =>
    /\ ruled[f][t] = "rejected" => suggested[f][t] = "rejected" /\ t \notin tags[f]
    /\ ruled[f][t] = "promoted" => suggested[f][t] = "promoted" /\ t \in tags[f]

\* Live calls cost at most the ceiling and what can be under way at once beyond
\* it (ai.js budgetCheck and record).  Two failures are let off: a cost that could
\* not be recorded (ai.js:147), and a call past the ceiling that started because
\* the spending could not be read and so counted as nothing (ai.js:167).
WithinBudget ==
  billed <= (Budget - 1) + Live * Cardinality(Asset) + lost + Live * blind

\* A batch that counts as ingested left a row for each of its assets, whatever
\* order results, mapping, failures and interruptions came in (jobtypes.js
\* ingestBatch) - but for the assets whose failure could not be saved either
\* (aistore.js:66).
IngestedMeansSaved ==
  \A b \in Batch : batches[b].st = "ingested" =>
    \A f \in batches[b].files : ai[f] = None => <<b, f>> \in unsaved

\* A backfill does not choose an asset whose batch was ingested: it "must not
\* re-bill work already paid for" (jobtypes.js:233), failures included - but for
\* those that could not be saved, which are chosen again.
PaidOnce ==
  [][\A w \in Backfills, b \in Batch :
       backfills'[w].step = "selected" /\ backfills[w].step # "selected" /\ batches[b].st = "ingested"
         => \A f \in backfills'[w].files \cap batches[b].files : <<b, f>> \in unsaved]_vars

\* What the code says of both failures: the budget is "the hard ceiling, checked
\* before every call" (ai.js:171), and an ingested batch leaves no asset "silently
\* absent" (aistore.js:59).  Neither holds when a statement fails.
CeilingHolds == billed <= (Budget - 1) + Live * Cardinality(Asset) + lost
NothingAbsent ==
  \A b \in Batch : batches[b].st = "ingested" => \A f \in batches[b].files : ai[f] # None
=============================================================================
