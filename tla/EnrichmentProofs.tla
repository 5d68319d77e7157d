--------------------------- MODULE EnrichmentProofs ---------------------------
(* Theorems about Enrichment for any number of assets, people, backfills and  *)
(* batches and any prices: what people ruled stays ruled, spending has a      *)
(* bound, and a batch that was ingested left a row for each of its assets,    *)
(* which no backfill chooses again - but for what failures that the code      *)
(* passes over let by, each of which is counted.                              *)
EXTENDS Enrichment, FiniteSetTheorems, TLAPS

-----------------------------------------------------------------------------
(* Types.                                                                  *)

States == {"none", "queued", "calling", "answered", "refused", "saving", "failing"}
Save == [by: Batch \cup {None}, file: Asset, tags: SUBSET Tag,
         step: {"upsert", "replace", "insert"}]
Backfill == [step: {"idle", "queued", "selected", "submitted"},
             files: SUBSET Asset, batch: Batch \cup {None}]
BatchRow == [st: {"none", "processing", "ended", "ingested"}, files: SUBSET Asset,
             items: SUBSET Asset, poll: {"none", "queued", "running"}, todo: SUBSET Asset]
Act == [op: Op \cup {None}, file: Asset \cup {None}, names: SUBSET Tag,
        tag: Tag \cup {None}, todo: SUBSET Asset]
Spending == [batches: 0 .. MaxBatches, runs: Nat, acts: Nat, faults: Nat]
Shelf == [Tag -> {None, "open"} \cup Ruling]

\* Each act has the fields its operation needs.
ActOK(a) ==
  /\ a.op \in {"promote", "reject", "dismiss", "closing", "set", "filling"}
       => a.file \in Asset /\ a.todo = {}
  /\ a.op \in {"tag", "untag"} => a.file = None
  /\ a.op = None => a = NoAct
  /\ a.op \notin {"promote", "reject"} => a.tag = None

Types == TypeOK /\ \A p \in People : ActOK(acts[p])

LEMMA Facts ==
  /\ IsFiniteSet(Asset) /\ Budget \in Nat /\ Budget > 0 /\ Live \in Nat /\ Half \in Nat
  /\ MaxBatches \in Nat
  /\ None \notin Asset /\ None \notin Tag /\ None \notin Nat /\ None \notin Status
  /\ None \notin Ruling /\ None \notin Op /\ None # "open" /\ None \notin Batch
BY EnrichmentAssumption DEF Batch

LEMMA NoActFact ==
  NoAct \in Act /\ ActOK(NoAct) /\ NoAct.file = None /\ NoAct.todo = {} /\ NoAct.tag = None
  /\ NoAct.op = None /\ NoAct.names = {}
BY Facts DEF NoAct, Act, ActOK, Op

LEMMA SetJobType ==
  ASSUME Types, NEW f \in Asset, NEW st \in States, SetJob(f, st)
  PROVE  jobs' \in [Asset -> States] /\ jobs'[f] = st
         /\ \A g \in Asset \ {f} : jobs'[g] = jobs[g]
BY DEF Types, TypeOK, States, SetJob

LEMMA BeginSaveType ==
  ASSUME Types, NEW by \in Batch \cup {None}, NEW f \in Asset, NEW result \in SUBSET Tag,
         BeginSave(by, f, result)
  PROVE  /\ saves' \subseteq Save /\ contested' \subseteq Asset /\ contested \subseteq contested'
         /\ saves \subseteq saves'
         /\ \E s \in saves' : s.by = by /\ s.file = f /\ s.step = "upsert"
         /\ \A g : g # f => (Saving(g)' <=> Saving(g))
         /\ f \notin contested' => Acting(f) = {}
<1> DEFINE s == [by |-> by, file |-> f, tags |-> result, step |-> "upsert"]
<1>1. s \in Save /\ s.by = by /\ s.file = f /\ s.step = "upsert" BY DEF Save
<1>2. saves' = saves \cup {s}
      /\ contested' = IF Saving(f) \/ Acting(f) # {} THEN contested \cup {f} ELSE contested
  BY DEF BeginSave
<1> HIDE DEF s
<1> QED BY <1>1, <1>2 DEF Types, TypeOK, Save, Saving

LEMMA FaultType ==
  ASSUME Types, Fault
  PROVE  used' \in Spending /\ used'.batches = used.batches
BY DEF Types, TypeOK, Spending, Fault

LEMMA Spends ==
  ASSUME NEW u \in Spending, NEW n \in {0, 1}
  PROVE  [u EXCEPT !.faults = @ + n] \in Spending /\ [u EXCEPT !.faults = @ + n].batches = u.batches
<1>1. u.faults + n \in Nat BY DEF Spending
<1> QED BY <1>1 DEF Spending

LEMMA RowType ==
  ASSUME Types, NEW f \in Asset, NEW st \in Status, ai' = [ai EXCEPT ![f] = st]
  PROVE  ai' \in [Asset -> Status \cup {None}] /\ \A g \in Asset : ai[g] # None => ai'[g] # None
BY Facts DEF Types, TypeOK

\* What saveFailure() does, whether its statement is carried out or not.
LEMMA FailureType ==
  ASSUME Types, NEW by \in Batch \cup {None}, NEW f \in Asset,
         Written(f) \/ PassedOver(by, f)
  PROVE  /\ ai' \in [Asset -> Status \cup {None}] /\ unsaved' \subseteq (Batch \cup {None}) \X Asset
         /\ \A g \in Asset : ai[g] # None => ai'[g] # None
         /\ unsaved \subseteq unsaved' /\ (ai'[f] # None \/ <<by, f>> \in unsaved')
<1>1. CASE Written(f)
  <2>1. ai' = [ai EXCEPT ![f] = "failed"] /\ unsaved' = unsaved /\ "failed" \in Status
    BY <1>1 DEF Written, Status
  <2>2. "failed" # None BY Facts DEF Status
  <2> QED BY <2>1, <2>2, RowType DEF Types, TypeOK
<1>2. CASE PassedOver(by, f)
  BY <1>2 DEF PassedOver, Types, TypeOK
<1> QED BY <1>1, <1>2

-----------------------------------------------------------------------------
(* The inductive invariant: the budget.                                    *)

Cost(S) == Live * Cardinality(S)
Calling == {f \in Asset : jobs[f] = "calling"}
Owing == {f \in Asset : jobs[f] \in {"answered", "refused"}}

\* What a call costs is recorded or lost once the call is over; and a call only
\* starts while something of the budget is left, or counts as a blind one.
Money ==
  /\ billed <= recorded + lost + Cost(Owing)
  /\ billed + Cost(Calling) <= (Budget - 1) + lost + Cost(Asset) + Live * blind

\* A live call is saved once at a time, by the job that made it.
Lone(f) ==
  /\ \A s \in saves : s.by = None /\ s.file = f => jobs[f] = "saving"
  /\ \A r, s \in saves : r.by = None /\ r.file = f /\ s.by = None /\ s.file = f => r = s
Lives == \A f \in Asset : Lone(f)

(* Batches.                                                                *)

\* Batch b is through with f: it has a row, or what went wrong could not be saved.
Settled(b, f) == ai[f] # None \/ <<b, f>> \in unsaved
Upserting(b, f) == \E s \in saves : s.by = b /\ s.file = f /\ s.step = "upsert"

\* The batch a backfill has submitted is its own, not polled yet, and knows its
\* assets but for those the backfill has still to map.
Mapping(w) == \E b \in Batch :
  /\ backfills[w].batch = b /\ b <= used.batches
  /\ batches[b].poll = "none" /\ batches[b].st # "ingested"
  /\ batches[b].files \subseteq batches[b].items \cup backfills[w].files
  /\ \A x \in Backfills : backfills[x].step = "submitted" /\ backfills[x].batch = b => x = w

\* A batch that is polled is mapped; while it is ingested each of its assets is
\* to come, or about to be saved, or settled; and afterwards each is settled.
Read(b) ==
  /\ b > used.batches => batches[b] = NoBatch
  /\ batches[b].poll # "none" => batches[b].files \subseteq batches[b].items
  /\ batches[b].poll = "running" =>
       \A f \in batches[b].files : f \in batches[b].todo \/ Settled(b, f) \/ Upserting(b, f)
  /\ batches[b].st = "ingested" => \A f \in batches[b].files : Settled(b, f)

Batches ==
  /\ \A w \in Backfills : backfills[w].step = "submitted" => Mapping(w)
  /\ \A b \in Batch : Read(b)

(* Rulings.                                                                *)

\* A tag t that is ruled on, in the suggestions row and the people's tags set.
Kept(rule, row, set, t) ==
  /\ rule[t] = "rejected" => row[t] = "rejected" /\ t \notin set
  /\ rule[t] = "promoted" => row[t] = "promoted" /\ t \in set
Holds(f, t) == Kept(ruled[f], suggested[f], tags[f], t)
\* Somebody is between the two statements of a ruling on t.
MidRuling(a, t) == a.op \in {"promote", "reject"} /\ a.tag = t
HalfRuled(f, t) == \E p \in People : acts[p].file = f /\ MidRuling(acts[p], t)
\* What an act relies on until it is through.
Ready(a, rule, row, set) ==
  /\ a.op \in {"promote", "reject"} => \A t \in a.names : row[t] # None
  /\ a.op = "promote" /\ a.tag # None => a.tag \in set
  /\ a.op = "reject" /\ a.tag # None => row[a.tag] = "rejected"
  /\ a.op = "filling" => \A t \in Tag : rule[t] = None
InHand(p, f) == Ready(acts[p], ruled[f], suggested[f], tags[f])
Orderly(f) ==
  /\ \A p, q \in Acting(f) : p = q
  /\ Saving(f) => Acting(f) = {}
  /\ \A t \in Tag : Holds(f, t) \/ HalfRuled(f, t)
  /\ \A p \in Acting(f) : InHand(p, f)
Rulings == \A f \in Asset \ contested : Orderly(f)

Inv == Types /\ Money /\ Lives /\ Batches /\ Rulings

-----------------------------------------------------------------------------
(* Steps that leave a part alone.                                          *)

LEMMA StillMoney ==
  ASSUME Money, UNCHANGED <<jobs, recorded, billed, lost, blind>> PROVE Money'
BY DEF Money, Calling, Owing, Cost

\* No save changes, and no job that saves.
LEMMA StillLives ==
  ASSUME Lives, saves' = saves, \A f \in Asset : jobs[f] = "saving" => jobs'[f] = "saving"
  PROVE  Lives'
BY DEF Lives, Lone

LEMMA StillSettled ==
  ASSUME \A f \in Asset : ai[f] # None => ai'[f] # None, unsaved \subseteq unsaved'
  PROVE  \A b \in Batch, f \in Asset : Settled(b, f) => Settled(b, f)'
BY DEF Settled

\* Rows only come, and no batch or backfill changes.
LEMMA StillBatches ==
  ASSUME Types, Batches, UNCHANGED <<backfills, batches>>, used'.batches = used.batches,
         \A b \in Batch, f \in Asset : Settled(b, f) => Settled(b, f)',
         \A b \in Batch, f \in Asset : Upserting(b, f) => Upserting(b, f)' \/ Settled(b, f)'
  PROVE  Batches'
<1>1. ASSUME NEW w \in Backfills, backfills[w].step = "submitted" PROVE Mapping(w)'
  BY <1>1 DEF Batches, Mapping
<1>2. ASSUME NEW b \in Batch PROVE Read(b)'
  <2>1. batches[b].files \subseteq Asset /\ Read(b) BY DEF Types, TypeOK, Batches
  <2> QED BY <2>1 DEF Read
<1> QED BY <1>1, <1>2 DEF Batches

\* No step of a person, and no row of a suggestion changes.
LEMMA StillRulings ==
  ASSUME Rulings, UNCHANGED <<suggested, tags, acts, ruled>>, contested \subseteq contested',
         \A f \in Asset \ contested' : Saving(f)' => Saving(f) \/ Acting(f) = {}
  PROVE  Rulings'
<1> SUFFICES ASSUME NEW f \in Asset \ contested' PROVE Orderly(f)' BY DEF Rulings
<1>1. Orderly(f) BY DEF Rulings
<1>2. Acting(f)' = Acting(f) BY DEF Acting
<1> QED BY <1>1, <1>2 DEF Orderly, Holds, Kept, HalfRuled, MidRuling, InHand, Ready
-----------------------------------------------------------------------------
(* What calls cost.                                                        *)

LEMMA CostNat ==
  ASSUME NEW S \in SUBSET Asset PROVE Cost(S) \in Nat /\ Cost({}) = 0
<1>1. IsFiniteSet(S) BY Facts, FS_Subset
<1>2. Cardinality(S) \in Nat /\ Cardinality({}) = 0 BY <1>1, FS_CardinalityType, FS_EmptySet
<1> QED BY <1>2, Facts DEF Cost

LEMMA CostAdd ==
  ASSUME NEW S \in SUBSET Asset, NEW f \in Asset, f \notin S
  PROVE  Cost(S \cup {f}) = Cost(S) + Live
<1>1. IsFiniteSet(S) BY Facts, FS_Subset
<1>2. Cardinality(S \cup {f}) = Cardinality(S) + 1 /\ Cardinality(S) \in Nat
  BY <1>1, FS_AddElement, FS_CardinalityType
<1>3. \A n \in Nat : Live * (n + 1) = Live * n + Live BY Facts
<1> QED BY <1>2, <1>3 DEF Cost

LEMMA CostLess ==
  ASSUME NEW S \in SUBSET Asset, NEW f \in S
  PROVE  Cost(S) = Cost(S \ {f}) + Live
<1>1. (S \ {f}) \cup {f} = S BY Zenon
<1>2. Cost((S \ {f}) \cup {f}) = Cost(S \ {f}) + Live BY CostAdd
<1> QED BY <1>1, <1>2

LEMMA CostMonotone ==
  ASSUME NEW S \in SUBSET Asset, NEW T \in SUBSET S
  PROVE  Cost(T) <= Cost(S)
<1>1. IsFiniteSet(S) BY Facts, FS_Subset
<1>2. Cardinality(T) <= Cardinality(S) BY <1>1, FS_Subset
<1>3. Cardinality(T) \in Nat /\ Cardinality(S) \in Nat
  BY <1>1, FS_Subset, FS_CardinalityType
<1>4. \A m, n \in Nat : m <= n => Live * m <= Live * n BY Facts
<1> QED BY <1>2, <1>3, <1>4 DEF Cost

LEMMA CostUnion ==
  ASSUME NEW S \in SUBSET Asset, NEW T \in SUBSET Asset, S \cap T = {}
  PROVE  Cost(S \cup T) = Cost(S) + Cost(T)
<1>1. IsFiniteSet(S) /\ IsFiniteSet(T) BY Facts, FS_Subset
<1>2. Cardinality(S) \in Nat /\ Cardinality(T) \in Nat /\ Cardinality(S \cap T) = 0
  BY <1>1, FS_CardinalityType, FS_EmptySet
<1>3. Cardinality(S \cup T) = Cardinality(S) + Cardinality(T) - Cardinality(S \cap T)
  BY ONLY <1>1, FS_Union
<1>4. \A m, n \in Nat : Live * (m + n) = Live * m + Live * n BY Facts
<1>5. Cardinality(S \cup T) = Cardinality(S) + Cardinality(T) BY <1>2, <1>3
<1> QED BY <1>2, <1>4, <1>5 DEF Cost
-----------------------------------------------------------------------------
(* Live calls.                                                             *)

LEMMA RequestEnrichStep ==
  ASSUME Inv, NEW f \in Asset, RequestEnrich(f) PROVE Inv'
<1>1. /\ jobs[f] = "none" /\ SetJob(f, "queued") /\ used' = [used EXCEPT !.runs = @ + 1]
      /\ UNCHANGED <<ai, unsaved, suggested, tags, saves, backfills, batches, acts, recorded, billed,
                     lost, blind, ruled, contested>>
  BY DEF RequestEnrich, store, rows, money
<1>2. /\ jobs' \in [Asset -> States] /\ jobs'[f] = "queued"
      /\ \A g \in Asset \ {f} : jobs'[g] = jobs[g]
  BY <1>1, SetJobType DEF Inv, States
<1>3. used' \in Spending /\ used'.batches = used.batches
  BY <1>1 DEF Inv, Types, TypeOK, Spending
<1>4. Types' BY <1>1, <1>2, <1>3 DEF Inv, Types, TypeOK, States, Spending
<1>5. Calling' = Calling /\ Owing' = Owing BY <1>1, <1>2 DEF Calling, Owing
<1>6. Money' BY <1>1, <1>5 DEF Inv, Money, Cost
<1>lives. Lives' BY <1>1, <1>2, StillLives DEF Inv
<1>7. Batches'
  <2>1. \A b \in Batch, g \in Asset : Upserting(b, g) => Upserting(b, g)' BY <1>1 DEF Upserting
  <2> QED BY <1>1, <1>3, <2>1, StillBatches, StillSettled DEF Inv
<1>8. Rulings'
  <2>1. \A g \in Asset : Saving(g)' => Saving(g) BY <1>1 DEF Saving
  <2> QED BY <1>1, <2>1, StillRulings DEF Inv
<1> QED BY <1>lives, <1>4, <1>6, <1>7, <1>8 DEF Inv

LEMMA StartEnrichStep ==
  ASSUME Inv, NEW f \in Asset, StartEnrich(f) PROVE Inv'
<1>1. PICK spent \in {0, recorded}, faults \in {0, 1} :
        /\ jobs[f] = "queued" /\ MonthlySpend(spent, faults)
        /\ SetJob(f, IF BudgetCheck(spent) THEN "calling" ELSE "failing")
        /\ used' = [used EXCEPT !.faults = @ + faults]
        /\ blind' = IF faults = 1 /\ recorded >= Budget THEN blind + 1 ELSE blind
        /\ UNCHANGED <<ai, unsaved, suggested, tags, saves, backfills, batches, acts, recorded,
                       billed, lost, ruled, contested>>
  BY DEF StartEnrich, store, rows
<1> DEFINE st == IF BudgetCheck(spent) THEN "calling" ELSE "failing"
<1>2. st \in States /\ st \in {"calling", "failing"} BY DEF States
<1>3. blind \in Nat /\ blind' \in Nat /\ recorded \in Nat BY <1>1 DEF Inv, Types, TypeOK
<1>4. \/ st = "failing" /\ blind <= blind'
      \/ st = "calling" /\ recorded < Budget /\ blind' = blind
      \/ st = "calling" /\ blind' = blind + 1
  BY <1>1, <1>3, Facts DEF MonthlySpend, BudgetCheck
<1>5. /\ used' \in Spending /\ used'.batches = used.batches
  <2>1. used \in Spending BY DEF Inv, Types, TypeOK, Spending
  <2> QED BY <1>1, <2>1, Spends
<1>6. SetJob(f, st) BY <1>1
<1> HIDE DEF st
<1>7. /\ jobs' \in [Asset -> States] /\ jobs'[f] = st
      /\ \A g \in Asset \ {f} : jobs'[g] = jobs[g]
  BY <1>2, <1>6, SetJobType DEF Inv
<1>8. Types' BY <1>1, <1>3, <1>5, <1>7 DEF Inv, Types, TypeOK, States, Spending
<1>9. Money'
  <2>1. /\ Calling \in SUBSET Asset /\ Owing \in SUBSET Asset /\ Calling \cap Owing = {}
        /\ f \notin Calling /\ f \notin Owing /\ Owing' = Owing
        /\ st = "failing" => Calling' = Calling
        /\ st = "calling" => Calling' = Calling \cup {f}
    <3>1. /\ Calling \in SUBSET Asset /\ Owing \in SUBSET Asset /\ Calling \cap Owing = {}
          /\ f \notin Calling /\ f \notin Owing
      BY <1>1 DEF Calling, Owing
    <3>2. Owing' = Owing BY <1>1, <1>2, <1>7 DEF Owing
    <3>3. st = "failing" => Calling' = Calling
      <4>1. jobs[f] = "queued" BY <1>1
      <4>2. jobs'[f] = st /\ \A g \in Asset \ {f} : jobs'[g] = jobs[g] BY <1>7
      <4> QED BY <4>1, <4>2 DEF Calling
    <3>4. st = "calling" => Calling' = Calling \cup {f} BY <1>1, <1>7 DEF Calling
    <3> QED BY <3>1, <3>2, <3>3, <3>4
  <2>2. /\ recorded \in Nat /\ billed \in Nat /\ lost \in Nat
        /\ billed <= recorded + lost + Cost(Owing)
        /\ billed + Cost(Calling) <= (Budget - 1) + lost + Cost(Asset) + Live * blind
        /\ recorded' = recorded /\ billed' = billed /\ lost' = lost
    BY <1>1 DEF Inv, Types, TypeOK, Money
  <2>3. Cost(Calling) \in Nat /\ Cost(Owing) \in Nat /\ Cost(Asset) \in Nat
    BY <2>1, CostNat
  <2>4. /\ Live * blind \in Nat /\ Live * blind' \in Nat /\ Live * blind <= Live * blind'
        /\ blind' = blind + 1 => Live * blind' = Live * blind + Live
    <3>1. \A n \in Nat : Live * n \in Nat /\ Live * (n + 1) = Live * n + Live BY Facts
    <3>2. \A m, n \in Nat : m <= n => Live * m <= Live * n BY Facts
    <3>3. blind <= blind' BY <1>3, <1>4
    <3> QED BY <1>3, <3>1, <3>2, <3>3
  <2>5. Cost(Owing)' = Cost(Owing) /\ Cost(Asset)' = Cost(Asset) BY <2>1 DEF Cost
  <2>6. CASE st = "failing"
    <3>1. Cost(Calling)' = Cost(Calling) BY <2>1, <2>6 DEF Cost
    <3> QED BY <2>2, <2>3, <2>4, <2>5, <3>1, Facts DEF Money
  <2>7. CASE st = "calling"
    <3>1. Cost(Calling)' = Cost(Calling \cup {f}) BY <2>1, <2>7 DEF Cost
    <3>2. Cost((Calling \cup {f}) \cup Owing) = Cost(Calling \cup {f}) + Cost(Owing)
      BY <2>1, CostUnion
    <3>3. Cost((Calling \cup {f}) \cup Owing) <= Cost(Asset)
      <4>1. (Calling \cup {f}) \cup Owing \in SUBSET Asset BY <2>1
      <4> QED BY <4>1, CostMonotone
    <3>4. Cost(Calling \cup {f}) \in Nat /\ Cost(Calling \cup {f}) = Cost(Calling) + Live
      BY <2>1, CostNat, CostAdd
    <3>5. billed + Cost(Calling \cup {f}) <= (Budget - 1) + lost + Cost(Asset) + Live * blind'
      <4>1. CASE recorded < Budget
        BY <2>2, <2>3, <2>4, <3>2, <3>3, <3>4, <4>1, Facts
      <4>2. CASE blind' = blind + 1
        BY <2>2, <2>3, <2>4, <3>4, <4>2, Facts
      <4> QED BY <1>4, <2>7, <4>1, <4>2
    <3> QED BY <2>2, <2>5, <3>1, <3>5 DEF Money
  <2> QED BY <1>2, <2>6, <2>7
<1>10. Lives' BY <1>1, <1>7, StillLives DEF Inv
<1>11. Batches'
  <2>1. \A b \in Batch, g \in Asset : Upserting(b, g) => Upserting(b, g)' BY <1>1 DEF Upserting
  <2> QED BY <1>1, <1>5, <2>1, StillBatches, StillSettled DEF Inv
<1>12. Rulings'
  <2>1. \A g \in Asset : Saving(g)' => Saving(g) BY <1>1 DEF Saving
  <2> QED BY <1>1, <2>1, StillRulings DEF Inv
<1> QED BY <1>8, <1>9, <1>10, <1>11, <1>12 DEF Inv

LEMMA CallStep ==
  ASSUME Inv, NEW f \in Asset, Call(f) PROVE Inv'
<1>1. /\ jobs[f] = "calling"
      /\ \/ \E st \in {"answered", "refused"} : SetJob(f, st) /\ billed' = billed + Live /\ used' = used
         \/ Fault /\ SetJob(f, "queued") /\ billed' = billed
      /\ UNCHANGED <<ai, unsaved, suggested, tags, saves, backfills, batches, acts, recorded,
                     lost, blind, ruled, contested>>
  BY DEF Call, store, rows
<1>2. /\ jobs' \in [Asset -> States]
      /\ \/ jobs'[f] \in {"answered", "refused"} /\ billed' = billed + Live
         \/ jobs'[f] = "queued" /\ billed' = billed
      /\ \A g \in Asset \ {f} : jobs'[g] = jobs[g]
  BY <1>1, SetJobType DEF Inv, States
<1>3. used' \in Spending /\ used'.batches = used.batches
  BY <1>1, FaultType DEF Inv, Types, TypeOK, Spending
<1>4. Types' BY <1>1, <1>2, <1>3, Facts DEF Inv, Types, TypeOK, States, Spending
<1>5. Money'
  <2>1. /\ Calling \in SUBSET Asset /\ Owing \in SUBSET Asset
        /\ f \in Calling /\ f \notin Owing
    BY <1>1 DEF Calling, Owing
  <2>2. Calling' = Calling \ {f}
    BY <1>2 DEF Calling
  <2>3. /\ recorded \in Nat /\ billed \in Nat /\ lost \in Nat
        /\ billed <= recorded + lost + Cost(Owing)
        /\ billed + Cost(Calling) <= (Budget - 1) + lost + Cost(Asset) + Live * blind
    BY DEF Inv, Types, TypeOK, Money
  <2>4. Cost(Calling) = Cost(Calling \ {f}) + Live BY <2>1, CostLess
  <2>5. Cost(Owing \cup {f}) = Cost(Owing) + Live BY <2>1, CostAdd
  <2>6. Cost(Calling \ {f}) \in Nat /\ Cost(Owing) \in Nat /\ Cost(Asset) \in Nat
    BY <2>1, CostNat
  <2>7. /\ Cost(Calling)' = Cost(Calling \ {f}) /\ Cost(Asset)' = Cost(Asset)
        /\ Cost(Owing)' = Cost(Owing')
    BY <2>2 DEF Cost
  <2>8. /\ recorded' = recorded /\ lost' = lost /\ blind' = blind /\ Live * blind \in Nat
    BY <1>1, Facts DEF Inv, Types, TypeOK
  <2>9. CASE jobs'[f] \in {"answered", "refused"} /\ billed' = billed + Live
    <3>1. Owing' = Owing \cup {f} BY <1>2, <2>1, <2>9 DEF Owing
    <3> QED BY <3>1, <2>3, <2>4, <2>5, <2>6, <2>7, <2>8, <2>9, Facts DEF Money
  <2>10. CASE jobs'[f] = "queued" /\ billed' = billed
    <3>1. Owing' = Owing BY <1>2, <2>1, <2>10 DEF Owing
    <3> QED BY <3>1, <2>3, <2>4, <2>6, <2>7, <2>8, <2>10, Facts DEF Money
  <2> QED BY <1>2, <2>9, <2>10
<1>lives. Lives' BY <1>1, <1>2, StillLives DEF Inv
<1>6. Batches'
  <2>1. \A b \in Batch, g \in Asset : Upserting(b, g) => Upserting(b, g)' BY <1>1 DEF Upserting
  <2> QED BY <1>1, <1>3, <2>1, StillBatches, StillSettled DEF Inv
<1>7. Rulings'
  <2>1. \A g \in Asset : Saving(g)' => Saving(g) BY <1>1 DEF Saving
  <2> QED BY <1>1, <2>1, StillRulings DEF Inv
<1> QED BY <1>lives, <1>4, <1>5, <1>6, <1>7 DEF Inv

LEMMA RecordCallStep ==
  ASSUME Inv, NEW f \in Asset, RecordCall(f) PROVE Inv'
<1>1. /\ jobs[f] \in {"answered", "refused"}
      /\ \/ recorded' = recorded + Live /\ lost' = lost /\ used' = used
         \/ Fault /\ lost' = lost + Live /\ recorded' = recorded
      /\ \/ /\ SetJob(f, "saving")
            /\ \E result \in SUBSET Tag : BeginSave(None, f, result)
         \/ /\ SetJob(f, "failing") /\ saves' = saves /\ contested' = contested
      /\ UNCHANGED <<ai, unsaved, suggested, tags, backfills, batches, acts, billed, blind, ruled>>
  BY DEF RecordCall, store, rows
<1>2. /\ jobs' \in [Asset -> States] /\ jobs'[f] \in {"saving", "failing"}
      /\ \A g \in Asset \ {f} : jobs'[g] = jobs[g]
  BY <1>1, SetJobType DEF Inv, States
<1>3. used' \in Spending /\ used'.batches = used.batches
  BY <1>1, FaultType DEF Inv, Types, TypeOK, Spending
<1>5. /\ saves' \subseteq Save /\ contested' \subseteq Asset /\ contested \subseteq contested'
      /\ saves \subseteq saves'
      /\ \A g \in Asset \ contested' : Saving(g)' => Saving(g) \/ Acting(g) = {}
  <2>1. CASE \E result \in SUBSET Tag : BeginSave(None, f, result)
    BY <2>1, BeginSaveType DEF Inv
  <2>2. CASE saves' = saves /\ contested' = contested
    BY <2>2 DEF Inv, Types, TypeOK, Save, Saving
  <2> QED BY <1>1, <2>1, <2>2
<1>6. recorded' \in Nat /\ lost' \in Nat /\ billed' \in Nat
  BY <1>1, Facts DEF Inv, Types, TypeOK
<1>7. Types'
  BY <1>1, <1>2, <1>3, <1>5, <1>6 DEF Inv, Types, TypeOK, States, Spending, Save
<1>8. Money'
  <2>1. f \in Owing /\ Owing \in SUBSET Asset /\ Calling' = Calling /\ Owing' = Owing \ {f}
    BY <1>1, <1>2 DEF Calling, Owing
  <2>2. Cost(Owing) = Cost(Owing \ {f}) + Live BY <2>1, CostLess
  <2>3. /\ recorded \in Nat /\ billed \in Nat /\ lost \in Nat
        /\ billed <= recorded + lost + Cost(Owing)
        /\ billed + Cost(Calling) <= (Budget - 1) + lost + Cost(Asset) + Live * blind
        /\ Live * blind \in Nat /\ blind' = blind
    BY <1>1, Facts DEF Inv, Types, TypeOK, Money
  <2>4. Cost(Owing \ {f}) \in Nat /\ Cost(Calling) \in Nat /\ Cost(Asset) \in Nat
    BY <2>1, CostNat DEF Calling
  <2>5. Cost(Owing)' = Cost(Owing \ {f}) /\ Cost(Calling)' = Cost(Calling)
        /\ Cost(Asset)' = Cost(Asset)
    BY <2>1 DEF Cost
  <2>6. /\ billed' = billed
        /\ \/ recorded' = recorded + Live /\ lost' = lost
           \/ recorded' = recorded /\ lost' = lost + Live
    BY <1>1
  <2> QED BY <2>2, <2>3, <2>4, <2>5, <2>6, Facts DEF Money
<1>lives. Lives'
  <2> SUFFICES ASSUME NEW g \in Asset PROVE Lone(g)' BY DEF Lives
  <2>1. Lone(g) BY DEF Inv, Lives
  <2>2. CASE g = f
    <3>1. \A s \in saves : ~(s.by = None /\ s.file = f) BY <1>1, <2>1, <2>2 DEF Lone
    <3>2. CASE saves' = saves BY <2>2, <3>1, <3>2 DEF Lone
    <3>3. CASE SetJob(f, "saving") /\ \E result \in SUBSET Tag : BeginSave(None, f, result)
      <4>1. jobs'[f] = "saving" BY <3>3, SetJobType DEF Inv, States
      <4>2. PICK r : saves' = saves \cup {r} BY <3>3 DEF BeginSave
      <4> QED BY <2>2, <3>1, <4>1, <4>2 DEF Lone
    <3> QED BY <1>1, <3>2, <3>3
  <2>3. CASE g # f
    <3>1. \A s \in saves' : s \in saves \/ s.file = f BY <1>1 DEF BeginSave
    <3> QED BY <1>2, <2>1, <2>3, <3>1 DEF Lone
  <2> QED BY <2>2, <2>3
<1>9. Batches'
  <2>1. \A b \in Batch, g \in Asset : Upserting(b, g) => Upserting(b, g)' BY <1>5 DEF Upserting
  <2> QED BY <1>1, <1>3, <2>1, StillBatches, StillSettled DEF Inv
<1>10. Rulings' BY <1>1, <1>5, StillRulings DEF Inv
<1> QED BY <1>lives, <1>7, <1>8, <1>9, <1>10 DEF Inv
LEMMA EndRefusedStep ==
  ASSUME Inv, NEW f \in Asset, EndRefused(f) PROVE Inv'
<1>1. /\ jobs[f] = "failing" /\ SetJob(f, "none")
      /\ \/ Written(f) /\ used' = used
         \/ Fault /\ PassedOver(None, f)
      /\ UNCHANGED <<suggested, tags, saves, backfills, batches, acts, recorded, billed,
                     lost, blind, ruled, contested>>
  BY DEF EndRefused, SaveFailure, money
<1>2. /\ jobs' \in [Asset -> States] /\ jobs'[f] = "none"
      /\ \A g \in Asset \ {f} : jobs'[g] = jobs[g]
  BY <1>1, SetJobType DEF Inv, States
<1>3. used' \in Spending /\ used'.batches = used.batches
  BY <1>1, FaultType DEF Inv, Types, TypeOK, Spending
<1>4. /\ ai' \in [Asset -> Status \cup {None}] /\ unsaved' \subseteq (Batch \cup {None}) \X Asset
      /\ \A g \in Asset : ai[g] # None => ai'[g] # None
      /\ unsaved \subseteq unsaved'
  BY <1>1, FailureType DEF Inv
<1>5. Types' BY <1>1, <1>2, <1>3, <1>4 DEF Inv, Types, TypeOK, States, Spending
<1>6. Calling' = Calling /\ Owing' = Owing BY <1>1, <1>2 DEF Calling, Owing
<1>7. Money' BY <1>1, <1>6 DEF Inv, Money, Cost
<1>8. Lives' BY <1>1, <1>2, StillLives DEF Inv
<1>9. Batches'
  <2>1. \A b \in Batch, g \in Asset : Upserting(b, g) => Upserting(b, g)' BY <1>1 DEF Upserting
  <2> QED BY <1>1, <1>3, <1>4, <2>1, StillBatches, StillSettled DEF Inv
<1>10. Rulings'
  <2>1. \A g \in Asset : Saving(g)' => Saving(g) BY <1>1 DEF Saving
  <2> QED BY <1>1, <2>1, StillRulings DEF Inv
<1> QED BY <1>5, <1>7, <1>8, <1>9, <1>10 DEF Inv

-----------------------------------------------------------------------------
(* The statements of save().                                               *)

\* A save goes on, or is over; it is at its asset no longer than before.
LEMMA SaveGoesOn ==
  ASSUME Types, NEW s \in saves, NEW n \in SUBSET Save,
         \A r, q \in n : r = q /\ r.by = s.by /\ r.file = s.file, saves' = (saves \ {s}) \cup n
  PROVE  /\ saves' \subseteq Save
         /\ \A g : Saving(g)' => Saving(g)
         /\ \A b \in Batch, g \in Asset :
              Upserting(b, g) => Upserting(b, g)' \/ (s.step = "upsert" /\ g = s.file)
         /\ \A g \in Asset : Lone(g) /\ jobs'[g] = jobs[g] => Lone(g)'
<1>1. saves' \subseteq Save BY DEF Types, TypeOK, Save
<1>2. \A g : Saving(g)' => Saving(g) BY DEF Saving
<1>3. \A b \in Batch, g \in Asset :
        Upserting(b, g) => Upserting(b, g)' \/ (s.step = "upsert" /\ g = s.file)
  BY DEF Upserting
<1>4. ASSUME NEW g \in Asset, Lone(g), jobs'[g] = jobs[g] PROVE Lone(g)'
  <2>1. \A r \in n, q \in n : r = q OBVIOUS
  <2> QED BY <1>4, <2>1 DEF Lone
<1> QED BY <1>1, <1>2, <1>3, <1>4

\* A suggestion that nobody has ruled on may come or go while nobody is at its asset.
LEMMA SaveKeepsRulings ==
  ASSUME Rulings, UNCHANGED <<tags, acts, ruled, contested>>, \A g : Saving(g)' => Saving(g),
         NEW f \in Asset, Saving(f),
         \A g \in Asset \ {f} : suggested'[g] = suggested[g],
         \A t \in Tag : suggested[f][t] \in Ruling => suggested'[f][t] = suggested[f][t]
  PROVE  Rulings'
<1> SUFFICES ASSUME NEW g \in Asset \ contested' PROVE Orderly(g)' BY DEF Rulings
<1>1. Orderly(g) BY DEF Rulings
<1>2. Acting(g)' = Acting(g) BY DEF Acting
<1>3. CASE g = f
  <2>1. Acting(g) = {} BY <1>1, <1>3 DEF Orderly
  <2>2. \A t \in Tag : ~HalfRuled(g, t) BY <2>1 DEF HalfRuled, MidRuling, Acting
  <2>3. \A t \in Tag : Holds(g, t) BY <1>1, <2>2 DEF Orderly
  <2>4. \A t \in Tag : Holds(g, t)' BY <1>3, <2>3 DEF Holds, Kept, Ruling
  <2> QED BY <1>2, <2>1, <2>4 DEF Orderly
<1>4. CASE g # f
  <2>1. suggested'[g] = suggested[g] BY <1>4
  <2> QED BY <1>1, <1>2, <2>1 DEF Orderly, Holds, Kept, HalfRuled, MidRuling, InHand, Ready
<1> QED BY <1>3, <1>4

LEMMA SaveRowStep ==
  ASSUME Inv, NEW s \in saves, SaveRow(s) PROVE Inv'
<1> DEFINE n == {[s EXCEPT !.step = "replace"]}
<1>1. /\ s.step = "upsert" /\ ai' = [ai EXCEPT ![s.file] = "ok"] /\ saves' = (saves \ {s}) \cup n
      /\ UNCHANGED <<unsaved, suggested, tags, jobs, backfills, batches, acts, recorded, billed, lost, blind,
                     used, ruled, contested>>
  BY DEF SaveRow, money
<1>2. s \in Save BY DEF Inv, Types, TypeOK, Save
<1>3. n \in SUBSET Save /\ \A r, q \in n : r = q /\ r.by = s.by /\ r.file = s.file BY <1>2 DEF Save
<1> HIDE DEF n
<1>4. /\ saves' \subseteq Save
      /\ \A g : Saving(g)' => Saving(g)
      /\ \A b \in Batch, g \in Asset :
           Upserting(b, g) => Upserting(b, g)' \/ g = s.file
      /\ \A g \in Asset : Lone(g) => Lone(g)'
  BY <1>1, <1>3, SaveGoesOn DEF Inv
<1>5. /\ ai' \in [Asset -> Status \cup {None}]
      /\ \A g \in Asset : ai[g] # None => ai'[g] # None
  BY <1>1, <1>2, RowType DEF Inv, Save, Status
<1>6. ai'[s.file] # None BY <1>1, <1>2, Facts DEF Inv, Types, TypeOK, Save, Status
<1>7. Types' BY <1>1, <1>4, <1>5 DEF Inv, Types, TypeOK, Save
<1>8. Money' BY <1>1, StillMoney DEF Inv
<1>lives. Lives' BY <1>4 DEF Inv, Lives
<1>9. Batches'
  <2>1. \A b \in Batch, g \in Asset : Upserting(b, g) => Upserting(b, g)' \/ Settled(b, g)'
    BY <1>4, <1>6 DEF Settled
  <2> QED BY <1>1, <1>5, <2>1, StillBatches, StillSettled DEF Inv
<1>10. Rulings' BY <1>1, <1>4, StillRulings DEF Inv
<1> QED BY <1>lives, <1>7, <1>8, <1>9, <1>10 DEF Inv

LEMMA ReplaceStep ==
  ASSUME Inv, NEW s \in saves, Replace(s) PROVE Inv'
<1> DEFINE n == {[s EXCEPT !.step = "insert"]}
           row == [t \in Tag |-> IF suggested[s.file][t] = "open" THEN None ELSE suggested[s.file][t]]
<1>1. s \in Save BY DEF Inv, Types, TypeOK, Save
<1>2. /\ s.step = "replace" /\ saves' = (saves \ {s}) \cup n
      /\ suggested' = [suggested EXCEPT ![s.file] = row]
      /\ UNCHANGED <<ai, unsaved, tags, jobs, backfills, batches, acts, recorded, billed, lost, blind,
                     used, ruled, contested>>
  BY <1>1 DEF Replace, rows, money, Inv, Types, TypeOK, Save
<1>3. n \in SUBSET Save /\ \A r, q \in n : r = q /\ r.by = s.by /\ r.file = s.file BY <1>1 DEF Save
<1>4. /\ row \in Shelf
      /\ \A t \in Tag : suggested[s.file][t] \in Ruling => row[t] = suggested[s.file][t]
  BY <1>1 DEF Inv, Types, TypeOK, Save, Shelf, Ruling
<1> HIDE DEF n, row
<1>5. /\ saves' \subseteq Save
      /\ \A g : Saving(g)' => Saving(g)
      /\ \A b \in Batch, g \in Asset : Upserting(b, g) => Upserting(b, g)'
      /\ \A g \in Asset : Lone(g) => Lone(g)'
  BY <1>2, <1>3, SaveGoesOn DEF Inv
<1>6. /\ suggested' \in [Asset -> Shelf] /\ suggested'[s.file] = row
      /\ \A g \in Asset \ {s.file} : suggested'[g] = suggested[g]
  BY <1>1, <1>2, <1>4 DEF Inv, Types, TypeOK, Save, Shelf
<1>7. Types' BY <1>2, <1>5, <1>6 DEF Inv, Types, TypeOK, Save, Shelf
<1>8. Money' BY <1>2, StillMoney DEF Inv
<1>lives. Lives' BY <1>5 DEF Inv, Lives
<1>9. Batches' BY <1>2, <1>5, StillBatches, StillSettled DEF Inv
<1>10. Rulings'
  <2>1. s.file \in Asset /\ Saving(s.file) BY <1>1 DEF Save, Saving
  <2> QED BY <1>2, <1>4, <1>5, <1>6, <2>1, SaveKeepsRulings DEF Inv
<1> QED BY <1>lives, <1>7, <1>8, <1>9, <1>10 DEF Inv

LEMMA InsertTagStep ==
  ASSUME Inv, NEW s \in saves, InsertTag(s) PROVE Inv'
<1>1. s \in Save BY DEF Inv, Types, TypeOK, Save
<1>2. /\ s.step = "insert"
      /\ UNCHANGED <<ai, unsaved, tags, backfills, batches, acts, recorded, billed, lost, blind,
                     used, ruled, contested>>
  BY DEF InsertTag, rows, money
<1>3. CASE s.tags = {}
  <2>1. /\ saves' = saves \ {s} /\ suggested' = suggested
        /\ \/ s.by = None /\ SetJob(s.file, "none")
           \/ s.by # None /\ jobs' = jobs
    BY <1>3 DEF InsertTag
  <2>2. /\ saves' \subseteq Save
        /\ \A g : Saving(g)' => Saving(g)
        /\ \A b \in Batch, g \in Asset : Upserting(b, g) => Upserting(b, g)'
    BY <1>2, <2>1 DEF Inv, Types, TypeOK, Save, Saving, Upserting
  <2>3. /\ jobs' \in [Asset -> States]
        /\ \A g \in Asset : \/ jobs'[g] = jobs[g]
                            \/ /\ g = s.file /\ s.by = None
                               /\ jobs[g] = "saving" /\ jobs'[g] = "none"
    <3>1. s.by = None => jobs[s.file] = "saving" BY <1>1 DEF Inv, Lives, Lone, Save
    <3>2. CASE s.by = None /\ SetJob(s.file, "none")
      BY <1>1, <3>1, <3>2, SetJobType DEF Inv, States, Save
    <3> QED BY <2>1, <3>2 DEF Inv, Types, TypeOK, States
  <2>4. Types' BY <1>2, <2>1, <2>2, <2>3 DEF Inv, Types, TypeOK, Save, States
  <2>5. Money'
    <3>1. Calling' = Calling BY <2>3 DEF Calling
    <3>2. Owing' = Owing BY <2>3 DEF Owing
    <3> QED BY <1>2, <3>1, <3>2 DEF Inv, Money, Cost
  <2>6. Lives'
    <3> SUFFICES ASSUME NEW g \in Asset PROVE Lone(g)' BY DEF Lives
    <3>1. Lone(g) BY DEF Inv, Lives
    <3>2. CASE g = s.file /\ s.by = None BY <2>1, <3>1, <3>2 DEF Lone
    <3>3. CASE ~(g = s.file /\ s.by = None) BY <2>1, <2>3, <3>1, <3>3 DEF Lone
    <3> QED BY <3>2, <3>3
  <2>7. Batches' BY <1>2, <2>1, <2>2, StillBatches, StillSettled DEF Inv
  <2>8. Rulings' BY <1>2, <2>1, <2>2, StillRulings DEF Inv
  <2> QED BY <2>4, <2>5, <2>6, <2>7, <2>8 DEF Inv
<1>4. CASE s.tags # {}
  <2> DEFINE n(t) == {[s EXCEPT !.tags = @ \ {t}]}
             row(t) == [suggested[s.file] EXCEPT ![t] = IF @ = None THEN "open" ELSE @]
  <2>1. PICK t \in s.tags :
          /\ suggested' = [suggested EXCEPT ![s.file] = row(t)]
          /\ saves' = (saves \ {s}) \cup n(t) /\ jobs' = jobs
    BY <1>4 DEF InsertTag
  <2>2. n(t) \in SUBSET Save /\ \A r, q \in n(t) : r = q /\ r.by = s.by /\ r.file = s.file
    BY <1>1 DEF Save
  <2>3. /\ row(t) \in Shelf
        /\ \A u \in Tag : suggested[s.file][u] \in Ruling => row(t)[u] = suggested[s.file][u]
    BY <1>1, Facts DEF Inv, Types, TypeOK, Save, Shelf, Ruling
  <2> HIDE DEF n, row
  <2>4. /\ saves' \subseteq Save
        /\ \A g : Saving(g)' => Saving(g)
        /\ \A b \in Batch, g \in Asset : Upserting(b, g) => Upserting(b, g)'
        /\ \A g \in Asset : Lone(g) => Lone(g)'
    <3> DEFINE m == n(t)
    <3>1. /\ m \in SUBSET Save /\ \A r, q \in m : r = q /\ r.by = s.by /\ r.file = s.file
          /\ saves' = (saves \ {s}) \cup m
      BY <2>1, <2>2
    <3> HIDE DEF m
    <3> QED BY <1>2, <2>1, <3>1, SaveGoesOn DEF Inv
  <2>5. /\ suggested' \in [Asset -> Shelf] /\ suggested'[s.file] = row(t)
        /\ \A g \in Asset \ {s.file} : suggested'[g] = suggested[g]
    BY <1>1, <2>1, <2>3 DEF Inv, Types, TypeOK, Save, Shelf
  <2>6. Types' BY <1>2, <2>1, <2>4, <2>5 DEF Inv, Types, TypeOK, Save, Shelf
  <2>7. Money' BY <1>2, <2>1, StillMoney DEF Inv
  <2>8. Lives' BY <2>4 DEF Inv, Lives
  <2>9. Batches' BY <1>2, <2>4, StillBatches, StillSettled DEF Inv
  <2>10. Rulings'
    <3>1. s.file \in Asset /\ Saving(s.file) BY <1>1 DEF Save, Saving
    <3> QED BY <1>2, <2>3, <2>4, <2>5, <3>1, SaveKeepsRulings DEF Inv
  <2> QED BY <2>6, <2>7, <2>8, <2>9, <2>10 DEF Inv
<1> QED BY <1>3, <1>4

LEMMA SaveFailsStep ==
  ASSUME Inv, NEW s \in saves, SaveFails(s) PROVE Inv'
<1>1. /\ Fault /\ saves' = saves \ {s}
      /\ \/ s.by = None /\ SetJob(s.file, "queued") /\ ai' = ai /\ unsaved' = unsaved
         \/ s.by # None /\ (Written(s.file) \/ PassedOver(s.by, s.file)) /\ jobs' = jobs
      /\ UNCHANGED <<suggested, tags, backfills, batches, acts, recorded, billed, lost, blind, ruled,
                     contested>>
  BY DEF SaveFails, rows, money
<1>2. s \in Save /\ s.file \in Asset /\ s.by \in Batch \cup {None}
  BY DEF Inv, Types, TypeOK, Save
<1>3. used' \in Spending /\ used'.batches = used.batches BY <1>1, FaultType DEF Inv
<1>4. /\ jobs' \in [Asset -> States]
      /\ \A g \in Asset : \/ jobs'[g] = jobs[g]
                          \/ /\ g = s.file /\ s.by = None
                             /\ jobs[g] = "saving" /\ jobs'[g] = "queued"
  <2>1. s.by = None => jobs[s.file] = "saving" BY <1>2 DEF Inv, Lives, Lone
  <2>2. CASE s.by = None /\ SetJob(s.file, "queued")
    BY <1>2, <2>1, <2>2, SetJobType DEF Inv, States
  <2> QED BY <1>1, <2>2 DEF Inv, Types, TypeOK, States
<1>5. /\ ai' \in [Asset -> Status \cup {None}] /\ unsaved' \subseteq (Batch \cup {None}) \X Asset
      /\ \A g \in Asset : ai[g] # None => ai'[g] # None
      /\ unsaved \subseteq unsaved'
      /\ s.by # None => ai'[s.file] # None \/ <<s.by, s.file>> \in unsaved'
  <2>1. CASE s.by = None /\ ai' = ai /\ unsaved' = unsaved BY <2>1 DEF Inv, Types, TypeOK
  <2>2. CASE Written(s.file) \/ PassedOver(s.by, s.file) BY <1>2, <2>2, FailureType DEF Inv
  <2> QED BY <1>1, <2>1, <2>2
<1>6. saves' \subseteq Save /\ \A g : Saving(g)' => Saving(g)
  BY <1>1 DEF Inv, Types, TypeOK, Save, Saving
<1>7. Types' BY <1>1, <1>3, <1>4, <1>5, <1>6 DEF Inv, Types, TypeOK, Save, States, Spending
<1>8. Money'
  <2>1. Calling' = Calling BY <1>4 DEF Calling
  <2>2. Owing' = Owing BY <1>4 DEF Owing
  <2> QED BY <1>1, <2>1, <2>2 DEF Inv, Money, Cost
<1>9. Lives'
  <2> SUFFICES ASSUME NEW g \in Asset PROVE Lone(g)' BY DEF Lives
  <2>1. Lone(g) BY DEF Inv, Lives
  <2>2. CASE g = s.file /\ s.by = None BY <1>1, <2>1, <2>2 DEF Lone
  <2>3. CASE ~(g = s.file /\ s.by = None) BY <1>1, <1>4, <2>1, <2>3 DEF Lone
  <2> QED BY <2>2, <2>3
<1>10. Batches'
  <2>1. ASSUME NEW b \in Batch, NEW g \in Asset, Upserting(b, g)
        PROVE  Upserting(b, g)' \/ Settled(b, g)'
    <3>1. PICK r \in saves : r.by = b /\ r.file = g /\ r.step = "upsert" BY <2>1 DEF Upserting
    <3>2. CASE r = s BY <1>5, <3>1, <3>2, Facts DEF Settled
    <3>3. CASE r # s BY <1>1, <3>1, <3>3 DEF Upserting
    <3> QED BY <3>2, <3>3
  <2> QED BY <1>1, <1>3, <1>5, <2>1, StillBatches, StillSettled DEF Inv
<1>11. Rulings' BY <1>1, <1>6, StillRulings DEF Inv
<1> QED BY <1>7, <1>8, <1>9, <1>10, <1>11 DEF Inv
-----------------------------------------------------------------------------
(* Backfills and their batches.                                            *)

\* A batch is only changed by the backfill that maps it, or once it is polled.
LEMMA BatchChanges ==
  ASSUME Types, Batches, backfills' = backfills, used'.batches = used.batches,
         NEW b \in Batch, NEW r \in BatchRow, batches' = [batches EXCEPT ![b] = r],
         b <= used.batches,
         \/ batches[b].poll # "none"
         \/ /\ r.poll = "none" /\ r.st # "ingested"
            /\ r.files = batches[b].files /\ r.items = batches[b].items,
         \A c \in Batch, f \in Asset : Settled(c, f) => Settled(c, f)',
         \A c \in Batch, f \in Asset : Upserting(c, f) => Upserting(c, f)' \/ Settled(c, f)',
         r.poll # "none" => r.files \subseteq r.items,
         r.poll = "running" => \A f \in r.files : f \in r.todo \/ Settled(b, f)' \/ Upserting(b, f)',
         r.st = "ingested" => \A f \in r.files : Settled(b, f)'
  PROVE  batches' \in [Batch -> BatchRow] /\ Batches'
<1>1. /\ batches' \in [Batch -> BatchRow] /\ batches'[b] = r
      /\ \A c \in Batch \ {b} : batches'[c] = batches[c]
  BY DEF Types, TypeOK, BatchRow
<1>2. ASSUME NEW w \in Backfills, backfills[w].step = "submitted" PROVE Mapping(w)'
  <2>1. Mapping(w) BY <1>2 DEF Batches
  <2>2. PICK c \in Batch :
          /\ backfills[w].batch = c /\ c <= used.batches
          /\ batches[c].poll = "none" /\ batches[c].st # "ingested"
          /\ batches[c].files \subseteq batches[c].items \cup backfills[w].files
          /\ \A x \in Backfills : backfills[x].step = "submitted" /\ backfills[x].batch = c => x = w
    BY <2>1 DEF Mapping
  <2>3. /\ batches'[c].poll = "none" /\ batches'[c].st # "ingested"
        /\ batches'[c].files = batches[c].files /\ batches'[c].items = batches[c].items
    BY <1>1, <2>2
  <2> QED BY <2>2, <2>3 DEF Mapping
<1>3. ASSUME NEW c \in Batch PROVE Read(c)'
  <2>1. Read(c) /\ batches[c].files \subseteq Asset BY DEF Batches, Types, TypeOK
  <2>2. CASE c = b
    <3>1. ~(b > used'.batches) BY DEF Types, TypeOK, Batch
    <3> QED BY <1>1, <2>2, <3>1 DEF Read
  <2>3. CASE c # b
    <3>1. batches'[c] = batches[c] BY <1>1, <2>3
    <3> QED BY <2>1, <3>1 DEF Read
  <2> QED BY <2>2, <2>3
<1> QED BY <1>1, <1>2, <1>3 DEF Batches

\* A batch that is under way was submitted.
LEMMA Submitted ==
  ASSUME Types, Batches, NEW b \in Batch, batches[b].st # "none" \/ batches[b].poll # "none"
  PROVE  b <= used.batches /\ batches[b] \in BatchRow
<1>1. Read(b) BY DEF Batches
<1>2. ~(b > used.batches) BY <1>1 DEF Read, NoBatch
<1> QED BY <1>2 DEF Types, TypeOK, BatchRow, Batch

LEMMA BatchEndsStep ==
  ASSUME Inv, NEW b \in Batch, BatchEnds(b) PROVE Inv'
<1> DEFINE r == [batches[b] EXCEPT !.st = "ended"]
<1>1. /\ batches[b].st = "processing" /\ batches' = [batches EXCEPT ![b] = r]
      /\ UNCHANGED <<ai, unsaved, suggested, tags, jobs, saves, backfills, acts, recorded, billed,
                     lost, blind, used, ruled, contested>>
  BY DEF BatchEnds, store, rows, money
<1>2. b <= used.batches /\ batches[b] \in BatchRow BY <1>1, Submitted DEF Inv
<1>3. /\ r \in BatchRow /\ r.st = "ended" /\ r.poll = batches[b].poll /\ r.todo = batches[b].todo
      /\ r.files = batches[b].files /\ r.items = batches[b].items
  BY <1>2 DEF BatchRow
<1> HIDE DEF r
<1>4. Read(b) BY DEF Inv, Batches
<1>5. \A c \in Batch, f \in Asset : Upserting(c, f) => Upserting(c, f)' BY <1>1 DEF Upserting
<1>6. batches' \in [Batch -> BatchRow] /\ Batches'
  <2>1. r.poll # "none" => r.files \subseteq r.items BY <1>3, <1>4 DEF Read
  <2>2. batches[b].files \subseteq Asset BY <1>2 DEF BatchRow
  <2>3. r.poll = "running" => \A f \in r.files : f \in r.todo \/ Settled(b, f)' \/ Upserting(b, f)'
    BY <1>1, <1>3, <1>4, <1>5, <2>2 DEF Read, Settled
  <2> QED BY <1>1, <1>2, <1>3, <1>5, <2>1, <2>3, BatchChanges, StillSettled DEF Inv
<1>7. Types' BY <1>1, <1>6 DEF Inv, Types, TypeOK, BatchRow
<1>8. Money' BY <1>1, StillMoney DEF Inv
<1>9. Lives' BY <1>1, StillLives DEF Inv
<1>10. Rulings' BY <1>1, StillRulings DEF Inv, Saving
<1> QED BY <1>6, <1>7, <1>8, <1>9, <1>10 DEF Inv

LEMMA PollStep ==
  ASSUME Inv, NEW b \in Batch, Poll(b) PROVE Inv'
<1> DEFINE r == IF batches[b].st = "processing" THEN [batches[b] EXCEPT !.poll = "none", !.todo = {}]
                ELSE [batches[b] EXCEPT !.poll = "running", !.todo = batches[b].files]
<1>1. /\ batches[b].poll = "queued"
      /\ UNCHANGED <<ai, unsaved, suggested, tags, jobs, saves, backfills, acts, recorded, billed,
                     lost, blind, used, ruled, contested>>
  BY DEF Poll, store, rows, money
<1>2. b <= used.batches /\ batches[b] \in BatchRow BY <1>1, Submitted DEF Inv
<1>3. /\ r \in BatchRow /\ r.st = batches[b].st
      /\ r.files = batches[b].files /\ r.items = batches[b].items
      /\ r.poll = "running" => r.todo = r.files
  BY <1>2 DEF BatchRow
<1>4. batches' = [batches EXCEPT ![b] = r]
  BY <1>2 DEF Poll, BatchRow
<1> HIDE DEF r
<1>5. Read(b) BY DEF Inv, Batches
<1>6. \A c \in Batch, f \in Asset : Upserting(c, f) => Upserting(c, f)' BY <1>1 DEF Upserting
<1>7. batches' \in [Batch -> BatchRow] /\ Batches'
  <2>1. r.files \subseteq r.items BY <1>1, <1>3, <1>5 DEF Read
  <2>2. r.st = "ingested" => \A f \in r.files : Settled(b, f)' BY <1>1, <1>3, <1>5 DEF Read, Settled
  <2> QED BY <1>1, <1>2, <1>3, <1>4, <1>6, <2>1, <2>2, BatchChanges, StillSettled DEF Inv
<1>8. Types' BY <1>1, <1>7 DEF Inv, Types, TypeOK, BatchRow
<1>9. Money' BY <1>1, StillMoney DEF Inv
<1>10. Lives' BY <1>1, StillLives DEF Inv
<1>11. Rulings' BY <1>1, StillRulings DEF Inv, Saving
<1> QED BY <1>7, <1>8, <1>9, <1>10, <1>11 DEF Inv

LEMMA IngestedStep ==
  ASSUME Inv, NEW b \in Batch, Ingested(b) PROVE Inv'
<1> DEFINE done == [batches[b] EXCEPT !.poll = "none", !.st = "ingested"]
           left == [batches[b] EXCEPT !.poll = "none"]
<1>1. /\ batches[b].poll = "running" /\ batches[b].todo = {} /\ \A s \in saves : s.by # b
      /\ \/ batches' = [batches EXCEPT ![b] = done] /\ used' = used
         \/ Fault /\ batches' = [batches EXCEPT ![b] = left]
      /\ UNCHANGED <<ai, unsaved, suggested, tags, jobs, saves, backfills, acts, recorded, billed,
                     lost, blind, ruled, contested>>
  BY DEF Ingested, store, rows, money
<1>2. b <= used.batches /\ batches[b] \in BatchRow BY <1>1, Submitted DEF Inv
<1>used. used' \in Spending /\ used'.batches = used.batches
  BY <1>1, FaultType DEF Inv, Types, TypeOK, Spending
<1>3. /\ \A n \in {done, left} : n \in BatchRow /\ n.poll = "none" /\ n.files = batches[b].files
      /\ batches' = [batches EXCEPT ![b] = done] \/ batches' = [batches EXCEPT ![b] = left]
  BY <1>1, <1>2 DEF BatchRow
<1> HIDE DEF done, left
<1>r. PICK r \in BatchRow : r.poll = "none" /\ r.files = batches[b].files
                             /\ batches' = [batches EXCEPT ![b] = r]
  BY <1>3
<1>4. \A f \in r.files : Settled(b, f)'
  <2>1. Read(b) BY DEF Inv, Batches
  <2> QED BY <1>1, <1>r, <2>1 DEF Read, Upserting, Settled
<1>5. \A c \in Batch, f \in Asset : Upserting(c, f) => Upserting(c, f)' BY <1>1 DEF Upserting
<1>6. batches' \in [Batch -> BatchRow] /\ Batches'
  BY <1>1, <1>2, <1>used, <1>r, <1>4, <1>5, BatchChanges, StillSettled DEF Inv
<1>7. Types' BY <1>1, <1>used, <1>6 DEF Inv, Types, TypeOK, BatchRow, Spending
<1>8. Money' BY <1>1, StillMoney DEF Inv
<1>9. Lives' BY <1>1, StillLives DEF Inv
<1>10. Rulings' BY <1>1, StillRulings DEF Inv, Saving
<1> QED BY <1>6, <1>7, <1>8, <1>9, <1>10 DEF Inv

LEMMA PollFailsStep ==
  ASSUME Inv, NEW b \in Batch, PollFails(b) PROVE Inv'
<1> DEFINE r == [batches[b] EXCEPT !.poll = "queued", !.todo = {}]
<1>1. /\ Fault /\ batches[b].poll = "running" /\ batches' = [batches EXCEPT ![b] = r]
      /\ UNCHANGED <<ai, unsaved, suggested, tags, jobs, saves, backfills, acts, recorded, billed,
                     lost, blind, ruled, contested>>
  BY DEF PollFails, store, rows, money
<1>2. b <= used.batches /\ batches[b] \in BatchRow BY <1>1, Submitted DEF Inv
<1>3. used' \in Spending /\ used'.batches = used.batches BY <1>1, FaultType DEF Inv
<1>4. /\ r \in BatchRow /\ r.poll = "queued" /\ r.st = batches[b].st
      /\ r.files = batches[b].files /\ r.items = batches[b].items
  BY <1>2 DEF BatchRow
<1> HIDE DEF r
<1>5. Read(b) BY DEF Inv, Batches
<1>6. \A c \in Batch, f \in Asset : Upserting(c, f) => Upserting(c, f)' BY <1>1 DEF Upserting
<1>7. batches' \in [Batch -> BatchRow] /\ Batches'
  <2>1. r.files \subseteq r.items BY <1>1, <1>4, <1>5 DEF Read
  <2>2. r.st = "ingested" => \A f \in r.files : Settled(b, f)'
    BY <1>1, <1>4, <1>5 DEF Read, Settled
  <2> QED BY <1>1, <1>2, <1>3, <1>4, <1>6, <2>1, <2>2, BatchChanges, StillSettled DEF Inv
<1>8. Types' BY <1>1, <1>3, <1>7 DEF Inv, Types, TypeOK, BatchRow, Spending
<1>9. Money' BY <1>1, StillMoney DEF Inv
<1>10. Lives' BY <1>1, StillLives DEF Inv
<1>11. Rulings' BY <1>1, StillRulings DEF Inv, Saving
<1> QED BY <1>7, <1>8, <1>9, <1>10, <1>11 DEF Inv

LEMMA IngestResultStep ==
  ASSUME Inv, NEW b \in Batch, NEW f \in Asset, IngestResult(b, f) PROVE Inv'
<1> DEFINE r == [batches[b] EXCEPT !.todo = @ \ {f}]
<1>1. /\ batches[b].poll = "running"
      /\ \/ /\ \/ recorded' = recorded + Half /\ used' = used
               \/ Fault /\ recorded' = recorded
            /\ \E result \in SUBSET Tag : BeginSave(b, f, result)
            /\ ai' = ai /\ unsaved' = unsaved
         \/ /\ \/ Written(f) /\ used' = used
               \/ Fault /\ PassedOver(b, f)
            /\ recorded' = recorded /\ saves' = saves /\ contested' = contested
         \/ /\ f \notin batches[b].items /\ ai' = ai /\ unsaved' = unsaved /\ used' = used
            /\ recorded' = recorded /\ saves' = saves /\ contested' = contested
      /\ UNCHANGED <<suggested, tags, jobs, backfills, acts, billed, lost, blind, ruled>>
  BY DEF IngestResult, Ingesting, Succeeded, SaveFailure, rows
<1>used. used' \in Spending /\ used'.batches = used.batches
  BY <1>1, FaultType DEF Inv, Types, TypeOK, Spending
<1>2. b <= used.batches /\ batches[b] \in BatchRow BY <1>1, Submitted DEF Inv
<1>3. /\ r \in BatchRow /\ r.st = batches[b].st /\ r.poll = "running"
      /\ r.files = batches[b].files /\ r.items = batches[b].items /\ r.todo = batches[b].todo \ {f}
  BY <1>1, <1>2 DEF BatchRow
<1>4. batches' = [batches EXCEPT ![b] = r]
  BY <1>2 DEF IngestResult, Ingesting, BatchRow
<1> HIDE DEF r
<1>5. Read(b) BY DEF Inv, Batches
<1>6. /\ ai' \in [Asset -> Status \cup {None}] /\ unsaved' \subseteq (Batch \cup {None}) \X Asset
      /\ \A g \in Asset : ai[g] # None => ai'[g] # None
      /\ unsaved \subseteq unsaved'
  <2>1. CASE Written(f) \/ PassedOver(b, f) BY <2>1, FailureType DEF Inv
  <2>2. CASE ai' = ai /\ unsaved' = unsaved BY <2>2 DEF Inv, Types, TypeOK
  <2> QED BY <1>1, <2>1, <2>2
<1>7. /\ saves' \subseteq Save /\ contested' \subseteq Asset /\ contested \subseteq contested'
      /\ saves \subseteq saves'
      /\ \A g \in Asset \ contested' : Saving(g)' => Saving(g) \/ Acting(g) = {}
  <2>1. CASE \E result \in SUBSET Tag : BeginSave(b, f, result)
    BY <2>1, BeginSaveType DEF Inv
  <2>2. CASE saves' = saves /\ contested' = contested
    BY <2>2 DEF Inv, Types, TypeOK, Save, Saving
  <2> QED BY <1>1, <2>1, <2>2
<1>8. f \in batches[b].items => Settled(b, f)' \/ Upserting(b, f)'
  <2>1. CASE \E result \in SUBSET Tag : BeginSave(b, f, result)
    BY <2>1, BeginSaveType DEF Inv, Upserting
  <2>2. CASE Written(f) \/ PassedOver(b, f)
    BY <2>2, FailureType DEF Inv, Settled
  <2> QED BY <1>1, <2>1, <2>2
<1>9. \A c \in Batch, g \in Asset : Upserting(c, g) => Upserting(c, g)' BY <1>7 DEF Upserting
<1>10. batches' \in [Batch -> BatchRow] /\ Batches'
  <2>1. r.files \subseteq r.items BY <1>1, <1>3, <1>5 DEF Read
  <2>2. \A c \in Batch, g \in Asset : Settled(c, g) => Settled(c, g)' BY <1>6, StillSettled
  <2>3. \A g \in r.files : g \in r.todo \/ Settled(b, g)' \/ Upserting(b, g)'
    <3> SUFFICES ASSUME NEW g \in r.files PROVE g \in r.todo \/ Settled(b, g)' \/ Upserting(b, g)'
      OBVIOUS
    <3>1. g \in Asset /\ g \in batches[b].items BY <1>2, <1>3, <2>1 DEF BatchRow
    <3>2. g \in batches[b].todo \/ Settled(b, g) \/ Upserting(b, g)
      BY <1>1, <1>3, <1>5 DEF Read
    <3>3. CASE g = f BY <1>8, <3>1, <3>3
    <3>4. CASE g # f BY <1>3, <1>9, <2>2, <3>1, <3>2, <3>4
    <3> QED BY <3>3, <3>4
  <2>4. r.st = "ingested" => \A g \in r.files : Settled(b, g)'
    BY <1>2, <1>3, <1>5, <2>2 DEF Read, BatchRow
  <2> QED BY <1>1, <1>used, <1>2, <1>3, <1>4, <1>9, <2>1, <2>2, <2>3, <2>4, BatchChanges DEF Inv
<1>11. recorded' \in Nat /\ recorded <= recorded' BY <1>1, Facts DEF Inv, Types, TypeOK
<1>12. Types' BY <1>1, <1>used, <1>6, <1>7, <1>10, <1>11
  DEF Inv, Types, TypeOK, BatchRow, Save, Spending
<1>13. Money'
  <2>1. Calling' = Calling /\ Owing' = Owing BY <1>1 DEF Calling, Owing
  <2>2. Cost(Owing) \in Nat /\ Owing \in SUBSET Asset /\ billed \in Nat /\ lost \in Nat /\ recorded \in Nat
    BY CostNat DEF Owing, Inv, Types, TypeOK
  <2> QED BY <1>1, <1>11, <2>1, <2>2 DEF Inv, Money, Cost
<1>14. Lives'
  <2> SUFFICES ASSUME NEW g \in Asset PROVE Lone(g)' BY DEF Lives
  <2>1. Lone(g) BY DEF Inv, Lives
  <2>2. \A s \in saves' : s \in saves \/ s.by = b BY <1>1 DEF BeginSave
  <2>3. b # None BY Facts
  <2> QED BY <1>1, <2>1, <2>2, <2>3 DEF Lone
<1>15. Rulings' BY <1>1, <1>7, StillRulings DEF Inv
<1> QED BY <1>10, <1>12, <1>13, <1>14, <1>15 DEF Inv

\* The steps of a backfill touch only backfills and batches.
LEMMA BackfillTouches ==
  ASSUME Inv, UNCHANGED <<ai, unsaved, suggested, tags, jobs, saves, acts, money, ruled, contested>>,
         backfills' \in [Backfills -> Backfill], batches' \in [Batch -> BatchRow],
         used' \in Spending, Batches'
  PROVE  Inv'
<1>1. Types' BY DEF Inv, Types, TypeOK, money, Backfill, BatchRow, Spending
<1>2. Money' BY StillMoney DEF Inv, money
<1>3. Lives' BY StillLives DEF Inv
<1>4. Rulings' BY StillRulings DEF Inv, Saving
<1> QED BY <1>1, <1>2, <1>3, <1>4 DEF Inv

\* A backfill that is idle, queued or choosing has no batch to map.
LEMMA NoBatchYet ==
  ASSUME Types, Batches, NEW w \in Backfills, NEW r \in Backfill, r.step # "submitted",
         backfills' = [backfills EXCEPT ![w] = r],
         UNCHANGED <<ai, unsaved, saves, batches>>, used' \in Spending,
         used'.batches = used.batches
  PROVE  backfills' \in [Backfills -> Backfill] /\ batches' \in [Batch -> BatchRow] /\ Batches'
<1>1. /\ backfills' \in [Backfills -> Backfill] /\ backfills'[w] = r
      /\ \A x \in Backfills \ {w} : backfills'[x] = backfills[x]
  BY DEF Types, TypeOK, Backfill
<1>2. batches' \in [Batch -> BatchRow] BY DEF Types, TypeOK, BatchRow
<1>3. ASSUME NEW x \in Backfills, backfills'[x].step = "submitted" PROVE Mapping(x)'
  <2>1. x # w BY <1>1, <1>3
  <2>2. backfills'[x] = backfills[x] BY <1>1, <2>1
  <2>3. Mapping(x) BY <1>3, <2>2 DEF Batches
  <2>4. PICK b \in Batch :
          /\ backfills[x].batch = b /\ b <= used.batches
          /\ batches[b].poll = "none" /\ batches[b].st # "ingested"
          /\ batches[b].files \subseteq batches[b].items \cup backfills[x].files
          /\ \A y \in Backfills : backfills[y].step = "submitted" /\ backfills[y].batch = b => y = x
    BY <2>3 DEF Mapping
  <2>5. \A y \in Backfills : backfills'[y].step = "submitted" /\ backfills'[y].batch = b => y = x
    BY <1>1, <2>4
  <2> QED BY <2>2, <2>4, <2>5 DEF Mapping
<1>4. ASSUME NEW b \in Batch PROVE Read(b)'
  <2>1. Read(b) BY DEF Batches
  <2> QED BY <2>1 DEF Read, Upserting, Settled
<1> QED BY <1>1, <1>2, <1>3, <1>4 DEF Batches
LEMMA BackfillFields ==
  ASSUME Types, NEW w \in Backfills
  PROVE  /\ backfills[w] \in Backfill /\ backfills[w].files \in SUBSET Asset
         /\ \A files \in SUBSET Asset, step \in {"idle", "queued", "selected"} :
              /\ [backfills[w] EXCEPT !.step = step] \in Backfill
              /\ [backfills[w] EXCEPT !.step = step].step = step
              /\ [backfills[w] EXCEPT !.step = step, !.files = files] \in Backfill
              /\ [backfills[w] EXCEPT !.step = step, !.files = files].step = step
<1>1. backfills[w] \in Backfill BY DEF Types, TypeOK, Backfill
<1> QED BY <1>1 DEF Backfill

LEMMA SameSpending ==
  ASSUME Inv, used' = used PROVE used' \in Spending /\ used'.batches = used.batches
BY DEF Inv, Types, TypeOK, Spending

LEMMA StartBackfillStep ==
  ASSUME Inv, NEW w \in Backfills, StartBackfill(w) PROVE Inv'
<1> DEFINE r == [backfills[w] EXCEPT !.step = "queued"]
<1>1. /\ backfills' = [backfills EXCEPT ![w] = r]
      /\ UNCHANGED <<ai, unsaved, suggested, tags, jobs, saves, batches, acts, money, used, ruled, contested>>
  BY DEF StartBackfill, store, rows
<1>2. r \in Backfill /\ r.step # "submitted" BY BackfillFields DEF Inv
<1> HIDE DEF r
<1> QED BY <1>1, <1>2, NoBatchYet, SameSpending, BackfillTouches DEF Inv

LEMMA SelectStep ==
  ASSUME Inv, NEW w \in Backfills, Select(w) PROVE Inv'
<1> DEFINE idle == [backfills[w] EXCEPT !.step = "idle"]
           r(files) == [backfills[w] EXCEPT !.step = "selected", !.files = files]
<1>1. /\ \/ backfills' = [backfills EXCEPT ![w] = idle]
         \/ \E files \in SUBSET Unenriched : backfills' = [backfills EXCEPT ![w] = r(files)]
      /\ UNCHANGED <<ai, unsaved, suggested, tags, jobs, saves, batches, acts, money, used, ruled, contested>>
  BY DEF Select, store, rows, Inv, Types, TypeOK
<1>2. idle \in Backfill /\ idle.step # "submitted" BY BackfillFields DEF Inv
<1>3. \A files \in SUBSET Unenriched : r(files) \in Backfill /\ r(files).step # "submitted"
  BY BackfillFields DEF Inv, Unenriched
<1> HIDE DEF idle, r
<1>4. PICK n \in Backfill : n.step # "submitted" /\ backfills' = [backfills EXCEPT ![w] = n]
  BY <1>1, <1>2, <1>3
<1> QED BY <1>1, <1>4, NoBatchYet, SameSpending, BackfillTouches DEF Inv

LEMMA SubmitStep ==
  ASSUME Inv, NEW w \in Backfills, Submit(w) PROVE Inv'
<1> DEFINE b == used.batches + 1
           idle == [backfills[w] EXCEPT !.step = "idle", !.files = {}]
           done == [backfills[w] EXCEPT !.step = "submitted", !.batch = b]
           row == [batches[b] EXCEPT !.st = "processing", !.files = backfills[w].files]
<1>1. UNCHANGED <<ai, unsaved, suggested, tags, jobs, saves, acts, money, ruled, contested>>
  BY DEF Submit, store, rows
<1>2. CASE backfills' = [backfills EXCEPT ![w] = idle] /\ UNCHANGED <<batches, used>>
  <2>2. idle \in Backfill /\ idle.step # "submitted" BY BackfillFields DEF Inv
  <2> HIDE DEF idle
  <2> QED BY <1>1, <1>2, <2>2, NoBatchYet, SameSpending, BackfillTouches DEF Inv
<1>3. ASSUME NEW faults \in {0, 1},
             /\ backfills[w].step = "selected" /\ used.batches < MaxBatches
             /\ batches' = [batches EXCEPT ![b] = row]
             /\ backfills' = [backfills EXCEPT ![w] = done]
             /\ used' = [used EXCEPT !.batches = b, !.faults = @ + faults]
      PROVE  Inv'
  <2> DEFINE spent == [used EXCEPT !.batches = b, !.faults = @ + faults]
  <2>1. used.batches < MaxBatches /\ used' = spent /\ backfills' = [backfills EXCEPT ![w] = done]
        /\ batches' = [batches EXCEPT ![b] = row]
    BY <1>3
  <2>2. used \in Spending /\ used.batches \in Nat /\ b \in Batch /\ b > used.batches
    BY <2>1, Facts DEF Inv, Types, TypeOK, Spending, Batch
  <2>3. batches[b] = NoBatch /\ batches[b] \in BatchRow
    BY <2>2 DEF Inv, Batches, Read, Types, TypeOK, BatchRow
  <2>4. /\ done \in Backfill /\ done.step = "submitted" /\ done.batch = b
        /\ done.files = backfills[w].files /\ backfills[w].files \subseteq Asset
    <3>1. backfills[w] \in Backfill BY BackfillFields DEF Inv
    <3> HIDE DEF b
    <3> QED BY <2>2, <3>1 DEF Backfill
  <2>5. /\ row \in BatchRow /\ row.st = "processing" /\ row.files = backfills[w].files
        /\ row.poll = "none"
    <3>1. /\ NoBatch.poll = "none"
          /\ \A files \in SUBSET Asset :
               [NoBatch EXCEPT !.st = "processing", !.files = files] \in BatchRow
               /\ [NoBatch EXCEPT !.st = "processing", !.files = files].st = "processing"
               /\ [NoBatch EXCEPT !.st = "processing", !.files = files].files = files
               /\ [NoBatch EXCEPT !.st = "processing", !.files = files].poll = "none"
      BY DEF BatchRow, NoBatch
    <3>2. row = [NoBatch EXCEPT !.st = "processing", !.files = backfills[w].files] BY <2>3
    <3> QED BY <2>4, <3>1, <3>2
  <2>6. spent \in Spending /\ spent.batches = b
    <3>1. b \in 0 .. MaxBatches BY <2>2, Facts DEF Batch
    <3> HIDE DEF b
    <3>2. PICK c \in 0 .. MaxBatches : c = b BY <3>1
    <3>3. /\ [used EXCEPT !.batches = c, !.faults = @ + faults] \in Spending
          /\ [used EXCEPT !.batches = c, !.faults = @ + faults].batches = c
      <4>1. used.faults + faults \in Nat BY <2>2 DEF Spending
      <4> QED BY <2>2, <4>1 DEF Spending
    <3> QED BY <3>2, <3>3
  <2> HIDE DEF idle, done, row, spent
  <2>7. /\ backfills' \in [Backfills -> Backfill] /\ backfills'[w] = done
        /\ \A x \in Backfills \ {w} : backfills'[x] = backfills[x]
    BY <2>1, <2>4 DEF Inv, Types, TypeOK, Backfill
  <2>8. /\ batches' \in [Batch -> BatchRow] /\ batches'[b] = row
        /\ \A c \in Batch \ {b} : batches'[c] = batches[c]
    BY <2>1, <2>2, <2>5 DEF Inv, Types, TypeOK, BatchRow
  <2>9. \A x \in Backfills : backfills[x].step = "submitted" => backfills[x].batch # b
    BY <2>2 DEF Inv, Batches, Mapping
  <2>10. PICK d \in Batch : d = b BY <2>2
  <2>11. used'.batches = d /\ d = used.batches + 1 /\ used.batches \in Nat BY <2>1, <2>2, <2>6, <2>10
  <2> HIDE DEF b
  <2>12. ASSUME NEW x \in Backfills, backfills'[x].step = "submitted" PROVE Mapping(x)'
    <3>1. CASE x = w
      <4>1. \A y \in Backfills : backfills'[y].step = "submitted" /\ backfills'[y].batch = d => y = w
        BY <2>7, <2>9, <2>10
      <4> QED BY <3>1, <4>1, <2>4, <2>5, <2>7, <2>8, <2>10, <2>11 DEF Mapping
    <3>2. CASE x # w
      <4>1. backfills'[x] = backfills[x] /\ Mapping(x)
        BY <2>7, <2>12, <3>2 DEF Inv, Batches
      <4>2. PICK c \in Batch :
              /\ backfills[x].batch = c /\ c <= used.batches
              /\ batches[c].poll = "none" /\ batches[c].st # "ingested"
              /\ batches[c].files \subseteq batches[c].items \cup backfills[x].files
              /\ \A y \in Backfills : backfills[y].step = "submitted" /\ backfills[y].batch = c => y = x
        BY <4>1 DEF Mapping
      <4>3. c # d /\ c <= d BY <4>2, <2>11 DEF Batch
      <4>4. batches'[c] = batches[c] BY <4>3, <2>8, <2>10
      <4>5. \A y \in Backfills : backfills'[y].step = "submitted" /\ backfills'[y].batch = c => y = x
        BY <2>4, <2>7, <2>10, <4>2, <4>3
      <4> QED BY <2>11, <4>1, <4>2, <4>3, <4>4, <4>5 DEF Mapping
    <3> QED BY <3>1, <3>2
  <2>13. ASSUME NEW c \in Batch PROVE Read(c)'
    <3>1. CASE c = d BY <2>5, <2>8, <2>10, <2>11, <3>1 DEF Read, Batch
    <3>2. CASE c # d
      <4>1. batches'[c] = batches[c] /\ Read(c) BY <2>8, <2>10, <3>2 DEF Inv, Batches
      <4>2. c > used'.batches => c > used.batches BY <2>11 DEF Batch
      <4> QED BY <1>1, <4>1, <4>2 DEF Read, Upserting, Settled
    <3> QED BY <3>1, <3>2
  <2>14. Batches' BY <2>12, <2>13 DEF Batches
  <2> QED BY <1>1, <2>1, <2>6, <2>7, <2>8, <2>14, BackfillTouches
<1>4. \/ backfills' = [backfills EXCEPT ![w] = idle] /\ UNCHANGED <<batches, used>>
      \/ \E faults \in {0, 1} :
           /\ backfills[w].step = "selected" /\ used.batches < MaxBatches
           /\ batches' = [batches EXCEPT ![b] = row]
           /\ backfills' = [backfills EXCEPT ![w] = done]
           /\ used' = [used EXCEPT !.batches = b, !.faults = @ + faults]
  BY DEF Submit
<1> QED BY <1>2, <1>3, <1>4

LEMMA BackfillFailsStep ==
  ASSUME Inv, NEW w \in Backfills, BackfillFails(w) PROVE Inv'
<1> DEFINE r == [step |-> "queued", files |-> {}, batch |-> None]
<1>1. /\ Fault /\ backfills' = [backfills EXCEPT ![w] = r]
      /\ UNCHANGED <<ai, unsaved, suggested, tags, jobs, saves, batches, acts, money, ruled, contested>>
  BY DEF BackfillFails, store, rows
<1>2. r \in Backfill /\ r.step # "submitted" BY DEF Backfill
<1> HIDE DEF r
<1>3. used' \in Spending /\ used'.batches = used.batches BY <1>1, FaultType DEF Inv
<1> QED BY <1>1, <1>2, <1>3, NoBatchYet, BackfillTouches DEF Inv

\* The backfill w maps its batch b: what it makes of both is n and r.
LEMMA MappingChanges ==
  ASSUME Inv, NEW w \in Backfills, backfills[w].step = "submitted",
         NEW b \in Batch, backfills[w].batch = b, NEW n \in Backfill, NEW r \in BatchRow,
         backfills' = [backfills EXCEPT ![w] = n], batches' = [batches EXCEPT ![b] = r],
         UNCHANGED <<ai, unsaved, suggested, tags, jobs, saves, acts, money, used, ruled, contested>>,
         r.st = batches[b].st, r.poll # "running", r.files \subseteq r.items \cup n.files,
         r.poll # "none" => r.files \subseteq r.items,
         n.step = "submitted" => n.batch = b /\ r.poll = "none"
  PROVE  Inv'
<1>1. /\ backfills' \in [Backfills -> Backfill] /\ backfills'[w] = n
      /\ \A x \in Backfills \ {w} : backfills'[x] = backfills[x]
  BY DEF Inv, Types, TypeOK, Backfill
<1>2. /\ batches' \in [Batch -> BatchRow] /\ batches'[b] = r
      /\ \A c \in Batch \ {b} : batches'[c] = batches[c]
  BY DEF Inv, Types, TypeOK, BatchRow
<1>3. /\ b <= used.batches /\ batches[b].st # "ingested"
      /\ \A x \in Backfills : backfills[x].step = "submitted" /\ backfills[x].batch = b => x = w
  BY DEF Inv, Batches, Mapping
<1>4. used' \in Spending /\ used.batches \in Nat BY DEF Inv, Types, TypeOK, Spending
<1>5. ASSUME NEW x \in Backfills, backfills'[x].step = "submitted" PROVE Mapping(x)'
  <2>1. CASE x = w
    <3>1. \A y \in Backfills : backfills'[y].step = "submitted" /\ backfills'[y].batch = b => y = x
      BY <1>1, <1>3, <2>1
    <3> QED BY <1>1, <1>2, <1>3, <1>5, <2>1, <3>1 DEF Mapping
  <2>2. CASE x # w
    <3>1. backfills'[x] = backfills[x] /\ Mapping(x) BY <1>1, <1>5, <2>2 DEF Inv, Batches
    <3>2. PICK c \in Batch :
            /\ backfills[x].batch = c /\ c <= used.batches
            /\ batches[c].poll = "none" /\ batches[c].st # "ingested"
            /\ batches[c].files \subseteq batches[c].items \cup backfills[x].files
            /\ \A y \in Backfills : backfills[y].step = "submitted" /\ backfills[y].batch = c => y = x
      BY <3>1 DEF Mapping
    <3>3. c # b BY <1>1, <1>3, <1>5, <2>2, <3>1, <3>2
    <3>4. batches'[c] = batches[c] BY <1>2, <3>3
    <3>5. \A y \in Backfills : backfills'[y].step = "submitted" /\ backfills'[y].batch = c => y = x
      BY <1>1, <3>2, <3>3
    <3> QED BY <3>1, <3>2, <3>4, <3>5 DEF Mapping
  <2> QED BY <2>1, <2>2
<1>6. ASSUME NEW c \in Batch PROVE Read(c)'
  <2>1. CASE c = b
    <3>1. ~(b > used'.batches) BY <1>3, <1>4 DEF Batch
    <3> QED BY <1>2, <1>3, <2>1, <3>1 DEF Read
  <2>2. CASE c # b
    <3>1. batches'[c] = batches[c] /\ Read(c) BY <1>2, <2>2 DEF Inv, Batches
    <3> QED BY <3>1 DEF Read, Upserting, Settled
  <2> QED BY <2>1, <2>2
<1>7. Batches' BY <1>5, <1>6 DEF Batches
<1> QED BY <1>1, <1>2, <1>4, <1>7, BackfillTouches

LEMMA StoreItemStep ==
  ASSUME Inv, NEW w \in Backfills, StoreItem(w) PROVE Inv'
<1>1. backfills[w].step = "submitted" BY DEF StoreItem
<1>2. PICK b \in Batch :
        /\ backfills[w].batch = b /\ batches[b].poll = "none"
        /\ batches[b].files \subseteq batches[b].items \cup backfills[w].files
  BY <1>1 DEF Inv, Batches, Mapping
<1>3. batches[b] \in BatchRow /\ backfills[w] \in Backfill
  BY DEF Inv, Types, TypeOK, BatchRow, Backfill
<1>4. PICK f \in backfills[w].files :
        /\ batches' = [batches EXCEPT ![b].items = @ \cup {f}]
        /\ backfills' = [backfills EXCEPT ![w].files = @ \ {f}]
  BY <1>2 DEF StoreItem
<1> DEFINE r == [batches[b] EXCEPT !.items = @ \cup {f}]
           n == [backfills[w] EXCEPT !.files = @ \ {f}]
<1>5. /\ batches' = [batches EXCEPT ![b] = r] /\ backfills' = [backfills EXCEPT ![w] = n]
      /\ UNCHANGED <<ai, unsaved, suggested, tags, jobs, saves, acts, money, used, ruled, contested>>
  BY <1>4 DEF StoreItem, store, rows
<1>6. /\ r \in BatchRow /\ r.st = batches[b].st /\ r.poll = "none"
      /\ r.files = batches[b].files /\ r.items = batches[b].items \cup {f}
  <2>1. f \in Asset BY <1>3 DEF Backfill
  <2> QED BY <1>2, <1>3, <2>1 DEF BatchRow
<1>7. /\ n \in Backfill /\ n.batch = b /\ n.files = backfills[w].files \ {f}
  BY <1>2, <1>3 DEF Backfill
<1> HIDE DEF r, n
<1> QED BY <1>1, <1>2, <1>5, <1>6, <1>7, MappingChanges

LEMMA QueuePollStep ==
  ASSUME Inv, NEW w \in Backfills, QueuePoll(w) PROVE Inv'
<1>1. backfills[w].step = "submitted" /\ backfills[w].files = {} BY DEF QueuePoll
<1>2. PICK b \in Batch :
        /\ backfills[w].batch = b /\ batches[b].poll = "none"
        /\ batches[b].files \subseteq batches[b].items \cup backfills[w].files
  BY <1>1 DEF Inv, Batches, Mapping
<1>3. batches[b] \in BatchRow /\ backfills[w] \in Backfill
  BY DEF Inv, Types, TypeOK, BatchRow, Backfill
<1> DEFINE r == [batches[b] EXCEPT !.poll = "queued"]
           n == [backfills[w] EXCEPT !.step = "idle", !.batch = None]
<1>4. /\ batches' = [batches EXCEPT ![b] = r] /\ backfills' = [backfills EXCEPT ![w] = n]
      /\ UNCHANGED <<ai, unsaved, suggested, tags, jobs, saves, acts, money, used, ruled, contested>>
  BY <1>2 DEF QueuePoll, store, rows
<1>5. /\ r \in BatchRow /\ r.st = batches[b].st /\ r.poll = "queued"
      /\ r.files = batches[b].files /\ r.items = batches[b].items
  BY <1>3 DEF BatchRow
<1>6. n \in Backfill /\ n.step = "idle" /\ n.files = {}
  BY <1>1, <1>3 DEF Backfill
<1> HIDE DEF r, n
<1> QED BY <1>1, <1>2, <1>4, <1>5, <1>6, MappingChanges
-----------------------------------------------------------------------------
(* People.                                                                 *)

\* Requests and bulk jobs of people leave jobs, batches and money alone.
LEMMA PersonTouches ==
  ASSUME Inv, UNCHANGED <<unsaved, jobs, saves, backfills, batches, money>>,
         ai' \in [Asset -> Status \cup {None}],
         \A f \in Asset : ai[f] # None => ai'[f] # None,
         suggested' \in [Asset -> Shelf], tags' \in [Asset -> SUBSET Tag],
         acts' \in [People -> Act], \A p \in People : ActOK(acts'[p]),
         used' \in Spending, used'.batches = used.batches,
         ruled' \in [Asset -> [Tag -> Ruling \cup {None}]], contested' \subseteq Asset,
         Rulings'
  PROVE  Inv'
<1>1. Types' BY DEF Inv, Types, TypeOK, money, Shelf, Act, Spending
<1>2. Money' BY StillMoney DEF Inv, money
<1>3. Lives' BY StillLives DEF Inv
<1>4. Batches'
  <2>1. \A b \in Batch, f \in Asset : Upserting(b, f) => Upserting(b, f)' BY DEF Upserting
  <2> QED BY <2>1, StillBatches, StillSettled DEF Inv
<1> QED BY <1>1, <1>2, <1>3, <1>4 DEF Inv

LEMMA ActChanges ==
  ASSUME Types, NEW p \in People, NEW n \in Act, ActOK(n), acts' = [acts EXCEPT ![p] = n]
  PROVE  /\ acts' \in [People -> Act] /\ \A q \in People : ActOK(acts'[q])
         /\ acts'[p] = n /\ \A q \in People \ {p} : acts'[q] = acts[q]
<1>1. /\ acts' \in [People -> Act] /\ acts'[p] = n
      /\ \A q \in People \ {p} : acts'[q] = acts[q]
  BY DEF Types, TypeOK, Act
<1>2. ASSUME NEW q \in People PROVE ActOK(acts'[q])
  <2>1. CASE q = p BY <1>1, <2>1
  <2>2. CASE q # p
    <3>1. acts'[q] = acts[q] /\ ActOK(acts[q]) BY <1>1, <2>2 DEF Types
    <3> QED BY <3>1
  <2> QED BY <2>1, <2>2
<1> QED BY <1>1, <1>2

\* An asset that p has nothing to do with, or that waits in its bulk job.
LEMMA Elsewhere ==
  ASSUME Inv, NEW p \in People, NEW f \in Asset \ contested', contested \subseteq contested',
         \A q \in People \ {p} : acts'[q] = acts[q], saves' = saves,
         suggested'[f] = suggested[f], tags'[f] = tags[f], ruled'[f] = ruled[f],
         p \in Acting(f)' => p \in Acting(f) /\ acts'[p].op \in {"tag", "untag"},
         p \in Acting(f) => acts[p].op \notin {"promote", "reject"}
  PROVE  Orderly(f)'
<1>1. Orderly(f) BY DEF Inv, Rulings
<1>2. Acting(f)' \subseteq Acting(f) BY DEF Acting
<1>3. Saving(f)' <=> Saving(f) BY DEF Saving
<1>4. ASSUME NEW t \in Tag PROVE Holds(f, t)' \/ HalfRuled(f, t)'
  <2>1. CASE Holds(f, t) BY <2>1 DEF Holds, Kept
  <2>2. CASE HalfRuled(f, t)
    <3>1. PICK q \in People :
            acts[q].op \in {"promote", "reject"} /\ acts[q].file = f /\ acts[q].tag = t
      BY <2>2 DEF HalfRuled, MidRuling
    <3>2. q # p BY <3>1 DEF Acting
    <3> QED BY <3>1, <3>2 DEF HalfRuled, MidRuling
  <2> QED BY <1>1, <2>1, <2>2 DEF Orderly
<1>5. ASSUME NEW q \in Acting(f)' PROVE InHand(q, f)'
  <2>1. CASE q = p BY <1>5, <2>1 DEF InHand, Ready
  <2>2. CASE q # p
    <3>1. q \in People /\ acts'[q] = acts[q] /\ InHand(q, f)
      BY <1>1, <1>2, <1>5, <2>2 DEF Acting, Orderly
    <3> QED BY <3>1 DEF InHand, Ready
  <2> QED BY <2>1, <2>2
<1>6. \A q, r \in Acting(f)' : q = r BY <1>1, <1>2 DEF Orderly
<1>7. Saving(f)' => Acting(f)' = {} BY <1>1, <1>2, <1>3 DEF Orderly
<1> QED BY <1>4, <1>5, <1>6, <1>7 DEF Orderly

\* p goes on with what it is doing at its asset f, or is done with it.
LEMMA AtHand ==
  ASSUME Inv, NEW p \in People, NEW f \in Asset, acts[p].file = f,
         NEW n \in Act, acts' = [acts EXCEPT ![p] = n], ActOK(n), n.file \in {f, None}, n.todo = {},
         UNCHANGED <<saves, contested>>,
         \A g \in Asset \ {f} :
           suggested'[g] = suggested[g] /\ tags'[g] = tags[g] /\ ruled'[g] = ruled[g],
         InHand(p, f) =>
           /\ \A t \in Tag :
                Holds(f, t) \/ MidRuling(acts[p], t) => Holds(f, t)' \/ HalfRuled(f, t)'
           /\ n.file = None \/ InHand(p, f)'
  PROVE  Rulings'
<1> SUFFICES ASSUME NEW g \in Asset \ contested' PROVE Orderly(g)' BY DEF Rulings
<1>1. Orderly(g) BY DEF Inv, Rulings
<1>2. /\ acts'[p] = n /\ \A q \in People \ {p} : acts'[q] = acts[q]
  BY ActChanges DEF Inv
<1>3. acts[p].todo = {} /\ acts[p].op \notin {"tag", "untag"}
  <2>1. ActOK(acts[p]) /\ acts[p] \in Act BY DEF Inv, Types, TypeOK, Act
  <2>2. acts[p].op # None BY <2>1, NoActFact, Facts DEF ActOK
  <2> QED BY <2>1, <2>2, Facts DEF ActOK, Act, Op
<1>4. CASE g # f
  <2>1. p \notin Acting(g) BY <1>3, <1>4 DEF Acting
  <2>2. p \notin Acting(g)' BY <1>2, <1>4, Facts DEF Acting
  <2> QED BY <1>2, <1>4, <2>1, <2>2, Elsewhere
<1>5. CASE g = f
  <2>1. Acting(f) = {p} BY <1>1, <1>5 DEF Orderly, Acting
  <2>2. Acting(f)' \subseteq {p} BY <1>2, <2>1 DEF Acting
  <2>3. ~Saving(f)' BY <1>1, <1>5, <2>1 DEF Orderly, Saving
  <2>4. \A t \in Tag : HalfRuled(f, t) => MidRuling(acts[p], t)
    BY <2>1 DEF HalfRuled, Acting
  <2>5. InHand(p, f) BY <1>1, <1>5, <2>1 DEF Orderly
  <2>6. \A t \in Tag : Holds(f, t)' \/ HalfRuled(f, t)' BY <1>1, <1>5, <2>4, <2>5 DEF Orderly
  <2>7. \A q \in Acting(f)' : InHand(q, f)'
    <3> SUFFICES ASSUME NEW q \in Acting(f)' PROVE InHand(q, f)' OBVIOUS
    <3>1. q = p /\ n.file = f BY <1>2, <2>2 DEF Acting
    <3> QED BY <2>5, <3>1, Facts
  <2> QED BY <1>5, <2>2, <2>3, <2>6, <2>7 DEF Orderly
<1> QED BY <1>4, <1>5

\* An act begins.
LEMMA Begins ==
  ASSUME Inv, NEW p \in People, NEW n \in Act, ActOK(n), BeginAct(p, n),
         UNCHANGED <<ai, unsaved, suggested, tags, jobs, saves, backfills, batches, money, ruled>>,
         n.op # "filling", n.tag = None,
         n.op \in {"promote", "reject"} => \A t \in n.names : suggested[n.file][t] # None
  PROVE  Inv'
<1>1. /\ acts[p] = NoAct /\ acts' = [acts EXCEPT ![p] = n]
      /\ used' = [used EXCEPT !.acts = @ + 1]
      /\ contested' = contested \cup
           {f \in Asset : (f = n.file \/ f \in n.todo) /\ (Saving(f) \/ Acting(f) # {})}
  BY DEF BeginAct
<1>2. /\ acts' \in [People -> Act] /\ \A q \in People : ActOK(acts'[q])
      /\ acts'[p] = n /\ \A q \in People \ {p} : acts'[q] = acts[q]
  BY <1>1, ActChanges DEF Inv
<1>3. used' \in Spending /\ used'.batches = used.batches
  BY <1>1 DEF Inv, Types, TypeOK, Spending
<1>4. contested \subseteq contested' /\ contested' \subseteq Asset BY <1>1 DEF Inv, Types, TypeOK
<1>5. Rulings'
  <2> SUFFICES ASSUME NEW f \in Asset \ contested' PROVE Orderly(f)' BY DEF Rulings
  <2>1. Orderly(f) BY <1>4 DEF Inv, Rulings
  <2>2. p \notin Acting(f) BY <1>1, NoActFact, Facts DEF Acting
  <2>3. CASE f = n.file \/ f \in n.todo
    <3>1. Acting(f) = {} /\ ~Saving(f) BY <1>1, <2>3
    <3>2. Acting(f)' \subseteq {p} BY <1>2, <3>1 DEF Acting
    <3>3. ~Saving(f)' BY <3>1 DEF Saving
    <3>4. \A t \in Tag : Holds(f, t)'
      <4>1. \A t \in Tag : ~HalfRuled(f, t) BY <3>1 DEF HalfRuled, MidRuling, Acting
      <4> QED BY <2>1, <4>1 DEF Orderly, Holds, Kept
    <3>5. InHand(p, f)'
      <4>1. n.op \in {"promote", "reject"} => n.file = f
        BY <2>3 DEF ActOK
      <4> QED BY <1>2, <4>1 DEF InHand, Ready
    <3> QED BY <3>2, <3>3, <3>4, <3>5 DEF Orderly
  <2>4. CASE ~(f = n.file \/ f \in n.todo)
    <3>1. p \notin Acting(f)' BY <1>2, <2>4 DEF Acting
    <3> QED BY <1>2, <1>4, <2>2, <3>1, Elsewhere
  <2> QED BY <2>3, <2>4
<1>6. /\ suggested' \in [Asset -> Shelf] /\ tags' \in [Asset -> SUBSET Tag]
      /\ ai' \in [Asset -> Status \cup {None}] /\ ruled' \in [Asset -> [Tag -> Ruling \cup {None}]]
  BY DEF Inv, Types, TypeOK, Shelf
<1> QED BY <1>2, <1>3, <1>4, <1>5, <1>6, PersonTouches
LEMMA ReviewStep ==
  ASSUME Inv, NEW p \in People, NEW op \in {"promote", "reject"}, NEW f \in Asset,
         NEW names \in SUBSET Tag, Review(p, op, f, names)
  PROVE  Inv'
<1> DEFINE n == [NoAct EXCEPT !.op = op, !.file = f, !.names = names]
<1>1. /\ n \in Act /\ n.op = op /\ n.file = f /\ n.names = names /\ n.tag = None /\ n.todo = {}
  BY Facts DEF NoAct, Act, Op
<1>2. ActOK(n) BY <1>1, Facts DEF ActOK, Op
<1>3. /\ BeginAct(p, n) /\ \A t \in names : suggested[f][t] # None
      /\ UNCHANGED <<ai, unsaved, suggested, tags, jobs, saves, backfills, batches, money, ruled>>
  BY DEF Review, store, rows
<1> HIDE DEF n
<1> QED BY <1>1, <1>2, <1>3, Begins

LEMMA DismissStep ==
  ASSUME Inv, NEW p \in People, NEW f \in Asset, Dismiss(p, f) PROVE Inv'
<1> DEFINE n == [NoAct EXCEPT !.op = "dismiss", !.file = f]
<1>1. /\ n \in Act /\ n.op = "dismiss" /\ n.file = f /\ n.tag = None /\ n.todo = {}
  BY Facts DEF NoAct, Act, Op
<1>2. ActOK(n) BY <1>1, Facts DEF ActOK, Op
<1>3. /\ BeginAct(p, n)
      /\ UNCHANGED <<ai, unsaved, suggested, tags, jobs, saves, backfills, batches, money, ruled>>
  BY DEF Dismiss, store, rows
<1> HIDE DEF n
<1> QED BY <1>1, <1>2, <1>3, Begins

LEMMA SetFileTagsStep ==
  ASSUME Inv, NEW p \in People, NEW f \in Asset, NEW names \in SUBSET Tag,
         SetFileTags(p, f, names)
  PROVE  Inv'
<1> DEFINE n == [NoAct EXCEPT !.op = "set", !.file = f, !.names = names]
<1>1. /\ n \in Act /\ n.op = "set" /\ n.file = f /\ n.tag = None /\ n.todo = {}
  BY Facts DEF NoAct, Act, Op
<1>2. ActOK(n) BY <1>1, Facts DEF ActOK, Op
<1>3. /\ BeginAct(p, n)
      /\ UNCHANGED <<ai, unsaved, suggested, tags, jobs, saves, backfills, batches, money, ruled>>
  BY DEF SetFileTags, store, rows
<1> HIDE DEF n
<1> QED BY <1>1, <1>2, <1>3, Begins

LEMMA BulkStep ==
  ASSUME Inv, NEW p \in People, NEW op \in {"tag", "untag"}, NEW names \in SUBSET Tag,
         Bulk(p, op, names)
  PROVE  Inv'
<1> DEFINE n == [NoAct EXCEPT !.op = op, !.names = names, !.todo = Asset]
<1>1. /\ n \in Act /\ n.op = op /\ n.file = None /\ n.tag = None
  BY Facts DEF NoAct, Act, Op
<1>2. ActOK(n) BY <1>1, Facts DEF ActOK, Op
<1>3. /\ BeginAct(p, n)
      /\ UNCHANGED <<ai, unsaved, suggested, tags, jobs, saves, backfills, batches, money, ruled>>
  BY DEF Bulk, store, rows
<1> HIDE DEF n
<1> QED BY <1>1, <1>2, <1>3, Begins

\* Where p is, and what its next record looks like.
LEMMA HalfWayAct ==
  ASSUME Types, NEW p \in People, acts[p].op \in {"promote", "reject"}, NEW t \in acts[p].names,
         HalfWay(p, t)
  PROVE  /\ acts[p].tag = None /\ t \in Tag
         /\ \E n \in Act : /\ acts' = [acts EXCEPT ![p] = n] /\ ActOK(n)
                           /\ n.op = acts[p].op /\ n.file = acts[p].file /\ n.names = acts[p].names
                           /\ n.tag = t /\ n.todo = {}
<1> DEFINE n == [acts[p] EXCEPT !.tag = t]
<1>1. acts[p] \in Act /\ ActOK(acts[p]) BY DEF Types, TypeOK, Act
<1>2. acts[p].tag = None /\ acts' = [acts EXCEPT ![p] = n] BY DEF HalfWay
<1>3. t \in Tag BY <1>1 DEF Act
<1>4. /\ n \in Act /\ n.op = acts[p].op /\ n.file = acts[p].file /\ n.names = acts[p].names
      /\ n.tag = t /\ n.todo = acts[p].todo
  BY <1>1, <1>3 DEF Act
<1> HIDE DEF n
<1>5. n.todo = {} /\ ActOK(n) BY <1>1, <1>4, Facts DEF ActOK, Op
<1> QED BY <1>2, <1>3, <1>4, <1>5

LEMMA NextNameAct ==
  ASSUME Types, NEW p \in People, acts[p].op \in {"promote", "reject", "filling"},
         NEW t \in acts[p].names, NextName(p, t)
  PROVE  /\ t \in Tag
         /\ \E n \in Act : /\ acts' = [acts EXCEPT ![p] = n] /\ ActOK(n)
                           /\ \/ n = NoAct
                              \/ /\ n.op = acts[p].op /\ n.file = acts[p].file
                                 /\ n.names = acts[p].names \ {t}
                           /\ n.tag = None /\ n.todo = {}
<1> DEFINE n == [acts[p] EXCEPT !.names = @ \ {t}, !.tag = None]
<1>1. acts[p] \in Act /\ ActOK(acts[p]) BY DEF Types, TypeOK, Act
<1>2. acts' = [acts EXCEPT ![p] = NoAct] \/ acts' = [acts EXCEPT ![p] = n]
  BY DEF NextName, Types, TypeOK
<1>3. t \in Tag BY <1>1 DEF Act
<1>4. /\ n \in Act /\ n.op = acts[p].op /\ n.file = acts[p].file /\ n.names = acts[p].names \ {t}
      /\ n.tag = None /\ n.todo = acts[p].todo
  BY <1>1 DEF Act
<1> HIDE DEF n
<1>5. n.todo = {} /\ ActOK(n) BY <1>1, <1>4, Facts DEF ActOK, Op
<1> QED BY <1>2, <1>3, <1>4, <1>5, NoActFact

\* p's asset is one while it rules on it or sets its tags.
LEMMA OfAsset ==
  ASSUME Types, NEW p \in People,
         acts[p].op \in {"promote", "reject", "dismiss", "closing", "set", "filling"}
  PROVE  acts[p].file \in Asset /\ acts[p].names \in SUBSET Tag
         /\ (acts[p].op \notin {"promote", "reject"} => acts[p].tag = None)
<1>1. acts[p] \in Act /\ ActOK(acts[p]) BY DEF Types, TypeOK, Act
<1> QED BY <1>1 DEF ActOK, Act

\* The step from acts[p] to n carries the rulings over: rule, row and set are
\* what it makes of them at the asset.
Carries(p, f, n, rule, row, set) ==
  InHand(p, f) =>
    /\ \A t \in Tag : Holds(f, t) \/ MidRuling(acts[p], t) =>
         (n.file = f /\ MidRuling(n, t)) \/ Kept(rule, row, set, t)
    /\ n.file = None \/ Ready(n, rule, row, set)

\* A person's step at the asset f, which may also set the status of its row.
LEMMA AtHandInv ==
  ASSUME Inv, UNCHANGED <<unsaved, jobs, saves, backfills, batches, money, used, contested>>,
         NEW p \in People, NEW f \in Asset, NEW n \in Act, ActOK(n), acts' = [acts EXCEPT ![p] = n],
         ai' = ai \/ ai' = [ai EXCEPT ![f] = "rejected"],
         NEW row \in Shelf, suggested' = [suggested EXCEPT ![f] = row],
         NEW set \in SUBSET Tag, tags' = [tags EXCEPT ![f] = set],
         NEW rule \in [Tag -> Ruling \cup {None}], ruled' = [ruled EXCEPT ![f] = rule],
         acts[p].file = f, n.file \in {f, None}, n.todo = {},
         Carries(p, f, n, rule, row, set)
  PROVE  Inv'
<1>1. /\ suggested' \in [Asset -> Shelf] /\ suggested'[f] = row
      /\ tags' \in [Asset -> SUBSET Tag] /\ tags'[f] = set
      /\ ruled' \in [Asset -> [Tag -> Ruling \cup {None}]] /\ ruled'[f] = rule
      /\ \A g \in Asset \ {f} :
           suggested'[g] = suggested[g] /\ tags'[g] = tags[g] /\ ruled'[g] = ruled[g]
  BY DEF Inv, Types, TypeOK, Shelf
<1>2. /\ ai' \in [Asset -> Status \cup {None}] /\ \A g \in Asset : ai[g] # None => ai'[g] # None
  BY RowType DEF Inv, Types, TypeOK, Status
<1>3. /\ acts' \in [People -> Act] /\ \A q \in People : ActOK(acts'[q])
      /\ acts'[p] = n
  BY ActChanges DEF Inv
<1>4. InHand(p, f) =>
        /\ \A t \in Tag :
             Holds(f, t) \/ MidRuling(acts[p], t) => Holds(f, t)' \/ HalfRuled(f, t)'
        /\ n.file = None \/ InHand(p, f)'
  <2> SUFFICES ASSUME InHand(p, f)
               PROVE  /\ \A t \in Tag :
                           Holds(f, t) \/ MidRuling(acts[p], t) => Holds(f, t)' \/ HalfRuled(f, t)'
                      /\ n.file = None \/ InHand(p, f)'
    OBVIOUS
  <2>1. ASSUME NEW t \in Tag, Holds(f, t) \/ MidRuling(acts[p], t)
        PROVE  Holds(f, t)' \/ HalfRuled(f, t)'
    <3>1. (n.file = f /\ MidRuling(n, t)) \/ Kept(rule, row, set, t) BY <2>1 DEF Carries
    <3>2. CASE n.file = f /\ MidRuling(n, t) BY <1>3, <3>2 DEF HalfRuled
    <3>3. CASE Kept(rule, row, set, t) BY <1>1, <3>3 DEF Holds
    <3> QED BY <3>1, <3>2, <3>3
  <2>2. n.file = None \/ InHand(p, f)'
    <3>1. n.file = None \/ Ready(n, rule, row, set) BY DEF Carries
    <3> QED BY <1>1, <1>3, <3>1 DEF InHand
  <2> QED BY <2>1, <2>2
<1>5. Rulings'
  <2>1. UNCHANGED <<saves, contested>> OBVIOUS
  <2>2. \A g \in Asset \ {f} :
          suggested'[g] = suggested[g] /\ tags'[g] = tags[g] /\ ruled'[g] = ruled[g]
    BY <1>1
  <2> QED BY ONLY Inv, p \in People, f \in Asset, n \in Act, ActOK(n),
                 acts' = [acts EXCEPT ![p] = n], acts[p].file = f, n.file \in {f, None},
                 n.todo = {}, <1>4, <2>1, <2>2, AtHand
<1>6. used' \in Spending /\ used'.batches = used.batches /\ contested' \subseteq Asset
  BY DEF Inv, Types, TypeOK, Spending
<1> QED BY <1>1, <1>2, <1>3, <1>5, <1>6, PersonTouches
LEMMA AtAsset ==
  ASSUME Types, NEW f \in Asset
  PROVE  /\ suggested[f] \in Shelf /\ tags[f] \in SUBSET Tag
         /\ ruled[f] \in [Tag -> Ruling \cup {None}]
         /\ suggested' = suggested => suggested' = [suggested EXCEPT ![f] = suggested[f]]
         /\ tags' = tags => tags' = [tags EXCEPT ![f] = tags[f]]
         /\ ruled' = ruled => ruled' = [ruled EXCEPT ![f] = ruled[f]]
BY DEF Types, TypeOK, Shelf

LEMMA PromoteStep ==
  ASSUME Inv, NEW p \in People, Promote(p) PROVE Inv'
<1>1. /\ acts[p].op = "promote"
      /\ UNCHANGED <<ai, unsaved, jobs, saves, backfills, batches, money, used, contested>>
  BY DEF Promote, rows
<1>2. PICK f \in Asset : acts[p].file = f BY <1>1, OfAsset DEF Inv
<1>3. /\ acts[p].names \in SUBSET Tag /\ suggested[f] \in Shelf /\ tags[f] \in SUBSET Tag
      /\ ruled[f] \in [Tag -> Ruling \cup {None}]
  BY <1>1, OfAsset, AtAsset DEF Inv
<1>4. PICK t \in acts[p].names :
        \/ /\ HalfWay(p, t)
           /\ tags' = [tags EXCEPT ![f] = @ \cup {t}] /\ UNCHANGED <<suggested, ruled>>
        \/ /\ acts[p].tag = t /\ NextName(p, t)
           /\ Rule(f, t, "promoted") /\ Ruled(f, t, "promoted") /\ UNCHANGED tags
  BY <1>2 DEF Promote
<1>5. CASE /\ HalfWay(p, t)
           /\ tags' = [tags EXCEPT ![f] = @ \cup {t}] /\ UNCHANGED <<suggested, ruled>>
  <2>1. acts[p].tag = None /\ t \in Tag BY <1>1, <1>5, HalfWayAct DEF Inv
  <2>2. PICK n \in Act : /\ acts' = [acts EXCEPT ![p] = n] /\ ActOK(n)
                         /\ n.op = "promote" /\ n.file = f /\ n.names = acts[p].names
                         /\ n.tag = t /\ n.todo = {}
    BY <1>1, <1>2, <1>5, HalfWayAct DEF Inv
  <2> DEFINE set == tags[f] \cup {t}
             row == suggested[f]
             rule == ruled[f]
  <2>3. /\ suggested' = [suggested EXCEPT ![f] = row] /\ tags' = [tags EXCEPT ![f] = set]
        /\ ruled' = [ruled EXCEPT ![f] = rule] /\ set \in SUBSET Tag
    BY <1>3, <1>5, <2>1, AtAsset DEF Inv
  <2>4. Carries(p, f, n, rule, row, set)
    BY <1>1, <2>1, <2>2, Facts DEF Carries, Holds, Kept, MidRuling, InHand, Ready
  <2>5. row \in Shelf /\ rule \in [Tag -> Ruling \cup {None}] BY <1>3
  <2> HIDE DEF set, row, rule
  <2> QED BY <1>1, <1>2, <2>2, <2>3, <2>4, <2>5, AtHandInv
<1>6. CASE /\ acts[p].tag = t /\ NextName(p, t)
           /\ Rule(f, t, "promoted") /\ Ruled(f, t, "promoted") /\ UNCHANGED tags
  <2>1. t \in Tag BY <1>3
  <2>2. PICK n \in Act : /\ acts' = [acts EXCEPT ![p] = n] /\ ActOK(n)
                         /\ \/ n = NoAct
                            \/ n.op = "promote" /\ n.file = f /\ n.names = acts[p].names \ {t}
                         /\ n.tag = None /\ n.todo = {}
    BY <1>1, <1>2, <1>6, NextNameAct DEF Inv
  <2> DEFINE set == tags[f]
             row == [suggested[f] EXCEPT ![t] = IF suggested[f][t] = None THEN None ELSE "promoted"]
             rule == [ruled[f] EXCEPT ![t] = "promoted"]
  <2>3. /\ suggested' = [suggested EXCEPT ![f] = row] /\ tags' = [tags EXCEPT ![f] = set]
        /\ ruled' = [ruled EXCEPT ![f] = rule] /\ set \in SUBSET Tag
    BY <1>3, <1>6, <2>1, AtAsset DEF Inv, Types, TypeOK, Rule, Ruled
  <2>4. /\ row \in Shelf /\ rule \in [Tag -> Ruling \cup {None}] /\ rule[t] = "promoted"
        /\ suggested[f][t] # None => row[t] = "promoted"
        /\ \A u \in Tag : u # t => row[u] = suggested[f][u] /\ rule[u] = ruled[f][u]
        /\ \A u \in Tag : suggested[f][u] # None => row[u] # None
    BY <1>3, <2>1, Facts DEF Shelf, Ruling
  <2>5. n.file \in {f, None} /\ n.op \in {None, "promote"} BY <2>2, NoActFact
  <2>6. Carries(p, f, n, rule, row, set)
    <3> SUFFICES ASSUME InHand(p, f)
                 PROVE  /\ \A u \in Tag : Holds(f, u) \/ MidRuling(acts[p], u) =>
                             (n.file = f /\ MidRuling(n, u)) \/ Kept(rule, row, set, u)
                        /\ n.file = None \/ Ready(n, rule, row, set)
      BY DEF Carries
    <3>1. t \in set /\ row[t] = "promoted"
      BY <1>1, <1>4, <1>6, <2>1, <2>4, Facts DEF InHand, Ready
    <3>2. \A u \in Tag : Holds(f, u) \/ MidRuling(acts[p], u) => Kept(rule, row, set, u)
      <4> HIDE DEF set, row, rule
      <4> SUFFICES ASSUME NEW u \in Tag, Holds(f, u) \/ MidRuling(acts[p], u)
                   PROVE  Kept(rule, row, set, u)
        OBVIOUS
      <4>1. CASE u = t BY <2>4, <3>1, <4>1 DEF Kept
      <4>2. CASE u # t BY <1>6, <2>4, <4>2 DEF Kept, Holds, MidRuling, set
      <4> QED BY <4>1, <4>2
    <3>3. n.file = None \/ Ready(n, rule, row, set)
      <4>1. CASE n = NoAct BY <4>1, NoActFact
      <4>2. CASE n.op = "promote" /\ n.file = f /\ n.names = acts[p].names \ {t}
        <5>1. \A u \in n.names : u \in Tag /\ suggested[f][u] # None
          BY <1>1, <1>3, <4>2 DEF InHand, Ready
        <5>2. \A u \in n.names : row[u] # None BY <2>4, <5>1
        <5> HIDE DEF set, row, rule
        <5> QED BY <2>2, <4>2, <5>2 DEF Ready
      <4> QED BY <2>2, <4>1, <4>2
    <3> QED BY <3>2, <3>3
  <2> HIDE DEF set, row, rule
  <2> QED BY <1>1, <1>2, <2>2, <2>3, <2>4, <2>5, <2>6, AtHandInv
<1> QED BY <1>4, <1>5, <1>6
LEMMA RejectStep ==
  ASSUME Inv, NEW p \in People, Reject(p) PROVE Inv'
<1>1. /\ acts[p].op = "reject"
      /\ UNCHANGED <<ai, unsaved, jobs, saves, backfills, batches, money, used, contested>>
  BY DEF Reject, rows
<1>2. PICK f \in Asset : acts[p].file = f BY <1>1, OfAsset DEF Inv
<1>3. /\ acts[p].names \in SUBSET Tag /\ suggested[f] \in Shelf /\ tags[f] \in SUBSET Tag
      /\ ruled[f] \in [Tag -> Ruling \cup {None}]
  BY <1>1, OfAsset, AtAsset DEF Inv
<1>4. PICK t \in acts[p].names :
        \/ /\ HalfWay(p, t) /\ Rule(f, t, "rejected") /\ UNCHANGED <<tags, ruled>>
        \/ /\ acts[p].tag = t /\ NextName(p, t)
           /\ tags' = [tags EXCEPT ![f] = @ \ {t}] /\ Ruled(f, t, "rejected") /\ UNCHANGED suggested
  BY <1>2 DEF Reject
<1>5. CASE HalfWay(p, t) /\ Rule(f, t, "rejected") /\ UNCHANGED <<tags, ruled>>
  <2>1. acts[p].tag = None /\ t \in Tag BY <1>1, <1>5, HalfWayAct DEF Inv
  <2>2. PICK n \in Act : /\ acts' = [acts EXCEPT ![p] = n] /\ ActOK(n)
                         /\ n.op = "reject" /\ n.file = f /\ n.names = acts[p].names
                         /\ n.tag = t /\ n.todo = {}
    BY <1>1, <1>2, <1>5, HalfWayAct DEF Inv
  <2> DEFINE set == tags[f]
             row == [suggested[f] EXCEPT ![t] = IF suggested[f][t] = None THEN None ELSE "rejected"]
             rule == ruled[f]
  <2>3. /\ suggested' = [suggested EXCEPT ![f] = row] /\ tags' = [tags EXCEPT ![f] = set]
        /\ ruled' = [ruled EXCEPT ![f] = rule] /\ set \in SUBSET Tag
    BY <1>3, <1>5, <2>1, AtAsset DEF Inv, Types, TypeOK, Rule
  <2>4. /\ row \in Shelf
        /\ suggested[f][t] # None => row[t] = "rejected"
        /\ \A u \in Tag : u # t => row[u] = suggested[f][u]
        /\ \A u \in Tag : suggested[f][u] # None => row[u] # None
    BY <1>3, <2>1, Facts DEF Shelf, Ruling
  <2>5. Carries(p, f, n, rule, row, set)
    <3> HIDE DEF row
    <3> SUFFICES ASSUME InHand(p, f)
                 PROVE  /\ \A u \in Tag : Holds(f, u) \/ MidRuling(acts[p], u) =>
                             (n.file = f /\ MidRuling(n, u)) \/ Kept(rule, row, set, u)
                        /\ n.file = None \/ Ready(n, rule, row, set)
      BY DEF Carries
    <3>1. row[t] = "rejected" BY <1>1, <1>4, <2>1, <2>4 DEF InHand, Ready
    <3>2. ASSUME NEW u \in Tag, Holds(f, u) \/ MidRuling(acts[p], u)
          PROVE  (n.file = f /\ MidRuling(n, u)) \/ Kept(rule, row, set, u)
      <4>1. CASE u = t BY <2>2, <4>1 DEF MidRuling
      <4>2. CASE u # t
        <5>1. ~MidRuling(acts[p], u) BY <2>1, Facts DEF MidRuling
        <5> QED BY <2>4, <3>2, <4>2, <5>1 DEF Kept, Holds
      <4> QED BY <4>1, <4>2
    <3>3. Ready(n, rule, row, set)
      <4>1. \A u \in n.names : u \in Tag /\ row[u] # None
        BY <1>1, <1>3, <2>2, <2>4 DEF InHand, Ready
      <4> QED BY <2>2, <3>1, <4>1 DEF Ready
    <3> QED BY <3>2, <3>3
  <2>6. rule \in [Tag -> Ruling \cup {None}] BY <1>3
  <2> HIDE DEF set, row, rule
  <2> QED BY <1>1, <1>2, <2>2, <2>3, <2>4, <2>5, <2>6, AtHandInv
<1>6. CASE /\ acts[p].tag = t /\ NextName(p, t)
           /\ tags' = [tags EXCEPT ![f] = @ \ {t}] /\ Ruled(f, t, "rejected") /\ UNCHANGED suggested
  <2>1. t \in Tag BY <1>3
  <2>2. PICK n \in Act : /\ acts' = [acts EXCEPT ![p] = n] /\ ActOK(n)
                         /\ \/ n = NoAct
                            \/ n.op = "reject" /\ n.file = f /\ n.names = acts[p].names \ {t}
                         /\ n.tag = None /\ n.todo = {}
    BY <1>1, <1>2, <1>6, NextNameAct DEF Inv
  <2> DEFINE set == tags[f] \ {t}
             row == suggested[f]
             rule == [ruled[f] EXCEPT ![t] = "rejected"]
  <2>3. /\ suggested' = [suggested EXCEPT ![f] = row] /\ tags' = [tags EXCEPT ![f] = set]
        /\ ruled' = [ruled EXCEPT ![f] = rule] /\ set \in SUBSET Tag
    BY <1>3, <1>6, <2>1, AtAsset DEF Inv, Types, TypeOK, Ruled
  <2>4. /\ rule \in [Tag -> Ruling \cup {None}] /\ rule[t] = "rejected"
        /\ \A u \in Tag : u # t => rule[u] = ruled[f][u]
    BY <1>3, <2>1 DEF Ruling
  <2>5. n.file \in {f, None} BY <2>2, NoActFact
  <2>6. Carries(p, f, n, rule, row, set)
    <3> HIDE DEF rule
    <3> SUFFICES ASSUME InHand(p, f)
                 PROVE  /\ \A u \in Tag : Holds(f, u) \/ MidRuling(acts[p], u) =>
                             (n.file = f /\ MidRuling(n, u)) \/ Kept(rule, row, set, u)
                        /\ n.file = None \/ Ready(n, rule, row, set)
      BY DEF Carries
    <3>1. row[t] = "rejected" BY <1>1, <1>6, <2>1, Facts DEF InHand, Ready
    <3>2. ASSUME NEW u \in Tag, Holds(f, u) \/ MidRuling(acts[p], u)
          PROVE  Kept(rule, row, set, u)
      <4>1. CASE u = t BY <2>4, <3>1, <4>1 DEF Kept
      <4>2. CASE u # t BY <1>6, <2>4, <3>2, <4>2 DEF Kept, Holds, MidRuling
      <4> QED BY <4>1, <4>2
    <3>3. n.file = None \/ Ready(n, rule, row, set)
      <4>1. CASE n = NoAct BY <4>1, NoActFact
      <4>2. CASE n.op = "reject" /\ n.file = f /\ n.names = acts[p].names \ {t}
        <5>1. \A u \in n.names : row[u] # None BY <1>1, <4>2 DEF InHand, Ready
        <5> QED BY <2>2, <4>2, <5>1 DEF Ready
      <4> QED BY <2>2, <4>1, <4>2
    <3> QED BY <3>2, <3>3
  <2>7. row \in Shelf BY <1>3
  <2> HIDE DEF set, row, rule
  <2> QED BY <1>1, <1>2, <2>2, <2>3, <2>4, <2>5, <2>6, <2>7, AtHandInv
<1> QED BY <1>4, <1>5, <1>6

\* acts[p] with another operation, at the same asset.
LEMMA OtherOp ==
  ASSUME Types, NEW p \in People, acts[p].op \in {"dismiss", "set"}, NEW op \in {"closing", "filling"},
         NEW n, n = [acts[p] EXCEPT !.op = op]
  PROVE  /\ n \in Act /\ ActOK(n) /\ n.op = op /\ n.file = acts[p].file /\ n.tag = None /\ n.todo = {}
         /\ n.names = acts[p].names
<1>1. acts[p] \in Act /\ ActOK(acts[p]) BY DEF Types, TypeOK, Act
<1>2. /\ n \in Act /\ n.op = op /\ n.file = acts[p].file /\ n.tag = acts[p].tag
      /\ n.names = acts[p].names /\ n.todo = acts[p].todo
  BY <1>1 DEF Act, Op
<1>3. n.tag = None /\ n.todo = {} /\ n.file \in Asset BY <1>1, <1>2 DEF ActOK
<1>4. ActOK(n) BY <1>2, <1>3, Facts DEF ActOK, Op
<1> QED BY <1>2, <1>3, <1>4

LEMMA CloseRowStep ==
  ASSUME Inv, NEW p \in People, CloseRow(p) PROVE Inv'
<1> DEFINE n == [acts[p] EXCEPT !.op = "closing"]
<1>1. /\ acts[p].op = "dismiss" /\ ai' = [ai EXCEPT ![acts[p].file] = "rejected"]
      /\ acts' = [acts EXCEPT ![p] = n]
      /\ UNCHANGED <<unsaved, suggested, tags, jobs, saves, backfills, batches, money, used, ruled,
                     contested>>
  BY DEF CloseRow
<1>2. PICK f \in Asset : acts[p].file = f BY <1>1, OfAsset DEF Inv
<1>3. n \in Act /\ ActOK(n) /\ n.op = "closing" /\ n.file = f /\ n.tag = None /\ n.todo = {}
  BY <1>1, <1>2, OtherOp DEF Inv
<1> HIDE DEF n
<1> DEFINE set == tags[f]
           row == suggested[f]
           rule == ruled[f]
<1>4. /\ suggested' = [suggested EXCEPT ![f] = row] /\ tags' = [tags EXCEPT ![f] = set]
      /\ ruled' = [ruled EXCEPT ![f] = rule]
      /\ set \in SUBSET Tag /\ row \in Shelf /\ rule \in [Tag -> Ruling \cup {None}]
  BY <1>1, AtAsset DEF Inv
<1>5. Carries(p, f, n, rule, row, set)
  BY <1>1, <1>3 DEF Carries, Holds, MidRuling, Ready
<1>6. /\ UNCHANGED <<unsaved, jobs, saves, backfills, batches, money, used, contested>>
      /\ ai' = [ai EXCEPT ![f] = "rejected"] /\ acts' = [acts EXCEPT ![p] = n]
  BY <1>1, <1>2
<1> HIDE DEF set, row, rule
<1> QED BY <1>2, <1>3, <1>4, <1>5, <1>6, AtHandInv

LEMMA CloseTagsStep ==
  ASSUME Inv, NEW p \in People, CloseTags(p) PROVE Inv'
<1>1. /\ acts[p].op = "closing" /\ acts' = [acts EXCEPT ![p] = NoAct]
      /\ UNCHANGED <<ai, unsaved, tags, jobs, saves, backfills, batches, money, used, ruled, contested>>
  BY DEF CloseTags, rows
<1>2. PICK f \in Asset : acts[p].file = f BY <1>1, OfAsset DEF Inv
<1> DEFINE set == tags[f]
           row == [t \in Tag |-> IF suggested[f][t] \in {"open", "rejected"} THEN "rejected"
                                 ELSE suggested[f][t]]
           rule == ruled[f]
<1>3. /\ set \in SUBSET Tag /\ rule \in [Tag -> Ruling \cup {None}] /\ suggested[f] \in Shelf
      /\ tags' = [tags EXCEPT ![f] = set] /\ ruled' = [ruled EXCEPT ![f] = rule]
  BY <1>1, AtAsset DEF Inv
<1>4. row \in Shelf BY <1>3 DEF Shelf, Ruling
<1>5. suggested' = [suggested EXCEPT ![f] = row]
  BY <1>2 DEF CloseTags, Inv, Types, TypeOK
<1>6. Carries(p, f, NoAct, rule, row, set)
  BY <1>1, <1>3, NoActFact DEF Carries, Holds, Kept, MidRuling, Shelf
<1>7. UNCHANGED <<unsaved, jobs, saves, backfills, batches, money, used, contested>> BY <1>1
<1> HIDE DEF set, row, rule
<1> QED BY <1>1, <1>2, <1>3, <1>4, <1>5, <1>6, <1>7, NoActFact, AtHandInv

LEMMA EmptyTagsStep ==
  ASSUME Inv, NEW p \in People, EmptyTags(p) PROVE Inv'
<1> DEFINE n == [acts[p] EXCEPT !.op = "filling"]
           rule == [t \in Tag |-> None]
<1>1. /\ acts[p].op = "set" /\ acts' = [acts EXCEPT ![p] = n]
      /\ UNCHANGED <<ai, unsaved, suggested, jobs, saves, backfills, batches, money, used, contested>>
  BY DEF EmptyTags, rows
<1>2. PICK f \in Asset : acts[p].file = f BY <1>1, OfAsset DEF Inv
<1>3. n \in Act /\ ActOK(n) /\ n.op = "filling" /\ n.file = f /\ n.tag = None /\ n.todo = {}
  BY <1>1, <1>2, OtherOp DEF Inv
<1> HIDE DEF n
<1> DEFINE row == suggested[f]
<1>4. /\ suggested' = [suggested EXCEPT ![f] = row] /\ row \in Shelf
      /\ tags' = [tags EXCEPT ![f] = {}] /\ ruled' = [ruled EXCEPT ![f] = rule]
      /\ rule \in [Tag -> Ruling \cup {None}]
  BY <1>1, <1>2, AtAsset DEF Inv, EmptyTags
<1>5. Carries(p, f, n, rule, row, {})
  BY <1>1, <1>3, Facts DEF Carries, Kept, Ready, Ruling
<1>6. UNCHANGED <<unsaved, jobs, saves, backfills, batches, money, used, contested>> BY <1>1
<1> HIDE DEF row, rule
<1> QED BY <1>1, <1>2, <1>3, <1>4, <1>5, <1>6, AtHandInv

LEMMA FillTagsStep ==
  ASSUME Inv, NEW p \in People, FillTags(p) PROVE Inv'
<1>1. /\ acts[p].op = "filling"
      /\ UNCHANGED <<ai, unsaved, suggested, jobs, saves, backfills, batches, money, used, ruled, contested>>
  BY DEF FillTags, rows
<1>2. PICK f \in Asset : acts[p].file = f BY <1>1, OfAsset DEF Inv
<1>3. acts[p].names \in SUBSET Tag /\ tags[f] \in SUBSET Tag BY <1>1, OfAsset, AtAsset DEF Inv
<1>4. PICK n \in Act, set \in SUBSET Tag :
        /\ acts' = [acts EXCEPT ![p] = n] /\ ActOK(n) /\ tags' = [tags EXCEPT ![f] = set]
        /\ n = NoAct \/ (n.op = "filling" /\ n.file = f)
        /\ n.tag = None /\ n.todo = {}
  <2>1. CASE acts' = [acts EXCEPT ![p] = NoAct] /\ UNCHANGED tags
    BY <1>3, <2>1, NoActFact, AtAsset DEF Inv
  <2>2. CASE \E t \in acts[p].names : NextName(p, t) /\ tags' = [tags EXCEPT ![f] = @ \cup {t}]
    <3>1. PICK t \in acts[p].names : NextName(p, t) /\ tags' = [tags EXCEPT ![f] = @ \cup {t}]
      BY <2>2
    <3>2. t \in Tag BY <1>3
    <3>3. PICK n \in Act : /\ acts' = [acts EXCEPT ![p] = n] /\ ActOK(n)
                           /\ n = NoAct \/ (n.op = "filling" /\ n.file = f)
                           /\ n.tag = None /\ n.todo = {}
      BY <1>1, <1>2, <3>1, NextNameAct DEF Inv
    <3>4. tags' = [tags EXCEPT ![f] = tags[f] \cup {t}] /\ tags[f] \cup {t} \in SUBSET Tag
      BY <1>3, <3>1, <3>2
    <3> QED BY <3>3, <3>4
  <2> QED BY <1>2, <2>1, <2>2 DEF FillTags
<1> DEFINE row == suggested[f]
           rule == ruled[f]
<1>5. /\ suggested' = [suggested EXCEPT ![f] = row] /\ ruled' = [ruled EXCEPT ![f] = rule]
      /\ row \in Shelf /\ rule \in [Tag -> Ruling \cup {None}]
  BY <1>1, AtAsset DEF Inv
<1>6. Carries(p, f, n, rule, row, set)
  BY <1>1, <1>4, NoActFact, Facts DEF Carries, Kept, InHand, Ready, Ruling
<1>7. n.file \in {f, None} BY <1>4, NoActFact
<1>8. UNCHANGED <<unsaved, jobs, saves, backfills, batches, money, used, contested>> BY <1>1
<1> HIDE DEF row, rule
<1> QED BY <1>1, <1>2, <1>4, <1>5, <1>6, <1>7, <1>8, AtHandInv
LEMMA BulkFileStep ==
  ASSUME Inv, NEW p \in People, NEW f \in Asset, BulkFile(p, f) PROVE Inv'
<1>pick. PICK done \in SUBSET acts[p].names :
           /\ used' = used \/ Fault
           /\ tags' = [tags EXCEPT ![f] = IF acts[p].op = "tag" THEN @ \cup done ELSE @ \ done]
           /\ ruled' = [ruled EXCEPT ![f] = [t \in Tag |-> IF t \in done THEN None ELSE @[t]]]
  BY DEF BulkFile
<1> DEFINE set == IF acts[p].op = "tag" THEN tags[f] \cup done ELSE tags[f] \ done
           rule == [t \in Tag |-> IF t \in done THEN None ELSE ruled[f][t]]
           n == [acts[p] EXCEPT !.todo = @ \ {f}]
<1>1. /\ acts[p].op \in {"tag", "untag"} /\ f \in acts[p].todo
      /\ contested' = IF Saving(f) THEN contested \cup {f} ELSE contested
      /\ UNCHANGED <<ai, unsaved, suggested, jobs, saves, backfills, batches, money>>
  BY DEF BulkFile, rows
<1>used. used' \in Spending /\ used'.batches = used.batches
  BY <1>pick, FaultType DEF Inv, Types, TypeOK, Spending
<1>2. /\ acts[p] \in Act /\ ActOK(acts[p]) /\ tags[f] \in SUBSET Tag
      /\ ruled[f] \in [Tag -> Ruling \cup {None}]
  BY DEF Inv, Types, TypeOK, Act
<1>3. /\ n \in Act /\ n.op = acts[p].op /\ n.file = acts[p].file /\ n.tag = acts[p].tag
      /\ n.todo = acts[p].todo \ {f}
  BY <1>2 DEF Act
<1>4. ActOK(n) BY <1>1, <1>2, <1>3, Facts DEF ActOK, Op
<1>5. set \in SUBSET Tag /\ rule \in [Tag -> Ruling \cup {None}] BY <1>2 DEF Act
<1>6. tags' = [tags EXCEPT ![f] = set] /\ ruled' = [ruled EXCEPT ![f] = rule]
  BY <1>pick DEF Inv, Types, TypeOK
<1>7. \/ acts[p].todo = {f} /\ acts' = [acts EXCEPT ![p] = NoAct]
      \/ acts' = [acts EXCEPT ![p] = n]
  BY DEF BulkFile, Inv, Types, TypeOK
<1>8. \A t \in Tag : t \notin done => (t \in set <=> t \in tags[f])
  OBVIOUS
<1>9. \A t \in Tag : rule[t] = IF t \in done THEN None ELSE ruled[f][t]
  OBVIOUS
<1> HIDE DEF n, set, rule
<1>10. PICK m \in Act :
         /\ acts' = [acts EXCEPT ![p] = m] /\ ActOK(m) /\ m.file = None
         /\ m.todo = acts[p].todo \ {f}
         /\ m.todo # {} => m.op \in {"tag", "untag"}
  <2>1. acts[p].file = None BY <1>1, <1>2 DEF ActOK
  <2>2. CASE acts[p].todo = {f} /\ acts' = [acts EXCEPT ![p] = NoAct]
    BY <2>2, NoActFact
  <2>3. CASE acts' = [acts EXCEPT ![p] = n]
    BY <1>1, <1>3, <1>4, <2>1, <2>3
  <2> QED BY <1>7, <2>2, <2>3
<1>11. /\ acts' \in [People -> Act] /\ \A q \in People : ActOK(acts'[q])
       /\ acts'[p] = m /\ \A q \in People \ {p} : acts'[q] = acts[q]
  BY <1>10, ActChanges DEF Inv
<1>12. contested \subseteq contested' /\ contested' \subseteq Asset BY <1>1 DEF Inv, Types, TypeOK
<1>13. /\ tags' \in [Asset -> SUBSET Tag] /\ tags'[f] = set
       /\ ruled' \in [Asset -> [Tag -> Ruling \cup {None}]] /\ ruled'[f] = rule
       /\ \A g \in Asset \ {f} : tags'[g] = tags[g] /\ ruled'[g] = ruled[g]
  BY <1>5, <1>6 DEF Inv, Types, TypeOK
<1>14. Rulings'
  <2> SUFFICES ASSUME NEW g \in Asset \ contested' PROVE Orderly(g)' BY DEF Rulings
  <2>1. Orderly(g) BY <1>12 DEF Inv, Rulings
  <2>2. CASE g # f
    <3>1. p \in Acting(g)' => p \in Acting(g) /\ acts'[p].op \in {"tag", "untag"}
      BY <1>10, <1>11, Facts DEF Acting
    <3>2. p \in Acting(g) => acts[p].op \notin {"promote", "reject"} BY <1>1
    <3>3. suggested'[g] = suggested[g] /\ tags'[g] = tags[g] /\ ruled'[g] = ruled[g] /\ saves' = saves
      BY <1>1, <1>13, <2>2
    <3> QED BY <1>11, <1>12, <3>1, <3>2, <3>3, Elsewhere
  <2>3. CASE g = f
    <3>1. ~Saving(f) BY <1>1, <2>3
    <3>2. Acting(f) = {p} BY <1>1, <2>1, <2>3 DEF Orderly, Acting
    <3>3. Acting(f)' = {} BY <1>10, <1>11, <3>2, Facts DEF Acting
    <3>4. \A t \in Tag : ~HalfRuled(f, t) BY <1>1, <3>2 DEF HalfRuled, MidRuling, Acting
    <3>5. \A t \in Tag : Holds(f, t) BY <2>1, <2>3, <3>4 DEF Orderly
    <3>6. \A t \in Tag : Holds(f, t)'
      <4> SUFFICES ASSUME NEW t \in Tag PROVE Holds(f, t)' OBVIOUS
      <4>1. CASE t \in done BY <1>9, <1>13, <4>1, Facts DEF Holds, Kept, Ruling
      <4>2. CASE t \notin done
        BY <1>1, <1>8, <1>9, <1>13, <3>5, <4>2 DEF Holds, Kept
      <4> QED BY <4>1, <4>2
    <3> QED BY <2>3, <3>3, <3>6 DEF Orderly
  <2> QED BY <2>2, <2>3
<1>15. /\ ai' \in [Asset -> Status \cup {None}] /\ \A g \in Asset : ai[g] # None => ai'[g] # None
       /\ suggested' \in [Asset -> Shelf]
  BY <1>1 DEF Inv, Types, TypeOK, Shelf
<1> QED BY <1>1, <1>used, <1>11, <1>12, <1>13, <1>14, <1>15, PersonTouches

LEMMA RequestFailsStep ==
  ASSUME Inv, NEW p \in People, RequestFails(p) PROVE Inv'
<1>1. /\ Fault /\ acts[p].op \notin {None, "tag", "untag"}
      /\ acts' = [acts EXCEPT ![p] = NoAct] /\ contested' = contested \cup {acts[p].file}
      /\ UNCHANGED <<ai, unsaved, suggested, tags, jobs, saves, backfills, batches, money, ruled>>
  BY DEF RequestFails, store, rows
<1>2. used' \in Spending /\ used'.batches = used.batches BY <1>1, FaultType DEF Inv
<1>3. acts[p].file \in Asset /\ acts[p].todo = {}
  <2>1. acts[p] \in Act /\ ActOK(acts[p]) BY DEF Inv, Types, TypeOK, Act
  <2> QED BY <1>1, <2>1 DEF Act, ActOK, Op
<1>4. /\ acts' \in [People -> Act] /\ \A q \in People : ActOK(acts'[q])
      /\ acts'[p] = NoAct /\ \A q \in People \ {p} : acts'[q] = acts[q]
  BY <1>1, NoActFact, ActChanges DEF Inv
<1>5. contested \subseteq contested' /\ contested' \subseteq Asset
  BY <1>1, <1>3 DEF Inv, Types, TypeOK
<1>6. Rulings'
  <2> SUFFICES ASSUME NEW f \in Asset \ contested' PROVE Orderly(f)' BY DEF Rulings
  <2>1. p \notin Acting(f) BY <1>1, <1>3 DEF Acting
  <2>2. p \notin Acting(f)' BY <1>4, NoActFact, Facts DEF Acting
  <2>3. suggested'[f] = suggested[f] /\ tags'[f] = tags[f] /\ ruled'[f] = ruled[f] /\ saves' = saves
    BY <1>1
  <2> QED BY <1>4, <1>5, <2>1, <2>2, <2>3, Elsewhere
<1>7. /\ ai' \in [Asset -> Status \cup {None}] /\ \A g \in Asset : ai[g] # None => ai'[g] # None
      /\ suggested' \in [Asset -> Shelf] /\ tags' \in [Asset -> SUBSET Tag]
      /\ ruled' \in [Asset -> [Tag -> Ruling \cup {None}]]
  BY <1>1 DEF Inv, Types, TypeOK, Shelf
<1> QED BY <1>1, <1>2, <1>4, <1>5, <1>6, <1>7, PersonTouches

-----------------------------------------------------------------------------
(* A crash.                                                                *)

LEMMA CrashStep ==
  ASSUME Inv, Crash PROVE Inv'
<1>1. /\ Fault /\ lost' = lost + Cost(Owing) /\ saves' = {}
      /\ jobs' = [f \in Asset |-> IF jobs[f] = "none" THEN "none" ELSE "queued"]
      /\ backfills' = [w \in Backfills |->
           IF backfills[w].step = "idle" THEN backfills[w]
           ELSE [step |-> "queued", files |-> {}, batch |-> None]]
      /\ batches' = [b \in Batch |->
           IF batches[b].poll = "running" THEN [batches[b] EXCEPT !.poll = "queued", !.todo = {}]
           ELSE batches[b]]
      /\ acts' = [p \in People |-> IF acts[p].op \in {"tag", "untag"} THEN acts[p] ELSE NoAct]
      /\ contested' = contested \cup {f \in Asset : Acting(f) # {}}
      /\ UNCHANGED <<ai, unsaved, suggested, tags, recorded, billed, blind, ruled>>
  BY DEF Crash, store, rows, Cost, Owing
<1>2. used' \in Spending /\ used'.batches = used.batches BY <1>1, FaultType DEF Inv
<1>3. jobs' \in [Asset -> States] /\ \A f \in Asset : jobs'[f] \in {"none", "queued"}
  BY <1>1 DEF States
<1>4. backfills' \in [Backfills -> Backfill] /\ \A w \in Backfills : backfills'[w].step # "submitted"
  <2>1. [step |-> "queued", files |-> {}, batch |-> None] \in Backfill BY DEF Backfill
  <2>2. \A w \in Backfills : backfills[w] \in Backfill BY DEF Inv, Types, TypeOK, Backfill
  <2> QED BY <1>1, <2>1, <2>2
<1>5. /\ batches' \in [Batch -> BatchRow]
      /\ \A b \in Batch :
           \/ batches'[b] = batches[b] /\ batches[b].poll # "running"
           \/ /\ batches[b].poll = "running" /\ batches'[b].poll = "queued"
              /\ batches'[b].st = batches[b].st
              /\ batches'[b].files = batches[b].files /\ batches'[b].items = batches[b].items
  <2> SUFFICES ASSUME NEW b \in Batch
               PROVE  /\ batches'[b] \in BatchRow
                      /\ \/ batches'[b] = batches[b] /\ batches[b].poll # "running"
                         \/ /\ batches[b].poll = "running" /\ batches'[b].poll = "queued"
                            /\ batches'[b].st = batches[b].st
                            /\ batches'[b].files = batches[b].files
                            /\ batches'[b].items = batches[b].items
    BY <1>1
  <2>1. batches[b] \in BatchRow BY DEF Inv, Types, TypeOK, BatchRow
  <2>2. CASE batches[b].poll = "running"
    <3>1. batches'[b] = [batches[b] EXCEPT !.poll = "queued", !.todo = {}] BY <1>1, <2>2
    <3> QED BY <2>1, <2>2, <3>1 DEF BatchRow
  <2>3. CASE batches[b].poll # "running" BY <1>1, <2>1, <2>3
  <2> QED BY <2>2, <2>3
<1>6. /\ acts' \in [People -> Act] /\ \A p \in People : ActOK(acts'[p])
      /\ \A f \in Asset : Acting(f)' \subseteq Acting(f)
  <2>1. \A p \in People : acts[p] \in Act /\ ActOK(acts[p]) BY DEF Inv, Types, TypeOK, Act
  <2>2. \A p \in People : acts'[p] = acts[p] \/ acts'[p] = NoAct BY <1>1
  <2>3. acts' \in [People -> Act] BY <1>1, <2>1, NoActFact
  <2>4. \A p \in People : ActOK(acts'[p]) BY <2>1, <2>2, NoActFact
  <2>5. \A f \in Asset : Acting(f)' \subseteq Acting(f) BY <2>2, NoActFact, Facts DEF Acting
  <2> QED BY <2>3, <2>4, <2>5
<1>7. Owing \in SUBSET Asset /\ Calling \in SUBSET Asset BY DEF Owing, Calling
<1>8. Cost(Owing) \in Nat /\ Cost(Calling) \in Nat /\ Cost({}) = 0 /\ Cost(Asset) \in Nat
  BY <1>7, CostNat
<1>9. contested' \subseteq Asset /\ lost' \in Nat
  <2>1. contested \subseteq Asset /\ lost \in Nat BY DEF Inv, Types, TypeOK
  <2>2. lost' = lost + Cost(Owing) /\ Cost(Owing) \in Nat BY <1>1, <1>8
  <2>3. \A m, n \in Nat : m + n \in Nat OBVIOUS
  <2> QED BY <1>1, <2>1, <2>2, <2>3
<1>10. Types'
  BY <1>1, <1>2, <1>3, <1>4, <1>5, <1>6, <1>9
     DEF Inv, Types, TypeOK, States, Backfill, BatchRow, Act, Spending
<1>11. Money'
  <2>1. Calling' = {} /\ Owing' = {} BY <1>3 DEF Calling, Owing
  <2>2. /\ Cost(Calling)' = Cost({}) /\ Cost(Owing)' = Cost({}) /\ Cost(Asset)' = Cost(Asset)
    BY <2>1 DEF Cost
  <2>3. /\ recorded \in Nat /\ billed \in Nat /\ lost \in Nat
        /\ billed <= recorded + lost + Cost(Owing)
        /\ billed + Cost(Calling) <= (Budget - 1) + lost + Cost(Asset) + Live * blind
        /\ blind' = blind /\ blind \in Nat
    BY <1>1 DEF Inv, Types, TypeOK, Money
  <2>4. recorded' = recorded /\ billed' = billed /\ lost' = lost + Cost(Owing) BY <1>1
  <2>5. Live * blind \in Nat BY <2>3, Facts
  <2> QED BY <1>8, <2>2, <2>3, <2>4, <2>5, Facts DEF Money
<1>12. Lives' BY <1>1 DEF Lives, Lone
<1>13. Batches'
  <2>1. ASSUME NEW b \in Batch PROVE Read(b)'
    <3>1. Read(b) BY DEF Inv, Batches
    <3>2. CASE batches'[b] = batches[b] /\ batches[b].poll # "running"
      BY <1>1, <1>2, <3>1, <3>2 DEF Read, Settled
    <3>3. CASE /\ batches[b].poll = "running" /\ batches'[b].poll = "queued"
               /\ batches'[b].st = batches[b].st
               /\ batches'[b].files = batches[b].files /\ batches'[b].items = batches[b].items
      <4>1. ~(b > used'.batches) BY <1>2, <3>1, <3>3 DEF Read, NoBatch
      <4> QED BY <1>1, <3>1, <3>3, <4>1 DEF Read, Settled
    <3> QED BY <1>5, <3>2, <3>3
  <2> QED BY <1>4, <2>1 DEF Batches
<1>14. Rulings'
  <2> SUFFICES ASSUME NEW f \in Asset \ contested' PROVE Orderly(f)' BY DEF Rulings
  <2>1. Orderly(f) /\ Acting(f) = {} BY <1>1 DEF Inv, Rulings
  <2>2. Acting(f)' = {} BY <1>6, <2>1
  <2>3. \A t \in Tag : ~HalfRuled(f, t) BY <2>1 DEF HalfRuled, Acting
  <2>4. \A t \in Tag : Holds(f, t)' BY <1>1, <2>1, <2>3 DEF Orderly, Holds
  <2> QED BY <2>2, <2>4 DEF Orderly
<1> QED BY <1>10, <1>11, <1>12, <1>13, <1>14 DEF Inv
-----------------------------------------------------------------------------
(* The theorems.                                                           *)

LEMMA InitInv == Init => Inv
<1> SUFFICES ASSUME Init PROVE Inv OBVIOUS
<1>1. Types
  <2>1. \A p \in People : acts[p] = NoAct BY DEF Init
  <2>2. /\ NoBatch \in BatchRow
        /\ [step |-> "idle", files |-> {}, batch |-> None] \in Backfill
        /\ [batches |-> 0, runs |-> 0, acts |-> 0, faults |-> 0] \in Spending
    BY Facts DEF NoBatch, BatchRow, Backfill, Spending
  <2>3. /\ acts \in [People -> Act] /\ batches \in [Batch -> BatchRow]
        /\ backfills \in [Backfills -> Backfill] /\ used \in Spending
    BY <2>2, NoActFact DEF Init
  <2>4. TypeOK BY <2>3 DEF Init, TypeOK, Act, BatchRow, Backfill, Spending
  <2> QED BY <2>1, <2>4, NoActFact DEF Types
<1>2. Money
  <2>1. Owing = {} /\ Calling = {} BY DEF Init, Owing, Calling
  <2>2. Cost({}) = 0 /\ Cost(Asset) \in Nat BY CostNat
  <2>3. blind = 0 /\ Live * 0 = 0 BY Facts DEF Init
  <2> QED BY <2>1, <2>2, <2>3, Facts DEF Init, Money
<1>3. Lives BY DEF Init, Lives, Lone
<1>4. Batches
  <2>1. \A b \in Batch : Read(b) BY DEF Init, Read, NoBatch
  <2>2. \A w \in Backfills : backfills[w].step # "submitted" BY DEF Init
  <2> QED BY <2>1, <2>2 DEF Batches
<1>5. Rulings
  <2> SUFFICES ASSUME NEW f \in Asset PROVE Orderly(f) BY DEF Rulings
  <2>1. Acting(f) = {}
    <3>1. \A p \in People : acts[p] = NoAct BY DEF Init
    <3> QED BY <3>1, NoActFact, Facts DEF Acting
  <2>2. \A t \in Tag : Holds(f, t) BY Facts DEF Init, Holds, Kept, Ruling
  <2> QED BY <2>1, <2>2 DEF Orderly
<1> QED BY <1>1, <1>2, <1>3, <1>4, <1>5 DEF Inv

LEMMA StepInv == Inv /\ [Next]_vars => Inv'
<1> SUFFICES ASSUME Inv, [Next]_vars PROVE Inv' OBVIOUS
<1>1. ASSUME NEW f \in Asset, EnrichStep(f) PROVE Inv'
  BY <1>1, RequestEnrichStep, StartEnrichStep, CallStep, RecordCallStep, EndRefusedStep DEF EnrichStep
<1>2. ASSUME NEW s \in saves, SaveStep(s) PROVE Inv'
  BY <1>2, SaveRowStep, ReplaceStep, InsertTagStep, SaveFailsStep DEF SaveStep
<1>3. ASSUME NEW w \in Backfills, BackfillStep(w) PROVE Inv'
  BY <1>3, StartBackfillStep, SelectStep, SubmitStep, StoreItemStep, QueuePollStep, BackfillFailsStep
     DEF BackfillStep
<1>4. ASSUME NEW b \in Batch, BatchStep(b) PROVE Inv'
  BY <1>4, BatchEndsStep, PollStep, IngestedStep, IngestResultStep, PollFailsStep DEF BatchStep
<1>5. ASSUME NEW p \in People, PersonStep(p) PROVE Inv'
  BY <1>5, ReviewStep, DismissStep, SetFileTagsStep, BulkStep, PromoteStep, RejectStep, CloseRowStep,
     CloseTagsStep, EmptyTagsStep, FillTagsStep, BulkFileStep, RequestFailsStep
     DEF PersonStep
<1>6. CASE UNCHANGED vars
  <2>1. UNCHANGED <<ai, unsaved, suggested, tags, jobs, saves, backfills, batches, acts, recorded, billed,
                    lost, blind, used, ruled, contested>>
    BY <1>6 DEF vars, store, rows, money
  <2>2. Types' BY <2>1 DEF Inv, Types, TypeOK
  <2>3. Money' BY <2>1, StillMoney DEF Inv
  <2>4. Lives' BY <2>1, StillLives DEF Inv
  <2>5. Batches' BY <2>1, StillBatches, StillSettled DEF Inv, Upserting
  <2>6. Rulings' BY <2>1, StillRulings DEF Inv, Saving
  <2> QED BY <2>2, <2>3, <2>4, <2>5, <2>6 DEF Inv
<1> QED BY <1>1, <1>2, <1>3, <1>4, <1>5, <1>6, CrashStep DEF Next

THEOREM Invariance == Spec => []Inv
BY InitInv, StepInv, PTL DEF Spec

\* The variables have their types (the rows of file_ai, file_tags and the rest).
THEOREM TypeCorrect == Spec => []TypeOK
<1>1. Inv => TypeOK BY DEF Inv, Types
<1> QED BY <1>1, Invariance, PTL

\* A ruling of a person outlives every later enrichment (aistore.js save, which
\* replaces open suggestions only and inserts with IGNORE).
THEOREM RulingsAreKept == Spec => []RulingsKept
<1>1. Inv => RulingsKept
  <2> SUFFICES ASSUME Inv, NEW f \in Asset \ contested, NEW t \in Tag, Acting(f) = {}
               PROVE  /\ ruled[f][t] = "rejected" => suggested[f][t] = "rejected" /\ t \notin tags[f]
                      /\ ruled[f][t] = "promoted" => suggested[f][t] = "promoted" /\ t \in tags[f]
    BY DEF RulingsKept
  <2>1. ~HalfRuled(f, t) BY DEF HalfRuled, Acting
  <2>2. Holds(f, t) BY <2>1 DEF Inv, Rulings, Orderly
  <2> QED BY <2>2 DEF Holds, Kept
<1> QED BY <1>1, Invariance, PTL

\* What live calls cost stays below the ceiling and one call for each asset beyond
\* it, plus what two failures let by: a cost that could not be recorded, and a
\* call for each read of the spending that failed past the ceiling, which counts
\* as nothing spent (ai.js budgetCheck, monthlySpend and record).
THEOREM BudgetHolds == Spec => []WithinBudget
<1>1. Inv => WithinBudget
  <2> SUFFICES ASSUME Inv PROVE WithinBudget OBVIOUS
  <2>1. /\ billed \in Nat /\ billed + Cost(Calling) <= (Budget - 1) + lost + Cost(Asset) + Live * blind
        /\ lost \in Nat /\ Live * blind \in Nat
    BY Facts DEF Inv, Types, TypeOK, Money
  <2>2. Cost(Calling) \in Nat /\ Cost(Asset) \in Nat BY CostNat DEF Calling
  <2>3. billed <= (Budget - 1) + Cost(Asset) + lost + Live * blind BY <2>1, <2>2, Facts
  <2> QED BY <2>3 DEF WithinBudget, Cost
<1> QED BY <1>1, Invariance, PTL

\* A batch that counts as ingested left a row for each of its assets, other than
\* those whose failure saveFailure() tried to save and could not (jobtypes.js
\* ingestBatch, aistore.js saveFailure).
THEOREM IngestedIsSaved == Spec => []IngestedMeansSaved
<1>1. Inv => IngestedMeansSaved BY DEF Inv, Batches, Read, Settled, IngestedMeansSaved
<1> QED BY <1>1, Invariance, PTL

\* Only the selection of a backfill makes it choose.
LEMMA OnlySelectChooses ==
  ASSUME Inv, [Next]_vars, NEW w \in Backfills,
         backfills'[w].step = "selected", backfills[w].step # "selected"
  PROVE  Select(w)
<1>1. backfills' # backfills OBVIOUS
<1>2. PICK x \in Backfills : BackfillStep(x) \/ Crash
  <2>1. \A f \in Asset : EnrichStep(f) => backfills' = backfills
    BY DEF EnrichStep, RequestEnrich, StartEnrich, Call, RecordCall, EndRefused
  <2>2. \A s \in saves : SaveStep(s) => backfills' = backfills
    BY DEF SaveStep, SaveRow, Replace, InsertTag, SaveFails
  <2>3. \A b \in Batch : BatchStep(b) => backfills' = backfills
    BY DEF BatchStep, BatchEnds, Poll, Ingested, IngestResult, PollFails
  <2>4. \A p \in People : PersonStep(p) => backfills' = backfills
    BY DEF PersonStep, Review, Dismiss, SetFileTags, Bulk, Promote, Reject, CloseRow, CloseTags,
           EmptyTags, FillTags, BulkFile, RequestFails
  <2>5. UNCHANGED vars => backfills' = backfills BY DEF vars
  <2> QED BY <1>1, <2>1, <2>2, <2>3, <2>4, <2>5 DEF Next
<1>3. ~Crash
  <2> SUFFICES ASSUME Crash PROVE FALSE OBVIOUS
  <2>1. backfills' = [y \in Backfills |->
          IF backfills[y].step = "idle" THEN backfills[y]
          ELSE [step |-> "queued", files |-> {}, batch |-> None]]
    BY DEF Crash
  <2> QED BY <2>1
<1>4. \A y \in Backfills : backfills[y] \in Backfill BY DEF Inv, Types, TypeOK, Backfill
<1>5. /\ backfills[w].step # "selected" /\ backfills'[w].step = "selected"
      /\ backfills[x] \in Backfill /\ backfills[w] \in Backfill
  BY <1>4
<1>6. ~StartBackfill(x)
  <2> SUFFICES ASSUME StartBackfill(x) PROVE FALSE OBVIOUS
  <2>1. backfills' = [backfills EXCEPT ![x].step = "queued"] BY DEF StartBackfill
  <2> QED BY <1>5, <2>1 DEF Backfill, Inv, Types, TypeOK
<1>7. ~Submit(x)
  <2> SUFFICES ASSUME Submit(x) PROVE FALSE OBVIOUS
  <2>1. \/ backfills' = [backfills EXCEPT ![x] = [backfills[x] EXCEPT !.step = "submitted",
                                                                    !.batch = used.batches + 1]]
        \/ backfills' = [backfills EXCEPT ![x] = [backfills[x] EXCEPT !.step = "idle", !.files = {}]]
    BY DEF Submit
  <2>2. /\ [backfills[x] EXCEPT !.step = "submitted", !.batch = used.batches + 1].step = "submitted"
        /\ [backfills[x] EXCEPT !.step = "idle", !.files = {}].step = "idle"
    BY <1>5 DEF Backfill
  <2>3. backfills'[w].step \in {backfills[w].step, "submitted", "idle"}
    BY <2>1, <2>2 DEF Inv, Types, TypeOK
  <2> QED BY <1>5, <2>3
<1>8. ~StoreItem(x)
  <2> SUFFICES ASSUME StoreItem(x) PROVE FALSE OBVIOUS
  <2>1. PICK f : backfills' = [backfills EXCEPT ![x] = [backfills[x] EXCEPT !.files = @ \ {f}]]
    BY DEF StoreItem
  <2>2. [backfills[x] EXCEPT !.files = @ \ {f}].step = backfills[x].step BY <1>5 DEF Backfill
  <2>3. backfills'[w].step = backfills[w].step BY <2>1, <2>2 DEF Inv, Types, TypeOK
  <2> QED BY <1>5, <2>3
<1>9. ~QueuePoll(x)
  <2> SUFFICES ASSUME QueuePoll(x) PROVE FALSE OBVIOUS
  <2>1. backfills' = [backfills EXCEPT ![x] = [backfills[x] EXCEPT !.step = "idle", !.batch = None]]
    BY DEF QueuePoll
  <2> QED BY <1>5, <2>1 DEF Backfill, Inv, Types, TypeOK
<1>fails. ~BackfillFails(x)
  <2> SUFFICES ASSUME BackfillFails(x) PROVE FALSE OBVIOUS
  <2>1. backfills' = [backfills EXCEPT ![x] = [step |-> "queued", files |-> {}, batch |-> None]]
    BY DEF BackfillFails
  <2> QED BY <1>5, <2>1 DEF Inv, Types, TypeOK
<1>10. Select(x) BY <1>2, <1>3, <1>6, <1>7, <1>8, <1>9, <1>fails DEF BackfillStep
<1>11. x = w
  <2> SUFFICES ASSUME x # w PROVE FALSE OBVIOUS
  <2>1. backfills'[w] = backfills[w]
    BY <1>10 DEF Select, Inv, Types, TypeOK
  <2> QED BY <1>5, <2>1
<1> QED BY <1>10, <1>11

\* A backfill chooses no asset of a batch that was ingested (jobtypes.js:233),
\* other than those whose failure could not be saved.
THEOREM PaidForOnce == Spec => PaidOnce
<1>1. Inv /\ [Next]_vars =>
        [\A w \in Backfills, b \in Batch :
           backfills'[w].step = "selected" /\ backfills[w].step # "selected" /\ batches[b].st = "ingested"
             => \A f \in backfills'[w].files \cap batches[b].files : <<b, f>> \in unsaved]_vars
  <2> SUFFICES ASSUME Inv, [Next]_vars, NEW w \in Backfills, NEW b \in Batch,
                      backfills'[w].step = "selected", backfills[w].step # "selected",
                      batches[b].st = "ingested"
               PROVE  \A f \in backfills'[w].files \cap batches[b].files : <<b, f>> \in unsaved
    OBVIOUS
  <2>1. Select(w) BY OnlySelectChooses
  <2>2. backfills'[w].files \subseteq Unenriched
    BY <2>1 DEF Select, Inv, Types, TypeOK
  <2>3. \A f \in batches[b].files : Settled(b, f) BY DEF Inv, Batches, Read
  <2> QED BY <2>2, <2>3 DEF Unenriched, Settled
<1> QED BY <1>1, Invariance, PTL DEF Spec, PaidOnce
=============================================================================
