------------------------- MODULE MasterStoreProofs -------------------------
(* MasterStore, for every number of volumes, requests, uploads, versions and *)
(* faults: its types; that the bytes of a listed version stay what they are, *)
(* if no two requests retain at once; that a master never has a second copy, *)
(* if no two place it at once; and that where the operations overlap only as *)
(* Safe lets them nothing is lost, retention is kept, and what is in the     *)
(* trash is not served.                                                      *)
EXTENDS MasterStore, FiniteSetTheorems, TLAPS

-----------------------------------------------------------------------------
(* Facts about the constants, and about least and greatest numbers.         *)

LEMMA Facts ==
  /\ NumVolumes \in Nat /\ NumVolumes > 0 /\ 1 \in Volumes /\ Volumes \subseteq Nat
  /\ MaxUploads \in Nat /\ 1 \in Uploads /\ MaxVersionNo \in Nat /\ Numbers \subseteq Nat
  /\ MaxFaults \in Nat /\ MaxAborts \in Nat /\ RetainCount \in Nat /\ RetainCount > 0
  /\ None \notin Volumes /\ None \notin Uploads /\ None \notin Numbers
BY MasterAssumption DEF Volumes, Uploads, Numbers

LEMMA Least ==
  ASSUME NEW S \in SUBSET Nat, S # {}
  PROVE  Min(S) \in S /\ \A y \in S : Min(S) <= y
<1> DEFINE R == OpToRel(<, Nat)
<1>1. IsWellFoundedOn(R, Nat) BY NatLessThanWellFounded
<1>2. \A x, y \in Nat : y < x => <<y, x>> \in R BY DEF OpToRel
<1> HIDE DEF R
<1>3. PICK x \in S : \A y \in S : <<y, x>> \notin R BY <1>1, WFMin
<1>4. \A y \in S : x <= y
  <2> SUFFICES ASSUME NEW y \in S, ~(x <= y) PROVE FALSE OBVIOUS
  <2>1. x \in Nat /\ y \in Nat /\ y < x OBVIOUS
  <2> QED BY <1>2, <1>3, <2>1
<1> QED BY <1>4 DEF Min

LEMMA Greatest ==
  ASSUME NEW S \in SUBSET Numbers, S # {}
  PROVE  Max(S) \in S /\ \A y \in S : y <= Max(S)
<1> DEFINE T == {n \in Nat : \A x \in S : x <= n}
<1>1. S \subseteq Nat /\ MaxVersionNo \in T BY Facts DEF Numbers
<1>2. PICK m \in T : \A n \in T : m <= n
  <2>1. T \in SUBSET Nat /\ T # {} BY <1>1
  <2> QED BY <2>1, Least
<1>3. m \in S
  <2> SUFFICES ASSUME m \notin S PROVE FALSE OBVIOUS
  <2>1. \A x \in S : x \in Nat /\ x < m BY <1>1
  <2>2. PICK x \in S : TRUE OBVIOUS
  <2>3. m - 1 \in Nat /\ \A y \in S : y <= m - 1 BY <2>1, <2>2
  <2>4. m - 1 \in T BY <2>3
  <2> QED BY <1>2, <2>4
<1>4. \A y \in S : y <= m OBVIOUS
<1> QED BY <1>1, <1>3, <1>4 DEF Max

-----------------------------------------------------------------------------
(* Types, and what each step of a request relies on.                       *)

\* Operations that put bytes on a volume they have chosen beforehand.
Placing == {"put", "replica", "undelete", "revert"}

\* The operations a step belongs to.
Course(s, op) ==
  /\ s \in {"look", "number", "shelve", "insert", "trim"} => op \in {"put", "revert"}
  /\ s \in {"open", "stream", "check", "record"} => op \in {"put", "replica"}
  /\ s = "copy" => op = "revert"
  /\ s = "move" => op = "undelete"
  /\ s = "revive" => op \in {"undelete", "revert"}
  /\ s \in {"bin", "unrecord"} => op \in Deleting
  /\ s \in {"empty", "unrow"} => op \in {"purge", "empty"}
  /\ s = "undrop" => op = "drop"

\* A request knows the volume it works on, its upload or the version it brings
\* back, the copy it retains, the number it gives it and the file it writes.
Fields(r) ==
  /\ r.op \in Placing \cup Deleting => r.vol \in Volumes
  /\ r.op \in Uploading => r.up \in Uploads
  /\ r.op = "revert" => r.want \in Numbers
  /\ r.step \in {"number", "shelve"} => r.src \in Volumes
  /\ r.step \in {"shelve", "insert"} => r.no \in Numbers
  /\ r.step = "stream" => r.file \in Uploads

Fitting == {r \in Request : Course(r.step, r.op) /\ Fields(r)}

Whole == reqs \in [Actors -> Fitting]

\* TypeOK, but for the requests.
Spending == [uploads : 0 .. MaxUploads, faults : 0 .. MaxFaults, aborts : 0 .. MaxAborts]
Shapes ==
  /\ disk \in [Volumes -> Bytes] /\ part \in [Volumes -> Bytes]
  /\ mixed \subseteq Uploads /\ trash \in Bytes
  /\ store \in [Numbers -> Bytes] /\ kept \subseteq Numbers
  /\ row \in Row /\ used \in Spending
  /\ landed \subseteq Uploads /\ gone \subseteq Uploads

\* Requests that are under way together may be.
Paired == \A a, b \in Actors :
  a # b /\ ~ At(a, "idle") /\ ~ At(b, "idle") => {reqs[a].op, reqs[b].op} \in Together

Typed == Shapes /\ Whole /\ Paired

LEMMA FoundThere ==
  /\ Found \in Volumes \cup {None}
  /\ Holding # {} => Found \in Holding
  /\ Found # None => Found \in Holding
<1>1. CASE Holding = {} BY <1>1 DEF Found
<1>2. CASE Holding # {}
  <2>1. Holding \in SUBSET Nat BY Facts DEF Holding
  <2>2. Min(Holding) \in Holding BY <1>2, <2>1, Least
  <2> QED BY <1>2, <2>2, Facts DEF Found, Holding
<1> QED BY <1>1, <1>2

LEMMA PlacesAreVolumes == Places \subseteq Volumes
BY DEF Places, Writable

-----------------------------------------------------------------------------
(* What a step of a makes of the requests.                                 *)

\* Requests other than a's stay as they are, but for the version they want,
\* which is no longer theirs to delete once it is listed anew.
Alone(a) == \A b \in Actors \ {a} :
  /\ reqs'[b].op = reqs[b].op /\ reqs'[b].step = reqs[b].step /\ reqs'[b].vol = reqs[b].vol
  /\ reqs'[b].src = reqs[b].src /\ reqs'[b].no = reqs[b].no /\ reqs'[b].id = reqs[b].id
  /\ \/ reqs'[b].want = reqs[b].want
     \/ /\ At(a, "insert") /\ At(b, "undrop") /\ reqs[b].want = reqs[a].no
        /\ reqs'[b].want = None

Same(r, s) == /\ s.op = r.op /\ s.vol = r.vol /\ s.src = r.src /\ s.no = r.no
              /\ s.id = r.id /\ s.want = r.want /\ s.up = r.up

LEMMA Sets ==
  ASSUME Whole, NEW a \in Actors, NEW r \in Fitting, reqs' = [reqs EXCEPT ![a] = r]
  PROVE  Whole' /\ reqs'[a] = r /\ Alone(a)
BY DEF Whole, Alone

LEMMA Resting == Rest \in Fitting /\ Rest \in Request /\ Rest.step = "idle" /\ Rest.op = None
<1>1. Rest \in Request BY DEF Rest, Request, Steps, Bytes
<1>2. None \notin OpNames BY MasterAssumption
<1> QED BY <1>1, <1>2 DEF Rest, Fitting, Course, Fields, OpNames, Placing, Deleting, Uploading
LEMMA Ends ==
  ASSUME Whole, NEW a \in Actors, End(a)
  PROVE  Whole' /\ reqs'[a].step = "idle" /\ reqs'[a].op = None /\ Alone(a)
<1>1. PICK r \in Fitting : r = Rest BY Resting
<1> QED BY <1>1, Resting, Sets DEF End

\* A request goes on to a step that relies on nothing new.
LEMMA Goes ==
  ASSUME Whole, NEW a \in Actors, NEW s \in Steps, Goto(a, s), Course(s, reqs[a].op),
         s \notin {"number", "shelve", "stream"}, s = "insert" => reqs[a].step = "shelve"
  PROVE  Whole' /\ Alone(a) /\ reqs'[a].step = s /\ Same(reqs[a], reqs'[a])
<1>1. reqs[a] \in Fitting /\ reqs[a] \in Request BY DEF Whole, Fitting
<1>2. PICK r \in Request : r = [reqs[a] EXCEPT !.step = s] BY <1>1 DEF Request
<1>3. r.step = s /\ Same(reqs[a], r) BY <1>1, <1>2 DEF Request, Same
<1>4. Course(r.step, r.op) BY <1>3 DEF Same
<1>5. Fields(r)
  <2>1. Fields(reqs[a]) BY <1>1 DEF Fitting
  <2>2. s = "insert" => r.no \in Numbers BY <1>3, <2>1 DEF Fields, Same
  <2> QED BY <1>3, <2>1, <2>2 DEF Fields, Same
<1>6. r \in Fitting BY <1>2, <1>4, <1>5 DEF Fitting
<1>7. reqs' = [reqs EXCEPT ![a] = r] BY <1>2 DEF Goto
<1> QED BY <1>3, <1>6, <1>7, Sets

\* Whatever retain() came to, the put or the restore of a version goes on.
LEMMA Resumes ==
  ASSUME Whole, NEW a \in Actors, Goto(a, AfterRetain(a)), reqs[a].op \in {"put", "revert"}
  PROVE  /\ Whole' /\ Alone(a) /\ Same(reqs[a], reqs'[a])
         /\ reqs'[a].step = IF reqs[a].op = "put" THEN "open" ELSE "copy"
<1>1. PICK s \in {"open", "copy"} : s = AfterRetain(a) BY DEF AfterRetain
<1>2. s = IF reqs[a].op = "put" THEN "open" ELSE "copy" BY <1>1 DEF AfterRetain, Is
<1>3. s \in Steps /\ Course(s, reqs[a].op) BY <1>2 DEF Steps, Course
<1> QED BY <1>1, <1>2, <1>3, Goes

\* The steps of a request that change more of it than the step it is at.
LEMMA LookReqs ==
  ASSUME Whole, NEW a \in Actors, Look(a)
  PROVE  /\ Whole' /\ Alone(a) /\ reqs'[a].op = reqs[a].op /\ reqs'[a].vol = reqs[a].vol
         /\ reqs'[a].src = Found /\ reqs[a].op \in {"put", "revert"}
         /\ IF Found = None THEN reqs'[a].step = IF reqs[a].op = "put" THEN "open" ELSE "copy"
            ELSE reqs'[a].step = "number"
<1>1. reqs[a] \in Fitting /\ reqs[a] \in Request BY DEF Whole, Fitting
<1>2. reqs[a].op \in {"put", "revert"} BY <1>1 DEF Look, At, Fitting, Course
<1>3. PICK s \in {"open", "copy", "number"} :
        /\ s = IF Found = None THEN AfterRetain(a) ELSE "number"
        /\ reqs' = [reqs EXCEPT ![a].src = Found, ![a].step = s]
  BY DEF Look, AfterRetain
<1>4. PICK f \in Volumes \cup {None} : f = Found BY FoundThere
<1>5. PICK r \in Request : r = [reqs[a] EXCEPT !.src = f, !.step = s]
  BY <1>1 DEF Request, Steps
<1>6. /\ r.step = s /\ r.src = f /\ r.op = reqs[a].op /\ r.vol = reqs[a].vol
      /\ r.up = reqs[a].up /\ r.want = reqs[a].want
  BY <1>1, <1>5 DEF Request
<1>7. Course(s, r.op) BY <1>2, <1>3, <1>6 DEF Course, AfterRetain, Is
<1>8. s = "number" => f \in Volumes BY <1>3, <1>4 DEF AfterRetain
<1>9. Fields(r)
  <2>1. Fields(reqs[a]) BY <1>1 DEF Fitting
  <2> QED BY <1>6, <1>8, <2>1 DEF Fields
<1>10. r \in Fitting BY <1>6, <1>7, <1>9 DEF Fitting
<1>11. reqs' = [reqs EXCEPT ![a] = r] BY <1>3, <1>4, <1>5
<1>12. Whole' /\ reqs'[a] = r /\ Alone(a) BY <1>10, <1>11, Sets
<1> QED BY <1>2, <1>3, <1>4, <1>6, <1>12 DEF AfterRetain, Is

LEMMA NumberReqs ==
  ASSUME Shapes, Whole, NEW a \in Actors, Number(a)
  PROVE  /\ Whole' /\ Alone(a) /\ reqs'[a].op = reqs[a].op /\ reqs'[a].vol = reqs[a].vol
         /\ reqs'[a].src = reqs[a].src /\ reqs[a].op \in {"put", "revert"}
         /\ \/ /\ reqs'[a].step = "shelve" /\ reqs'[a].no \notin kept /\ reqs'[a].id = row.id
            \/ /\ reqs'[a].step = IF reqs[a].op = "put" THEN "open" ELSE "copy"
               /\ disk[reqs[a].src] = None \/ row.status = "absent" \/ Fault
<1>1. reqs[a] \in Fitting /\ reqs[a] \in Request BY DEF Whole, Fitting
<1>2. reqs[a].op \in {"put", "revert"} /\ reqs[a].src \in Volumes
  BY <1>1 DEF Number, At, Fitting, Course, Fields
<1>3. CASE Goto(a, AfterRetain(a)) /\ (disk[reqs[a].src] = None \/ row.status = "absent" \/ Fault)
  BY <1>2, <1>3, Resumes DEF Same
<1>4. CASE ~ (Goto(a, AfterRetain(a)) /\ (disk[reqs[a].src] = None \/ row.status = "absent" \/ Fault))
  <2>1. PICK n \in Numbers, i \in Bytes :
          /\ n = IF kept = {} THEN 1 ELSE Max(kept) + 1
          /\ i = row.id /\ reqs' = [reqs EXCEPT ![a].no = n, ![a].id = i, ![a].step = "shelve"]
    BY <1>4 DEF Number, Shapes, Row
  <2>2. n \notin kept
    <3> SUFFICES ASSUME n \in kept PROVE FALSE OBVIOUS
    <3>1. kept \in SUBSET Numbers /\ kept # {} BY DEF Shapes
    <3>2. Max(kept) \in kept /\ n <= Max(kept) BY <3>1, Greatest
    <3>3. Max(kept) \in Nat BY <3>1, <3>2, Facts
    <3>4. n = Max(kept) + 1 BY <2>1, <3>1
    <3> QED BY <3>2, <3>3, <3>4
  <2>3. PICK r \in Request : r = [reqs[a] EXCEPT !.no = n, !.id = i, !.step = "shelve"]
    BY <1>1 DEF Request, Steps
  <2>4. /\ r.step = "shelve" /\ r.no = n /\ r.id = i /\ r.src = reqs[a].src /\ r.op = reqs[a].op
        /\ r.vol = reqs[a].vol /\ r.up = reqs[a].up /\ r.want = reqs[a].want
    BY <1>1, <2>3 DEF Request
  <2>5. Course(r.step, r.op) BY <1>2, <2>4 DEF Course
  <2>6. Fields(r)
    <3>1. Fields(reqs[a]) BY <1>1 DEF Fitting
    <3> QED BY <1>2, <2>4, <3>1 DEF Fields
  <2>7. r \in Fitting BY <2>5, <2>6 DEF Fitting
  <2>8. reqs' = [reqs EXCEPT ![a] = r] BY <2>1, <2>3
  <2>9. Whole' /\ reqs'[a] = r /\ Alone(a) BY <2>7, <2>8, Sets
  <2> QED BY <1>2, <2>1, <2>2, <2>4, <2>9
<1> QED BY <1>3, <1>4

LEMMA InsertReqs ==
  ASSUME Whole, NEW a \in Actors, Insert(a)
  PROVE  /\ Whole' /\ Alone(a) /\ reqs'[a].op = reqs[a].op /\ reqs'[a].vol = reqs[a].vol
         /\ reqs[a].op \in {"put", "revert"} /\ reqs[a].no \in Numbers
         /\ \/ /\ reqs'[a].step = "trim" /\ reqs[a].no \notin kept /\ row.id = reqs[a].id
               /\ kept' = kept \cup {reqs[a].no}
               /\ \A b \in Actors : reqs'[b].step = "undrop" => reqs'[b].want # reqs[a].no
            \/ /\ reqs'[a].step = IF reqs[a].op = "put" THEN "open" ELSE "copy"
               /\ kept' = kept
               /\ reqs[a].no \in kept \/ row.id # reqs[a].id \/ Fault
<1>1. reqs[a] \in Fitting /\ reqs[a] \in Request BY DEF Whole, Fitting
<1>2. reqs[a].op \in {"put", "revert"} /\ reqs[a].no \in Numbers
  BY <1>1 DEF Insert, At, Fitting, Course, Fields
<1>3. CASE Goto(a, AfterRetain(a)) /\ kept' = kept
             /\ (reqs[a].no \in kept \/ row.id # reqs[a].id \/ Fault)
  BY <1>2, <1>3, Resumes DEF Same
<1>4. CASE ~ (Goto(a, AfterRetain(a)) /\ kept' = kept
             /\ (reqs[a].no \in kept \/ row.id # reqs[a].id \/ Fault))
  <2>1. /\ reqs[a].no \notin kept /\ row.id = reqs[a].id /\ kept' = kept \cup {reqs[a].no}
        /\ reqs' = [b \in Actors |->
             IF b = a THEN [reqs[a] EXCEPT !.step = "trim"]
             ELSE IF At(b, "undrop") /\ reqs[b].want = reqs[a].no
             THEN [reqs[b] EXCEPT !.want = None] ELSE reqs[b]]
    BY <1>4 DEF Insert
  <2>2. PICK r \in Request : r = [reqs[a] EXCEPT !.step = "trim"] BY <1>1 DEF Request, Steps
  <2>3. r.step = "trim" /\ Same(reqs[a], r) BY <1>1, <2>2 DEF Request, Same
  <2>4. r \in Fitting
    <3>1. Fields(reqs[a]) BY <1>1 DEF Fitting
    <3>2. Fields(r) BY <2>3, <3>1 DEF Fields, Same
    <3>3. Course(r.step, r.op) BY <1>2, <2>3 DEF Course, Same
    <3> QED BY <2>2, <3>2, <3>3 DEF Fitting
  <2>5. reqs'[a] = r BY <2>1, <2>2
  <2>6. ASSUME NEW b \in Actors \ {a}
        PROVE  /\ reqs'[b] \in Fitting
               /\ \/ reqs'[b] = reqs[b] /\ (At(b, "undrop") => reqs[b].want # reqs[a].no)
                  \/ At(b, "undrop") /\ reqs[b].want = reqs[a].no /\ reqs'[b].want = None
    <3>1. reqs[b] \in Fitting /\ reqs[b] \in Request BY DEF Whole, Fitting
    <3>2. CASE ~ (At(b, "undrop") /\ reqs[b].want = reqs[a].no) BY <2>1, <3>1, <3>2
    <3>3. CASE At(b, "undrop") /\ reqs[b].want = reqs[a].no
      <4>1. reqs'[b] = [reqs[b] EXCEPT !.want = None] BY <2>1, <3>3
      <4>2. PICK q \in Request : q = [reqs[b] EXCEPT !.want = None] BY <3>1 DEF Request
      <4>3. /\ q.step = "undrop" /\ q.want = None /\ q.op = reqs[b].op /\ q.vol = reqs[b].vol
            /\ q.src = reqs[b].src /\ q.no = reqs[b].no /\ q.id = reqs[b].id /\ q.up = reqs[b].up
        BY <3>1, <3>3, <4>2 DEF Request, At
      <4>4. q.op = "drop" BY <3>1, <3>3, <4>3 DEF Fitting, Course, At
      <4>5. Course(q.step, q.op) /\ Fields(q)
        BY <4>3, <4>4 DEF Course, Fields, Placing, Deleting, Uploading
      <4>6. q \in Fitting BY <4>2, <4>5 DEF Fitting
      <4> QED BY <3>3, <4>1, <4>2, <4>3, <4>6
    <3> QED BY <3>2, <3>3
  <2>7. Whole' BY <2>1, <2>4, <2>5, <2>6 DEF Whole
  <2>8. Alone(a)
    <3> SUFFICES ASSUME NEW b \in Actors \ {a}
                 PROVE  /\ reqs'[b].op = reqs[b].op /\ reqs'[b].step = reqs[b].step
                        /\ reqs'[b].vol = reqs[b].vol /\ reqs'[b].src = reqs[b].src
                        /\ reqs'[b].no = reqs[b].no /\ reqs'[b].id = reqs[b].id
                        /\ \/ reqs'[b].want = reqs[b].want
                           \/ /\ At(a, "insert") /\ At(b, "undrop") /\ reqs[b].want = reqs[a].no
                              /\ reqs'[b].want = None
      BY DEF Alone
    <3>1. At(a, "insert") BY DEF Insert
    <3>2. CASE reqs'[b] = reqs[b] BY <3>2
    <3>3. CASE reqs'[b] # reqs[b]
      <4>1. reqs'[b] = [reqs[b] EXCEPT !.want = None] BY <2>1, <3>3
      <4>2. reqs[b] \in Request BY DEF Whole, Fitting
      <4>3. /\ reqs'[b].op = reqs[b].op /\ reqs'[b].step = reqs[b].step /\ reqs'[b].vol = reqs[b].vol
            /\ reqs'[b].src = reqs[b].src /\ reqs'[b].no = reqs[b].no /\ reqs'[b].id = reqs[b].id
        BY <4>1, <4>2 DEF Request
      <4> QED BY <2>6, <3>1, <3>3, <4>3 DEF At
    <3> QED BY <3>2, <3>3
  <2>9. \A b \in Actors : reqs'[b].step = "undrop" => reqs'[b].want # reqs[a].no
    <3>1. None \notin Numbers BY Facts
    <3> QED BY <1>2, <2>3, <2>5, <2>6, <3>1 DEF At
  <2> QED BY <1>2, <2>1, <2>3, <2>5, <2>7, <2>8, <2>9 DEF Same
<1> QED BY <1>3, <1>4

LEMMA OpenReqs ==
  ASSUME Shapes, Whole, NEW a \in Actors, Open(a)
  PROVE  /\ Whole' /\ Alone(a) /\ reqs'[a].op = reqs[a].op /\ reqs'[a].vol = reqs[a].vol
         /\ reqs'[a].step = "stream" /\ reqs[a].op \in {"put", "replica"}
         /\ \E f \in Uploads : part' = [part EXCEPT ![reqs[a].vol] = f]
                               /\ mixed' \in {mixed, mixed \cup {f}}
<1>1. reqs[a] \in Fitting /\ reqs[a] \in Request BY DEF Whole, Fitting
<1>2. reqs[a].step = "open" BY DEF Open, At
<1>3. reqs[a].op \in {"put", "replica"} /\ reqs[a].up \in Uploads
  BY <1>1, <1>2 DEF Fitting, Course, Fields, Uploading
<1>4. PICK f \in Uploads :
        /\ part' = [part EXCEPT ![reqs[a].vol] = f] /\ mixed' \in {mixed, mixed \cup {f}}
        /\ reqs' = [reqs EXCEPT ![a].step = "stream", ![a].file = f]
  <2> DEFINE shared == \E b \in Actors : At(b, "stream") /\ reqs[b].vol = reqs[a].vol
                                          /\ reqs[b].file = part[reqs[a].vol]
  <2>1. shared => part[reqs[a].vol] \in Uploads
    <3>1. ASSUME NEW b \in Actors, At(b, "stream") PROVE reqs[b].file \in Uploads
      <4>1. reqs[b] \in Fitting BY DEF Whole
      <4> QED BY <3>1, <4>1 DEF Fitting, Fields, At
    <3> QED BY <3>1
  <2>2. CASE shared
    <3>1. /\ part' = [part EXCEPT ![reqs[a].vol] = part[reqs[a].vol]]
          /\ mixed' = mixed \cup {part[reqs[a].vol]}
          /\ reqs' = [reqs EXCEPT ![a].step = "stream", ![a].file = part[reqs[a].vol]]
      BY <2>2 DEF Open
    <3> QED BY <2>1, <2>2, <3>1
  <2>3. CASE ~ shared
    <3>1. /\ part' = [part EXCEPT ![reqs[a].vol] = reqs[a].up] /\ mixed' = mixed
          /\ reqs' = [reqs EXCEPT ![a].step = "stream", ![a].file = reqs[a].up]
      BY <2>3 DEF Open
    <3> QED BY <1>3, <3>1
  <2> QED BY <2>2, <2>3
<1>5. PICK r \in Request : r = [reqs[a] EXCEPT !.step = "stream", !.file = f]
  BY <1>1 DEF Request, Steps, Bytes
<1>6. /\ r.step = "stream" /\ r.file = f /\ r.op = reqs[a].op /\ r.vol = reqs[a].vol
      /\ r.up = reqs[a].up /\ r.want = reqs[a].want
  BY <1>1, <1>5 DEF Request
<1>7. Course(r.step, r.op) BY <1>3, <1>6 DEF Course
<1>8. Fields(r)
  <2>1. Fields(reqs[a]) BY <1>1 DEF Fitting
  <2> QED BY <1>6, <2>1 DEF Fields
<1>9. reqs' = [reqs EXCEPT ![a] = r] BY <1>4, <1>5
<1>10. r \in Fitting BY <1>7, <1>8 DEF Fitting
<1>11. Whole' /\ reqs'[a] = r /\ Alone(a) BY <1>9, <1>10, Sets
<1> QED BY <1>3, <1>4, <1>6, <1>11
-----------------------------------------------------------------------------
(* How requests begin.                                                     *)

LEMMA PutStarts ==
  ASSUME Shapes, Whole, NEW a \in Actors, NEW op \in OpNames, StartPut(a, op)
  PROVE  /\ Whole' /\ Alone(a) /\ reqs'[a].op = op /\ op \in {"put", "replica"}
         /\ reqs'[a].step = IF op = "put" THEN "look" ELSE "open"
         /\ reqs'[a].vol \in Places /\ used' \in Spending /\ used'.faults = used.faults
<1>1. used \in Spending /\ used.uploads < MaxUploads /\ used' = [used EXCEPT !.uploads = @ + 1]
  BY DEF StartPut, Shapes
<1>2. used.uploads \in Nat /\ used.uploads + 1 \in 1 .. MaxUploads
      /\ used.uploads + 1 \in 0 .. MaxUploads
  <2>1. used.uploads \in 0 .. MaxUploads BY <1>1 DEF Spending
  <2> QED BY <1>1, <2>1, Facts
<1>3. used' \in Spending /\ used'.faults = used.faults BY <1>1, <1>2 DEF Spending
<1>4. op \in {"put", "replica"} BY DEF StartPut
<1>5. PICK v \in Places, u \in Uploads, s \in {"look", "open"} :
        /\ u = used.uploads + 1 /\ s = IF op = "put" THEN "look" ELSE "open"
        /\ reqs' = [reqs EXCEPT ![a] = [Rest EXCEPT !.op = op, !.vol = v, !.up = u, !.step = s]]
  <2>1. used.uploads + 1 \in Uploads BY <1>2 DEF Uploads
  <2>2. PICK v \in Places : reqs' = [reqs EXCEPT ![a] = [Rest EXCEPT
           !.op = op, !.vol = v, !.up = used.uploads + 1,
           !.step = IF op = "put" THEN "look" ELSE "open"]]
    BY DEF StartPut
  <2> QED BY <2>1, <2>2
<1>6. PICK r \in Request : r = [Rest EXCEPT !.op = op, !.vol = v, !.up = u, !.step = s]
  <2>1. v \in Volumes \cup {None} /\ u \in Bytes /\ s \in Steps
    BY PlacesAreVolumes DEF Steps, Bytes
  <2> QED BY <2>1, Resting DEF Request
<1>7. r.op = op /\ r.vol = v /\ r.up = u /\ r.step = s BY Resting, <1>6 DEF Request
<1>8. r \in Fitting
  <2>1. Course(r.step, r.op) BY <1>4, <1>5, <1>7 DEF Course
  <2>2. v \in Volumes BY PlacesAreVolumes
  <2>3. Fields(r) BY <1>4, <1>5, <1>7, <2>2 DEF Fields
  <2> QED BY <1>6, <2>1, <2>3 DEF Fitting
<1>9. reqs' = [reqs EXCEPT ![a] = r] BY <1>5, <1>6
<1>10. Whole' /\ reqs'[a] = r /\ Alone(a) BY <1>8, <1>9, Sets
<1> QED BY <1>3, <1>4, <1>5, <1>7, <1>10

LEMMA DeleteStarts ==
  ASSUME Whole, NEW a \in Actors, NEW op \in OpNames, StartDelete(a, op)
  PROVE  /\ Whole' /\ Alone(a) /\ reqs'[a].op = op /\ op \in Deleting
         /\ reqs'[a].step = "bin" /\ reqs'[a].vol = IF Found = None THEN 1 ELSE Found
<1>1. PICK v \in Volumes :
        /\ v = IF Found = None THEN 1 ELSE Found
        /\ reqs' = [reqs EXCEPT ![a] = [Rest EXCEPT !.op = op, !.step = "bin", !.vol = v]]
  <2>1. (IF Found = None THEN 1 ELSE Found) \in Volumes BY FoundThere, Facts
  <2> QED BY <2>1 DEF StartDelete
<1>2. op \in Deleting BY DEF StartDelete, Deleting
<1>3. PICK r \in Request : r = [Rest EXCEPT !.op = op, !.step = "bin", !.vol = v]
  BY Resting DEF Request, Steps
<1>4. r.op = op /\ r.vol = v /\ r.step = "bin" BY Resting, <1>3 DEF Request
<1>5. Course(r.step, r.op) /\ Fields(r) BY <1>2, <1>4 DEF Course, Fields, Deleting, Uploading
<1>6. r \in Fitting BY <1>3, <1>5 DEF Fitting
<1>7. reqs' = [reqs EXCEPT ![a] = r] BY <1>1, <1>3
<1>8. Whole' /\ reqs'[a] = r /\ Alone(a) BY <1>6, <1>7, Sets
<1> QED BY <1>1, <1>2, <1>4, <1>8

LEMMA PurgeStarts ==
  ASSUME Whole, NEW a \in Actors, NEW op \in OpNames, StartPurge(a, op)
  PROVE  /\ Whole' /\ Alone(a) /\ reqs'[a].op = op /\ op \in {"purge", "empty"}
         /\ reqs'[a].step = "empty"
<1>1. reqs' = [reqs EXCEPT ![a] = [Rest EXCEPT !.op = op, !.step = "empty"]]
      /\ op \in {"purge", "empty"}
  BY DEF StartPurge
<1>2. PICK r \in Request : r = [Rest EXCEPT !.op = op, !.step = "empty"]
  BY Resting DEF Request, Steps
<1>3. r.op = op /\ r.step = "empty" BY Resting, <1>2 DEF Request
<1>4. Course(r.step, r.op) /\ Fields(r)
  BY <1>1, <1>3 DEF Course, Fields, Placing, Deleting, Uploading
<1>5. r \in Fitting BY <1>2, <1>4 DEF Fitting
<1>6. reqs' = [reqs EXCEPT ![a] = r] BY <1>1, <1>2
<1>7. Whole' /\ reqs'[a] = r /\ Alone(a) BY <1>5, <1>6, Sets
<1> QED BY <1>1, <1>3, <1>7

LEMMA UndeleteStarts ==
  ASSUME Shapes, Whole, NEW a \in Actors, StartUndelete(a)
  PROVE  /\ Whole' /\ Alone(a) /\ reqs'[a].op = "undelete" /\ reqs'[a].step = "move"
         /\ reqs'[a].vol \in Places /\ reqs'[a].id = row.id
<1>1. PICK v \in Places, i \in Bytes :
        /\ i = row.id
        /\ reqs' = [reqs EXCEPT ![a] = [Rest EXCEPT
             !.op = "undelete", !.step = "move", !.vol = v, !.id = i]]
  BY DEF StartUndelete, Shapes, Row
<1>2. PICK r \in Request :
        r = [Rest EXCEPT !.op = "undelete", !.step = "move", !.vol = v, !.id = i]
  BY Resting, PlacesAreVolumes DEF Request, Steps, OpNames
<1>3. r.op = "undelete" /\ r.step = "move" /\ r.vol = v /\ r.id = i
  BY Resting, <1>2 DEF Request
<1>4. Course(r.step, r.op) /\ Fields(r)
  BY <1>3, PlacesAreVolumes DEF Course, Fields, Placing, Deleting, Uploading
<1>5. r \in Fitting BY <1>2, <1>4 DEF Fitting
<1>6. reqs' = [reqs EXCEPT ![a] = r] BY <1>1, <1>2
<1>7. Whole' /\ reqs'[a] = r /\ Alone(a) BY <1>5, <1>6, Sets
<1> QED BY <1>1, <1>3, <1>7

LEMMA DropStarts ==
  ASSUME Shapes, Whole, NEW a \in Actors, StartDrop(a)
  PROVE  /\ Whole' /\ Alone(a) /\ reqs'[a].op = "drop" /\ reqs'[a].step = "undrop"
         /\ reqs'[a].want \in kept /\ store' = Unstored({reqs'[a].want})
         /\ gone' = gone \cup StoredIn({reqs'[a].want})
<1>1. PICK n \in kept :
        /\ store' = Unstored({n}) /\ gone' = gone \cup StoredIn({n})
        /\ reqs' = [reqs EXCEPT ![a] = [Rest EXCEPT !.op = "drop", !.step = "undrop", !.want = n]]
  BY DEF StartDrop
<1>2. n \in Numbers BY DEF Shapes
<1>3. PICK r \in Request : r = [Rest EXCEPT !.op = "drop", !.step = "undrop", !.want = n]
  BY Resting, <1>2 DEF Request, Steps, OpNames
<1>4. r.op = "drop" /\ r.step = "undrop" /\ r.want = n BY Resting, <1>3 DEF Request
<1>5. Course(r.step, r.op) /\ Fields(r)
  BY <1>4 DEF Course, Fields, Placing, Deleting, Uploading
<1>6. r \in Fitting BY <1>3, <1>5 DEF Fitting
<1>7. reqs' = [reqs EXCEPT ![a] = r] BY <1>1, <1>3
<1>8. Whole' /\ reqs'[a] = r /\ Alone(a) BY <1>6, <1>7, Sets
<1> QED BY <1>1, <1>4, <1>8

LEMMA RevertStarts ==
  ASSUME Shapes, Whole, NEW a \in Actors, StartRevert(a)
  PROVE  /\ Whole' /\ Alone(a) /\ reqs'[a].op = "revert" /\ reqs'[a].step = "look"
         /\ reqs'[a].vol \in Places /\ kept # {}
<1>1. PICK n \in kept, v \in Places : reqs' = [reqs EXCEPT ![a] = [Rest EXCEPT
           !.op = "revert", !.want = n, !.vol = v, !.step = "look"]]
  BY DEF StartRevert
<1>2. n \in Numbers BY DEF Shapes
<1>3. PICK r \in Request :
        r = [Rest EXCEPT !.op = "revert", !.want = n, !.vol = v, !.step = "look"]
  BY <1>2, Resting, PlacesAreVolumes DEF Request, Steps, OpNames
<1>4. r.op = "revert" /\ r.vol = v /\ r.step = "look" /\ r.want = n
  BY Resting, <1>3 DEF Request
<1>5. Course(r.step, r.op) /\ Fields(r)
  BY <1>2, <1>4, PlacesAreVolumes DEF Course, Fields, Placing, Deleting, Uploading
<1>6. r \in Fitting BY <1>3, <1>5 DEF Fitting
<1>7. reqs' = [reqs EXCEPT ![a] = r] BY <1>1, <1>3
<1>8. Whole' /\ reqs'[a] = r /\ Alone(a) BY <1>6, <1>7, Sets
<1> QED BY <1>1, <1>4, <1>8
-----------------------------------------------------------------------------
(* What a step leaves in shape.                                            *)

LEMMA Spends ==
  ASSUME Shapes, used' = used \/ Fault \/ Abort
  PROVE  used' \in Spending
<1>1. used \in Spending BY DEF Shapes
<1>2. CASE used' = used BY <1>1, <1>2
<1>3. CASE Fault
  <2>1. used.faults + 1 \in 0 .. MaxFaults BY <1>1, <1>3, Facts DEF Fault, Spending
  <2> QED BY <1>1, <1>3, <2>1 DEF Fault, Spending
<1>4. CASE Abort
  <2>1. used.aborts + 1 \in 0 .. MaxAborts BY <1>1, <1>4, Facts DEF Abort, Spending
  <2> QED BY <1>1, <1>4, <2>1 DEF Abort, Spending
<1> QED BY <1>2, <1>3, <1>4

LEMMA Stored ==
  ASSUME Shapes, NEW ns \in SUBSET Numbers
  PROVE  Unstored(ns) \in [Numbers -> Bytes] /\ StoredIn(ns) \subseteq Uploads
BY DEF Shapes, Unstored, StoredIn, Bytes

LEMMA Emptied ==
  ASSUME Shapes, NEW v \in Volumes, NEW b \in Bytes, disk' = [disk EXCEPT ![v] = b]
  PROVE  /\ disk' \in [Volumes -> Bytes] /\ disk'[v] = b
         /\ \A w \in Volumes \ {v} : disk'[w] = disk[w]
BY DEF Shapes

\* The requests' own steps, by what they work on.
Retaining(a) == Look(a) \/ Number(a) \/ Shelve(a) \/ Insert(a) \/ Trim(a) \/ TrimFails(a)
Writing(a) == Open(a) \/ Land(a) \/ Break(a) \/ RollBack(a) \/ Accept(a) \/ Record(a)
Moving(a) == Bin(a) \/ Unrecord(a) \/ MoveBack(a) \/ Revive(a) \/ Copy(a)
Clearing(a) == EmptyTrash(a) \/ Unrow(a) \/ Undrop(a)
Starting(a) == Start(a) \/ StartUndelete(a) \/ StartDrop(a) \/ StartRevert(a)

LEMMA RetainShapes ==
  ASSUME Shapes, Whole, NEW a \in Actors, Retaining(a)
  PROVE  Shapes'
<1>1. reqs[a] \in Fitting BY DEF Whole
<1>2. CASE Look(a) BY <1>2 DEF Look, Shapes, files
<1>3. CASE Number(a)
  <2>1. used' \in Spending
    <3>1. used' = used \/ Fault BY <1>3 DEF Number
    <3> QED BY <3>1, Spends
  <2> QED BY <1>3, <2>1 DEF Number, Shapes, files
<1>4. CASE Shelve(a)
  <2>1. PICK v \in Volumes, n \in Numbers : v = reqs[a].src /\ n = reqs[a].no
    BY <1>1, <1>4 DEF Shelve, At, Fitting, Fields
  <2>2. CASE disk[v] = None BY <1>4, <2>1, <2>2 DEF Shelve, Shapes, files
  <2>3. CASE disk[v] # None
    <3>1. /\ store' = [store EXCEPT ![n] = disk[v]] /\ disk' = [disk EXCEPT ![v] = None]
          /\ UNCHANGED <<part, mixed, trash>>
      BY <1>4, <2>1, <2>3 DEF Shelve
    <3>2. store' \in [Numbers -> Bytes] /\ disk' \in [Volumes -> Bytes]
      BY <3>1 DEF Shapes, Bytes
    <3> QED BY <1>4, <3>1, <3>2 DEF Shelve, Shapes
  <2> QED BY <2>2, <2>3
<1>5. CASE Insert(a)
  <2>1. reqs[a].no \in Numbers BY <1>1, <1>5 DEF Insert, At, Fitting, Fields
  <2>2. kept' \subseteq Numbers BY <1>5, <2>1 DEF Insert, Shapes
  <2>3. used' \in Spending
    <3>1. used' = used \/ Fault BY <1>5 DEF Insert
    <3> QED BY <3>1, Spends
  <2> QED BY <1>5, <2>2, <2>3 DEF Insert, Shapes, files
<1>6. CASE Trim(a)
  <2>1. Doomed \in SUBSET Numbers BY DEF Doomed, Shapes
  <2> QED BY <1>6, <2>1, Stored DEF Trim, Shapes
<1>7. CASE TrimFails(a)
  <2>1. used' \in Spending BY <1>7, Spends DEF TrimFails
  <2> QED BY <1>7, <2>1 DEF TrimFails, Shapes, files
<1> QED BY <1>2, <1>3, <1>4, <1>5, <1>6, <1>7 DEF Retaining

LEMMA WriteShapes ==
  ASSUME Shapes, Whole, NEW a \in Actors, Writing(a)
  PROVE  Shapes'
<1>1. reqs[a] \in Fitting BY DEF Whole
<1>2. PICK v \in Volumes : v = reqs[a].vol
  BY <1>1 DEF Writing, Open, Land, Break, RollBack, Accept, Record, At, Fitting, Course,
              Fields, Placing
<1>3. CASE Open(a)
  <2>1. PICK f \in Uploads : part' = [part EXCEPT ![v] = f] /\ mixed' \in {mixed, mixed \cup {f}}
    BY <1>2, <1>3, OpenReqs
  <2>2. part' \in [Volumes -> Bytes] /\ mixed' \subseteq Uploads BY <2>1 DEF Shapes, Bytes
  <2> QED BY <1>3, <2>2 DEF Open, Shapes
<1>4. CASE Land(a)
  <2>1. /\ part[v] # None /\ disk' = [disk EXCEPT ![v] = part[v]]
        /\ part' = [part EXCEPT ![v] = None] /\ landed' = landed \cup {part[v]}
        /\ gone' = gone \/ gone' = gone \cup ({disk[v]} \ {None})
    BY <1>2, <1>4 DEF Land
  <2>2. part[v] \in Uploads /\ disk[v] \in Bytes BY <2>1 DEF Shapes, Bytes
  <2>3. disk' \in [Volumes -> Bytes] /\ part' \in [Volumes -> Bytes] BY <2>1, <2>2 DEF Shapes, Bytes
  <2>4. landed' \subseteq Uploads /\ gone' \subseteq Uploads BY <2>1, <2>2 DEF Shapes, Bytes
  <2> QED BY <1>4, <2>3, <2>4 DEF Land, Shapes
<1>5. CASE Break(a)
  <2>1. used' \in Spending
    <3>1. used' = used \/ Abort BY <1>5 DEF Break
    <3> QED BY <3>1, Spends
  <2>2. part' \in [Volumes -> Bytes] BY <1>5 DEF Break, Shapes, Bytes
  <2> QED BY <1>5, <2>1, <2>2 DEF Break, Shapes
<1>6. CASE RollBack(a)
  <2>1. used' \in Spending BY <1>6, Spends DEF RollBack
  <2>2. disk' \in [Volumes -> Bytes] /\ gone' \subseteq Uploads
    BY <1>2, <1>6 DEF RollBack, Shapes, Bytes
  <2> QED BY <1>6, <2>1, <2>2 DEF RollBack, Shapes
<1>7. CASE Accept(a) BY <1>7 DEF Accept, Shapes, files
<1>8. CASE Record(a)
  <2>1. used' \in Spending
    <3>1. used' = used \/ Fault BY <1>8 DEF Record
    <3> QED BY <3>1, Spends
  <2>2. row' \in Row
    <3>1. reqs[a].up \in Bytes BY <1>1 DEF Fitting, Request
    <3>2. row \in Row BY DEF Shapes
    <3> QED BY <1>2, <1>8, <3>1, <3>2 DEF Record, Row
  <2> QED BY <1>8, <2>1, <2>2 DEF Record, Shapes, files
<1> QED BY <1>3, <1>4, <1>5, <1>6, <1>7, <1>8 DEF Writing

LEMMA MoveShapes ==
  ASSUME Shapes, Whole, NEW a \in Actors, Moving(a)
  PROVE  Shapes'
<1>1. reqs[a] \in Fitting BY DEF Whole
<1>2. PICK v \in Volumes : v = reqs[a].vol
  BY <1>1 DEF Moving, Bin, Unrecord, MoveBack, Revive, Copy, At, Fitting, Course, Fields,
              Placing
<1>3. disk[v] \in Bytes /\ trash \in Bytes /\ row \in Row BY DEF Shapes
<1>4. CASE Bin(a)
  <2>1. disk' = [disk EXCEPT ![v] = None] BY <1>2, <1>4 DEF Bin
  <2>2. disk' \in [Volumes -> Bytes] BY <2>1 DEF Shapes, Bytes
  <2>3. trash' \in Bytes /\ gone' \subseteq Uploads
    <3>1. CASE disk[v] = None BY <1>2, <1>4, <3>1 DEF Bin, Shapes
    <3>2. CASE disk[v] # None
      <4>1. (trash' = disk[v] \/ trash' = trash)
            /\ (gone' = gone \cup ({trash} \ {None}) \/ gone' = gone \cup {disk[v]})
        BY <1>2, <1>4, <3>2 DEF Bin
      <4> QED BY <1>3, <3>2, <4>1 DEF Shapes, Bytes
    <3> QED BY <3>1, <3>2
  <2> QED BY <1>4, <2>2, <2>3 DEF Bin, Shapes
<1>5. CASE Unrecord(a)
  <2>1. used' \in Spending
    <3>1. used' = used \/ Fault BY <1>5 DEF Unrecord
    <3> QED BY <3>1, Spends
  <2>2. row' \in Row
    <3>1. row' = row \/ row' = [row EXCEPT !.status = row.status]
          \/ row' = [row EXCEPT !.status = "trashed"]
      BY <1>5 DEF Unrecord
    <3> QED BY <1>3, <3>1 DEF Row
  <2> QED BY <1>5, <2>1, <2>2 DEF Unrecord, Shapes, files
<1>6. CASE MoveBack(a)
  <2>1. trash' \in Bytes BY <1>6 DEF MoveBack, Shapes, Bytes
  <2>2. disk' \in [Volumes -> Bytes]
    <3>1. disk' = disk \/ disk' = [disk EXCEPT ![v] = trash] BY <1>2, <1>6 DEF MoveBack
    <3> QED BY <1>3, <3>1 DEF Shapes
  <2> QED BY <1>6, <2>1, <2>2 DEF MoveBack, Shapes
<1>7. CASE Revive(a)
  <2>1. used' \in Spending
    <3>1. used' = used \/ Fault BY <1>7 DEF Revive
    <3> QED BY <3>1, Spends
  <2>2. row' \in Row
    <3>1. row' = row \/ row' = [row EXCEPT !.status = "active", !.vol = v]
      BY <1>2, <1>7 DEF Revive
    <3> QED BY <1>3, <3>1 DEF Row
  <2> QED BY <1>7, <2>1, <2>2 DEF Revive, Shapes, files
<1>8. CASE Copy(a)
  <2>1. PICK n \in Numbers : n = reqs[a].want
    BY <1>1, <1>8 DEF Copy, At, Fitting, Course, Fields
  <2>2. disk' \in [Volumes -> Bytes]
    <3>1. disk' = disk \/ disk' = [disk EXCEPT ![v] = store[n]] BY <1>2, <1>8, <2>1 DEF Copy
    <3>2. store[n] \in Bytes BY DEF Shapes
    <3> QED BY <3>1, <3>2 DEF Shapes
  <2> QED BY <1>8, <2>2 DEF Copy, Shapes
<1> QED BY <1>4, <1>5, <1>6, <1>7, <1>8 DEF Moving

LEMMA OtherShapes ==
  ASSUME Shapes, Whole, NEW a \in Actors, Clearing(a) \/ Starting(a)
  PROVE  Shapes'
<1>1. CASE EmptyTrash(a) BY <1>1 DEF EmptyTrash, Shapes, Bytes
<1>2. CASE Unrow(a)
  <2>1. row' \in Row BY <1>2 DEF Unrow, Shapes, Row, NoRow, Bytes
  <2> QED BY <1>2, <2>1 DEF Unrow, Shapes, files
<1>3. CASE Undrop(a) BY <1>3 DEF Undrop, Shapes, files
<1>4. ASSUME NEW op \in OpNames, StartPut(a, op) PROVE Shapes'
  BY <1>4, PutStarts DEF StartPut, Shapes, files
<1>5. ASSUME NEW op \in OpNames, StartDelete(a, op) PROVE Shapes'
  BY <1>5 DEF StartDelete, Shapes, files
<1>6. ASSUME NEW op \in OpNames, StartPurge(a, op) PROVE Shapes'
  <2>1. kept \in SUBSET Numbers BY DEF Shapes
  <2> QED BY <1>6, <2>1, Stored DEF StartPurge, Shapes
<1>7. CASE StartUndelete(a) BY <1>7 DEF StartUndelete, Shapes, files
<1>8. CASE StartDrop(a)
  <2>1. {reqs'[a].want} \in SUBSET Numbers BY <1>8, DropStarts DEF Shapes
  <2> QED BY <1>8, <2>1, DropStarts, Stored DEF StartDrop, Shapes
<1>9. CASE StartRevert(a) BY <1>9 DEF StartRevert, Shapes, files
<1> QED BY <1>1, <1>2, <1>3, <1>4, <1>5, <1>6, <1>7, <1>8, <1>9 DEF Clearing, Starting, Start
-----------------------------------------------------------------------------
(* What a step does to its request and, seen from where a master may lie,   *)
(* to the volumes and the trash.                                           *)

\* A new request. What it is about to place goes where there is room for it.
Begins(a) ==
  /\ Alone(a) /\ UNCHANGED <<disk, trash>>
  /\ MayStart(a, reqs'[a].op) /\ reqs'[a].op \in OpNames /\ reqs'[a].step # "idle"
  /\ reqs'[a].op \in Placing => reqs'[a].vol \in Places

\* A step of a request under way, or its end. Bytes appear only where it was
\* to place them, and in the trash only from a volume.
Proceeds(a) ==
  /\ Alone(a) /\ ~ At(a, "idle")
  /\ \/ reqs'[a].step = "idle"
     \/ reqs'[a].op = reqs[a].op /\ reqs'[a].vol = reqs[a].vol
  /\ \A v \in Volumes : disk'[v] # None /\ disk[v] = None =>
       /\ reqs[a].op \in Placing /\ v = reqs[a].vol
       /\ reqs[a].op = "undelete" => trash # None /\ trash' = None
  /\ trash' # None /\ trash = None =>
       /\ \A v \in Volumes : disk'[v] # None => disk[v] # None
       /\ \E v \in Volumes : disk[v] # None /\ disk'[v] = None

Fine(a) == Whole' /\ (Begins(a) \/ Proceeds(a))

\* A step that leaves the volumes alone, and the trash or what it empties.
LEMMA Quiet ==
  ASSUME NEW a \in Actors, Whole', Alone(a), ~ At(a, "idle"), disk' = disk,
         trash' \in {trash, None},
         reqs'[a].step = "idle" \/ (reqs'[a].op = reqs[a].op /\ reqs'[a].vol = reqs[a].vol)
  PROVE  Fine(a)
BY DEF Fine, Proceeds

LEMMA RetainFine ==
  ASSUME Shapes, Whole, NEW a \in Actors, Retaining(a)
  PROVE  Fine(a)
<1>1. reqs[a] \in Fitting BY DEF Whole
<1>2. ~ At(a, "idle") /\ reqs[a].op \in {"put", "revert"}
  BY <1>1 DEF Retaining, Look, Number, Shelve, Insert, Trim, TrimFails, At, Fitting, Course
<1>3. CASE Look(a) BY <1>2, <1>3, LookReqs, Quiet DEF Look, files
<1>4. CASE Number(a) BY <1>2, <1>4, NumberReqs, Quiet DEF Number, files
<1>5. CASE Insert(a) BY <1>2, <1>5, InsertReqs, Quiet DEF Insert, files
<1>6. CASE Trim(a) \/ TrimFails(a)
  <2>1. Goto(a, AfterRetain(a)) /\ disk' = disk /\ trash' = trash
    BY <1>6 DEF Trim, TrimFails, files
  <2> QED BY <1>2, <2>1, Resumes, Quiet DEF Same
<1>7. CASE Shelve(a)
  <2>1. CASE Goto(a, AfterRetain(a)) /\ UNCHANGED files
    BY <1>2, <2>1, Resumes, Quiet DEF Same, files
  <2>2. CASE ~ (Goto(a, AfterRetain(a)) /\ UNCHANGED files)
    <3>1. /\ disk' = [disk EXCEPT ![reqs[a].src] = None] /\ trash' = trash
          /\ Goto(a, "insert") /\ At(a, "shelve")
      BY <1>7, <2>2 DEF Shelve
    <3>2. Course("insert", reqs[a].op) /\ "insert" \in Steps BY <1>2 DEF Course, Steps
    <3>3. Whole' /\ Alone(a) /\ Same(reqs[a], reqs'[a]) BY <3>1, <3>2, Goes DEF At
    <3>4. \A w \in Volumes : disk'[w] # None => disk[w] # None BY <3>1 DEF Shapes
    <3> QED BY <1>2, <3>1, <3>3, <3>4 DEF Fine, Proceeds, Same
  <2> QED BY <2>1, <2>2
<1> QED BY <1>3, <1>4, <1>5, <1>6, <1>7 DEF Retaining

LEMMA WriteFine ==
  ASSUME Shapes, Whole, NEW a \in Actors, Writing(a)
  PROVE  Fine(a)
<1>1. reqs[a] \in Fitting BY DEF Whole
<1>2. ~ At(a, "idle") /\ reqs[a].op \in {"put", "replica"}
  BY <1>1 DEF Writing, Open, Land, Break, RollBack, Accept, Record, At, Fitting, Course
<1>3. PICK v \in Volumes : v = reqs[a].vol BY <1>1, <1>2 DEF Fitting, Fields, Placing
<1>4. CASE Open(a) BY <1>2, <1>4, OpenReqs, Quiet DEF Open
<1>5. CASE Land(a)
  <2>1. disk' = [disk EXCEPT ![v] = part[v]] /\ trash' = trash /\ Goto(a, "check")
    BY <1>3, <1>5 DEF Land
  <2>2. Course("check", reqs[a].op) /\ "check" \in Steps BY <1>2 DEF Course, Steps
  <2>3. Whole' /\ Alone(a) /\ Same(reqs[a], reqs'[a]) BY <2>1, <2>2, Goes
  <2>4. \A w \in Volumes : disk'[w] # None /\ disk[w] = None => w = v BY <2>1 DEF Shapes
  <2> QED BY <1>2, <1>3, <2>1, <2>3, <2>4 DEF Fine, Proceeds, Same, Placing
<1>6. CASE Break(a) BY <1>2, <1>6, Ends, Quiet DEF Break
<1>7. CASE RollBack(a)
  <2>1. disk' = [disk EXCEPT ![v] = None] /\ trash' = trash /\ End(a)
    BY <1>3, <1>7 DEF RollBack
  <2>2. \A w \in Volumes : disk'[w] # None => disk[w] # None BY <2>1 DEF Shapes
  <2> QED BY <1>2, <2>1, <2>2, Ends DEF Fine, Proceeds
<1>8. CASE Accept(a)
  <2>1. Course("record", reqs[a].op) /\ "record" \in Steps BY <1>2 DEF Course, Steps
  <2> QED BY <1>2, <1>8, <2>1, Goes, Quiet DEF Accept, Same, files
<1>9. CASE Record(a) BY <1>2, <1>9, Ends, Quiet DEF Record, files
<1> QED BY <1>4, <1>5, <1>6, <1>7, <1>8, <1>9 DEF Writing

LEMMA MoveFine ==
  ASSUME Shapes, Whole, NEW a \in Actors, Moving(a)
  PROVE  Fine(a)
<1>1. reqs[a] \in Fitting BY DEF Whole
<1>2. ~ At(a, "idle") /\ reqs[a].op \in {"undelete", "revert"} \cup Deleting
  BY <1>1 DEF Moving, Bin, Unrecord, MoveBack, Revive, Copy, At, Fitting, Course
<1>3. PICK v \in Volumes : v = reqs[a].vol BY <1>1, <1>2 DEF Fitting, Fields, Placing
<1>4. CASE Bin(a)
  <2>1. disk' = [disk EXCEPT ![v] = None] /\ Goto(a, "unrecord") /\ At(a, "bin")
        /\ (disk[v] = None => trash' = trash)
    BY <1>3, <1>4 DEF Bin
  <2>2. Course("unrecord", reqs[a].op) /\ "unrecord" \in Steps
    BY <1>1, <2>1 DEF Course, Steps, Fitting, At
  <2>3. Whole' /\ Alone(a) /\ Same(reqs[a], reqs'[a]) BY <2>1, <2>2, Goes
  <2>4. disk'[v] = None /\ \A w \in Volumes : disk'[w] # None => disk[w] # None
    BY <2>1 DEF Shapes
  <2> QED BY <1>2, <2>1, <2>3, <2>4 DEF Fine, Proceeds, Same
<1>5. CASE Unrecord(a) BY <1>2, <1>5, Ends, Quiet DEF Unrecord, files
<1>6. CASE MoveBack(a)
  <2>1. CASE trash = None
    <3>1. End(a) /\ disk' = disk /\ trash' = trash BY <1>6, <2>1 DEF MoveBack
    <3> QED BY <1>2, <3>1, Ends, Quiet
  <2>2. CASE trash # None
    <3>1. disk' = [disk EXCEPT ![v] = trash] /\ trash' = None /\ Goto(a, "revive") /\ At(a, "move")
      BY <1>3, <1>6, <2>2 DEF MoveBack
    <3>2. reqs[a].op = "undelete" BY <1>1, <3>1 DEF Fitting, Course, At
    <3>3. Course("revive", reqs[a].op) /\ "revive" \in Steps BY <3>2 DEF Course, Steps
    <3>4. Whole' /\ Alone(a) /\ Same(reqs[a], reqs'[a]) BY <3>1, <3>3, Goes
    <3>5. \A w \in Volumes : disk'[w] # None /\ disk[w] = None => w = v BY <3>1 DEF Shapes
    <3> QED BY <1>2, <1>3, <2>2, <3>1, <3>2, <3>4, <3>5 DEF Fine, Proceeds, Same, Placing
  <2> QED BY <2>1, <2>2
<1>7. CASE Revive(a) BY <1>2, <1>7, Ends, Quiet DEF Revive, files
<1>8. CASE Copy(a)
  <2>1. PICK n \in Numbers : n = reqs[a].want
    BY <1>1, <1>8 DEF Copy, At, Fitting, Course, Fields
  <2>2. CASE store[n] = None
    <3>1. End(a) /\ disk' = disk /\ trash' = trash BY <1>8, <2>1, <2>2 DEF Copy
    <3> QED BY <1>2, <3>1, Ends, Quiet
  <2>3. CASE store[n] # None
    <3>1. disk' = [disk EXCEPT ![v] = store[n]] /\ trash' = trash /\ Goto(a, "revive")
          /\ At(a, "copy")
      BY <1>3, <1>8, <2>1, <2>3 DEF Copy
    <3>2. reqs[a].op = "revert" BY <1>1, <3>1 DEF Fitting, Course, At
    <3>3. Course("revive", reqs[a].op) /\ "revive" \in Steps BY <3>2 DEF Course, Steps
    <3>4. Whole' /\ Alone(a) /\ Same(reqs[a], reqs'[a]) BY <3>1, <3>3, Goes
    <3>5. \A w \in Volumes : disk'[w] # None /\ disk[w] = None => w = v BY <3>1 DEF Shapes
    <3> QED BY <1>2, <1>3, <3>1, <3>2, <3>4, <3>5 DEF Fine, Proceeds, Same, Placing
  <2> QED BY <2>2, <2>3
<1> QED BY <1>4, <1>5, <1>6, <1>7, <1>8 DEF Moving

LEMMA OtherFine ==
  ASSUME Shapes, Whole, NEW a \in Actors, Clearing(a) \/ Starting(a)
  PROVE  Fine(a)
<1>1. reqs[a] \in Fitting BY DEF Whole
<1>2. CASE EmptyTrash(a)
  <2>1. Goto(a, "unrow") /\ At(a, "empty") /\ disk' = disk /\ trash' \in {trash, None}
    BY <1>2 DEF EmptyTrash
  <2>2. Course("unrow", reqs[a].op) /\ "unrow" \in Steps
    BY <1>1, <2>1 DEF Fitting, Course, At, Steps
  <2> QED BY <2>1, <2>2, Goes, Quiet DEF Same, At
<1>3. CASE Unrow(a) BY <1>3, Ends, Quiet DEF Unrow, At, files
<1>4. CASE Undrop(a) BY <1>4, Ends, Quiet DEF Undrop, At, files
<1>5. ASSUME NEW op \in OpNames, StartPut(a, op) PROVE Fine(a)
  BY <1>5, PutStarts DEF StartPut, files, Fine, Begins
<1>6. ASSUME NEW op \in OpNames, StartDelete(a, op) PROVE Fine(a)
  <2>1. op \notin Placing BY <1>6, DeleteStarts DEF Placing, Deleting
  <2> QED BY <1>6, <2>1, DeleteStarts DEF StartDelete, files, Fine, Begins
<1>7. ASSUME NEW op \in OpNames, StartPurge(a, op) PROVE Fine(a)
  <2>1. op \notin Placing BY <1>7, PurgeStarts DEF Placing
  <2> QED BY <1>7, <2>1, PurgeStarts DEF StartPurge, Fine, Begins
<1>8. CASE StartUndelete(a)
  BY <1>8, UndeleteStarts DEF StartUndelete, files, Fine, Begins, OpNames
<1>9. CASE StartDrop(a)
  BY <1>9, DropStarts DEF StartDrop, Fine, Begins, OpNames, Placing
<1>10. CASE StartRevert(a)
  BY <1>10, RevertStarts DEF StartRevert, files, Fine, Begins, OpNames
<1> QED BY <1>2, <1>3, <1>4, <1>5, <1>6, <1>7, <1>8, <1>9, <1>10 DEF Clearing, Starting, Start
-----------------------------------------------------------------------------
(* The types are kept.                                                     *)

Does(a) == Retaining(a) \/ Writing(a) \/ Moving(a) \/ Clearing(a) \/ Starting(a)

LEMMA NextDoes == Next => \E a \in Actors : Does(a)
BY DEF Next, Does, Start, Put, Delete, Discard, Retaining, Writing, Moving, Clearing, Starting

LEMMA DoesFine ==
  ASSUME Shapes, Whole, NEW a \in Actors, Does(a)
  PROVE  Shapes' /\ Fine(a)
BY RetainShapes, WriteShapes, MoveShapes, OtherShapes, RetainFine, WriteFine, MoveFine, OtherFine
   DEF Does

LEMMA PairedKept ==
  ASSUME Paired, NEW a \in Actors, Fine(a)
  PROVE  Paired'
<1> SUFFICES ASSUME NEW b \in Actors, NEW c \in Actors, b # c, reqs'[b].step # "idle",
                    reqs'[c].step # "idle"
             PROVE  {reqs'[b].op, reqs'[c].op} \in Together
  BY DEF Paired, At
<1>1. ASSUME NEW d \in Actors \ {a}, reqs'[d].step # "idle", reqs'[a].step # "idle"
      PROVE  {reqs'[a].op, reqs'[d].op} \in Together
  <2>1. ~ At(d, "idle") /\ reqs'[d].op = reqs[d].op BY <1>1 DEF Fine, Begins, Proceeds, Alone, At
  <2>2. CASE Begins(a) BY <2>1, <2>2 DEF Begins, MayStart
  <2>3. CASE Proceeds(a) BY <1>1, <2>1, <2>3 DEF Proceeds, Paired
  <2> QED BY <2>2, <2>3 DEF Fine
<1>2. CASE b = a BY <1>1, <1>2
<1>3. CASE c = a
  <2>1. {reqs'[b].op, reqs'[c].op} = {reqs'[c].op, reqs'[b].op} OBVIOUS
  <2> QED BY <1>1, <1>3, <2>1
<1>4. CASE b # a /\ c # a
  <2>1. ~ At(b, "idle") /\ reqs'[b].op = reqs[b].op /\ ~ At(c, "idle") /\ reqs'[c].op = reqs[c].op
    BY <1>4 DEF Fine, Begins, Proceeds, Alone, At
  <2> QED BY <2>1 DEF Paired
<1> QED BY <1>2, <1>3, <1>4

LEMMA InitTyped ==
  ASSUME Init
  PROVE  /\ Typed /\ \A a \in Actors : At(a, "idle")
         /\ \A v, w \in Holding : v = w
<1>1. PICK v \in Volumes \cup {None} :
        /\ disk = [w \in Volumes |-> IF w = v THEN 1 ELSE None]
        /\ row = IF v = None THEN NoRow
                 ELSE [status |-> "active", id |-> 1, vol |-> v, sum |-> 1]
        /\ landed = IF v = None THEN {} ELSE {1}
        /\ used = [uploads |-> Cardinality(landed), faults |-> 0, aborts |-> 0]
  BY DEF Init
<1>2. \A a \in Actors : reqs[a] = Rest BY DEF Init
<1>3. Whole BY Resting DEF Init, Whole
<1>4. Shapes
  <2>1. disk \in [Volumes -> Bytes] BY <1>1, Facts DEF Bytes
  <2>2. row \in Row BY <1>1, Facts DEF Row, NoRow, Bytes
  <2>3. Cardinality(landed) \in 0 .. 1 /\ landed \subseteq Uploads
    <3>1. Cardinality({}) = 0 /\ Cardinality({1}) = 1 BY FS_EmptySet, FS_Singleton
    <3> QED BY <1>1, <3>1, Facts
  <2>4. used \in Spending
    <3>1. MaxUploads >= 1 BY MasterAssumption
    <3>2. Cardinality(landed) \in 0 .. MaxUploads BY <2>3, <3>1, Facts
    <3>3. 0 \in 0 .. MaxFaults /\ 0 \in 0 .. MaxAborts BY Facts
    <3> QED BY <1>1, <3>2, <3>3 DEF Spending
  <2> QED BY <2>1, <2>2, <2>3, <2>4 DEF Shapes, Init, Bytes
<1>5. \A a \in Actors : At(a, "idle") BY <1>2, Resting DEF At
<1>6. \A w \in Holding : w = v BY <1>1 DEF Holding
<1> QED BY <1>3, <1>4, <1>5, <1>6 DEF Typed, Paired

LEMMA NextTyped ==
  ASSUME Typed, [Next]_vars
  PROVE  Typed'
<1>1. CASE UNCHANGED vars BY <1>1 DEF vars, Typed, Shapes, Whole, Paired, At
<1>2. CASE Next
  <2>1. PICK a \in Actors : Does(a) BY <1>2, NextDoes
  <2>2. Shapes' /\ Fine(a) BY <2>1, DoesFine DEF Typed
  <2> QED BY <2>2, PairedKept DEF Typed, Fine
<1> QED BY <1>1, <1>2

LEMMA TypedIsOK == Typed => TypeOK
<1> SUFFICES ASSUME Typed PROVE TypeOK OBVIOUS
<1>1. reqs \in [Actors -> Request] BY DEF Typed, Whole, Fitting
<1> QED BY <1>1 DEF Typed, TypeOK, Shapes, Spending

\* The state keeps its types, whatever the constants and whichever requests
\* overlap: what a request has noted of the master is of the kind it takes it for.
THEOREM TypeCorrect == Spec => []TypeOK
<1>1. Init => Typed BY InitTyped
<1>2. Typed /\ [Next]_vars => Typed' BY NextTyped
<1> QED BY <1>1, <1>2, TypedIsOK, PTL DEF Spec
-----------------------------------------------------------------------------
(* The bytes of a listed version.                                          *)

\* A number a request is about to use has no row yet.
Numbering == \A a \in Actors : reqs[a].step \in {"shelve", "insert"} => reqs[a].no \notin kept

\* No two requests retain the master at once.
RetainingApart == \A x, y \in {"put", "revert"} : {x, y} \notin Together

\* Who is about to use a number either has just chosen it or keeps it.
LEMMA NumberGiven ==
  ASSUME Shapes, Whole, NEW a \in Actors, Does(a), reqs'[a].step \in {"shelve", "insert"}
  PROVE  /\ kept' = kept
         /\ \/ reqs'[a].no \notin kept
            \/ At(a, "shelve") /\ reqs'[a].no = reqs[a].no
<1>1. ASSUME NEW s \in {"open", "copy", "check", "record", "unrecord", "revive", "unrow"}, Goto(a, s)
      PROVE FALSE
  <2>1. reqs[a] \in Request BY DEF Whole, Fitting
  <2>2. reqs'[a] = [reqs[a] EXCEPT !.step = s] BY <1>1 DEF Goto, Whole
  <2>3. reqs'[a].step = s BY <2>1, <2>2 DEF Request
  <2> QED BY <2>3
<1>2. ~ End(a) BY Ends
<1>3. ~ Goto(a, AfterRetain(a)) BY <1>1 DEF AfterRetain
<1>4. CASE Retaining(a)
  <2>1. CASE Look(a) BY <2>1, LookReqs
  <2>2. CASE Number(a) BY <2>2, NumberReqs DEF Number
  <2>3. CASE Insert(a) BY <2>3, InsertReqs
  <2>4. CASE Shelve(a)
    <3>1. At(a, "shelve") /\ Goto(a, "insert") /\ kept' = kept BY <1>3, <2>4 DEF Shelve
    <3>2. reqs[a] \in Fitting BY DEF Whole
    <3>3. Course("insert", reqs[a].op) /\ "insert" \in Steps
      BY <3>1, <3>2 DEF Course, Steps, Fitting, At
    <3>4. Same(reqs[a], reqs'[a]) BY <3>1, <3>3, Goes DEF At
    <3> QED BY <3>1, <3>4 DEF Same
  <2> QED BY <1>3, <1>4, <2>1, <2>2, <2>3, <2>4 DEF Retaining, Trim, TrimFails
<1>5. CASE Writing(a)
  BY <1>1, <1>2, <1>5, OpenReqs DEF Writing, Land, Break, RollBack, Accept, Record
<1>6. CASE Moving(a)
  BY <1>1, <1>2, <1>6 DEF Moving, Bin, Unrecord, MoveBack, Revive, Copy
<1>7. CASE Clearing(a) BY <1>1, <1>2, <1>7 DEF Clearing, EmptyTrash, Unrow, Undrop
<1>8. CASE Starting(a)
  BY <1>8, PutStarts, DeleteStarts, PurgeStarts, UndeleteStarts, DropStarts, RevertStarts
  DEF Starting, Start
<1> QED BY <1>4, <1>5, <1>6, <1>7, <1>8 DEF Does

LEMMA KeptGrows ==
  ASSUME NEW a \in Actors, Does(a), ~ Insert(a)
  PROVE  kept' \subseteq kept
<1>1. CASE Retaining(a) BY <1>1 DEF Retaining, Look, Number, Shelve, Trim, TrimFails
<1>2. CASE Writing(a)
  BY <1>2 DEF Writing, Open, Land, Break, RollBack, Accept, Record
<1>3. CASE Moving(a) BY <1>3 DEF Moving, Bin, Unrecord, MoveBack, Revive, Copy
<1>4. CASE Clearing(a) BY <1>4 DEF Clearing, EmptyTrash, Unrow, Undrop
<1>5. CASE Starting(a)
  BY <1>5 DEF Starting, Start, StartPut, StartDelete, StartPurge, StartUndelete, StartDrop,
              StartRevert
<1> QED BY <1>1, <1>2, <1>3, <1>4, <1>5 DEF Does

\* Bytes are put in the store under a number that was chosen for them, and
\* otherwise only taken out.
LEMMA StoreWritten ==
  ASSUME Shapes, Whole, NEW a \in Actors, Does(a), NEW n \in Numbers,
         store'[n] \notin {store[n], None}
  PROVE  Shelve(a) /\ n = reqs[a].no
<1>1. ASSUME NEW ns \in SUBSET Numbers, store' = Unstored(ns) PROVE FALSE
  BY <1>1 DEF Unstored
<1>2. store' # store OBVIOUS
<1>3. CASE Retaining(a)
  <2>1. CASE Shelve(a)
    <3>1. store' = [store EXCEPT ![reqs[a].no] = disk[reqs[a].src]]
      BY <1>2, <2>1 DEF Shelve, files
    <3> QED BY <2>1, <3>1 DEF Shapes
  <2>2. CASE Trim(a)
    <3>1. Doomed \in SUBSET Numbers BY DEF Doomed, Shapes
    <3> QED BY <1>1, <2>2, <3>1 DEF Trim
  <2> QED BY <1>2, <1>3, <2>1, <2>2 DEF Retaining, Look, Number, Insert, TrimFails, files
<1>4. CASE Writing(a)
  BY <1>2, <1>4 DEF Writing, Open, Land, Break, RollBack, Accept, Record, files
<1>5. CASE Moving(a)
  BY <1>2, <1>5 DEF Moving, Bin, Unrecord, MoveBack, Revive, Copy, files
<1>6. CASE Clearing(a) BY <1>2, <1>6 DEF Clearing, EmptyTrash, Unrow, Undrop, files
<1>7. CASE Starting(a)
  <2>1. ASSUME NEW op \in OpNames, StartPurge(a, op) PROVE FALSE
    <3>1. kept \in SUBSET Numbers BY DEF Shapes
    <3> QED BY <1>1, <1>2, <2>1, <3>1 DEF StartPurge
  <2>2. CASE StartDrop(a)
    <3>1. {reqs'[a].want} \in SUBSET Numbers BY <2>2, DropStarts DEF Shapes
    <3> QED BY <1>1, <2>2, <3>1, DropStarts
  <2> QED BY <1>2, <1>7, <2>1, <2>2 DEF Starting, Start, StartPut, StartDelete,
             StartUndelete, StartRevert, files
<1> QED BY <1>3, <1>4, <1>5, <1>6, <1>7 DEF Does

LEMMA NextNumbering ==
  ASSUME RetainingApart, Typed, Numbering, [Next]_vars
  PROVE  Numbering'
<1>1. CASE UNCHANGED vars BY <1>1 DEF vars, Numbering
<1>2. CASE Next
  <2>1. PICK a \in Actors : Does(a) BY <1>2, NextDoes
  <2>2. Shapes /\ Whole /\ Fine(a) BY <2>1, DoesFine DEF Typed
  <2> SUFFICES ASSUME NEW b \in Actors, reqs'[b].step \in {"shelve", "insert"}
               PROVE  reqs'[b].no \notin kept'
    BY DEF Numbering
  <2>3. CASE b = a BY <2>1, <2>2, <2>3, NumberGiven DEF Numbering, At
  <2>4. CASE b # a
    <3>1. reqs[b].step \in {"shelve", "insert"} /\ reqs'[b].no = reqs[b].no
      BY <2>2, <2>4 DEF Fine, Begins, Proceeds, Alone
    <3>2. reqs[b].no \notin kept BY <3>1 DEF Numbering
    <3>3. ~ Insert(a)
      <4> SUFFICES ASSUME Insert(a) PROVE FALSE OBVIOUS
      <4>1. reqs[a].op \in {"put", "revert"} /\ ~ At(a, "idle") BY <2>2, InsertReqs DEF Insert, At
      <4>2. reqs[b] \in Fitting BY <2>2 DEF Whole
      <4>3. reqs[b].op \in {"put", "revert"} /\ ~ At(b, "idle")
        BY <3>1, <4>2 DEF Fitting, Course, At
      <4>4. {reqs[a].op, reqs[b].op} \in Together BY <2>4, <4>1, <4>3 DEF Typed, Paired
      <4> QED BY <4>1, <4>3, <4>4 DEF RetainingApart
    <3> QED BY <2>1, <3>1, <3>2, <3>3, KeptGrows
  <2> QED BY <2>3, <2>4
<1> QED BY <1>1, <1>2

\* A listed version keeps its bytes until it is given up: where no two requests
\* retain at once, retain() takes a number no row has, and moves the bytes there
\* before a row of that number can appear.
THEOREM VersionsAreFrozen == ASSUME RetainingApart PROVE Spec => VersionFrozen
<1>1. Init => Typed /\ Numbering
  <2> SUFFICES ASSUME Init PROVE Numbering BY InitTyped
  <2> QED BY InitTyped DEF Numbering, At
<1>2. Typed /\ Numbering /\ [Next]_vars => (Typed /\ Numbering)' BY NextTyped, NextNumbering
<1>3. Typed /\ Numbering /\ [Next]_vars
        => [\A n \in kept \cap kept' : store'[n] \in {store[n], None}]_vars
  <2> SUFFICES ASSUME Typed, Numbering, Next, NEW n \in kept \cap kept',
                      store'[n] \notin {store[n], None}
               PROVE  FALSE
    OBVIOUS
  <2>1. PICK a \in Actors : Does(a) BY NextDoes
  <2>2. Shapes /\ Whole /\ n \in Numbers BY DEF Typed, Shapes
  <2>3. Shelve(a) /\ n = reqs[a].no BY <2>1, <2>2, StoreWritten
  <2> QED BY <2>3 DEF Numbering, Shelve, At
<1> QED BY <1>1, <1>2, <1>3, PTL DEF Spec, VersionFrozen
-----------------------------------------------------------------------------
(* One copy.                                                               *)

\* No two requests place the master at once, unless both bring it back from the
\* trash: the second of those finds nothing there any more.
PlacingApart ==
  \A x, y \in Placing : {x, y} \in Together => x = "undelete" /\ y = "undelete"

\* A request that has yet to put bytes in place, of its own or from the trash.
Placer(a) == /\ ~ At(a, "idle") /\ reqs[a].op \in Placing
             /\ reqs[a].op # "undelete" \/ trash # None

\* The bytes there are lie where a placement under way will put its own.
Bound ==
  /\ \A v, w \in Holding : v = w
  /\ \A a \in Actors : Placer(a) => Holding \subseteq {reqs[a].vol}

LEMMA PlacedThere ==
  ASSUME ReadOnly = {}, \A v, w \in Holding : v = w, NEW v \in Places
  PROVE  Holding \subseteq {v}
<1>1. Writable = Volumes BY DEF Writable
<1>2. CASE Found \in Writable
  <2>1. Found # None BY <1>1, <1>2, Facts
  <2>2. Found \in Holding BY <2>1, FoundThere
  <2> QED BY <1>2, <2>2 DEF Places
<1>3. CASE Found \notin Writable
  <2>1. Holding = {} BY <1>1, <1>3, FoundThere, Facts DEF Holding
  <2> QED BY <2>1
<1> QED BY <1>2, <1>3

LEMMA BeginsBound ==
  ASSUME ReadOnly = {}, Bound, NEW a \in Actors, Begins(a)
  PROVE  Bound'
<1>1. Holding' = Holding /\ trash' = trash BY DEF Begins, Holding
<1>2. ASSUME NEW b \in Actors \ {a} PROVE Placer(b)' = Placer(b) /\ reqs'[b].vol = reqs[b].vol
  BY <1>1 DEF Begins, Alone, Placer, At
<1>3. Placer(a)' => Holding \subseteq {reqs'[a].vol}
  <2> SUFFICES ASSUME Placer(a)' PROVE Holding \subseteq {reqs'[a].vol} OBVIOUS
  <2>1. PICK v \in Places : v = reqs'[a].vol BY DEF Placer, Begins
  <2> QED BY <2>1, PlacedThere DEF Bound
<1> QED BY <1>1, <1>2, <1>3 DEF Bound

LEMMA ProceedsBound ==
  ASSUME PlacingApart, Paired, Bound, NEW a \in Actors, Proceeds(a)
  PROVE  Bound'
<1>1. ASSUME NEW b \in Actors, Placer(b)'
      PROVE  /\ ~ At(b, "idle") /\ reqs[b].op \in Placing /\ reqs'[b].op = reqs[b].op
             /\ reqs'[b].vol = reqs[b].vol
             /\ reqs[b].op # "undelete" \/ trash' # None
  BY <1>1 DEF Proceeds, Alone, Placer, At
<1>2. CASE Holding' \subseteq Holding /\ (trash' # None => trash # None)
  <2>1. \A b \in Actors : Placer(b)' => Placer(b) /\ reqs'[b].vol = reqs[b].vol
    BY <1>1, <1>2 DEF Placer
  <2> QED BY <1>2, <2>1 DEF Bound
<1>3. CASE trash' # None /\ trash = None
  <2>1. Holding' \subseteq Holding /\ \E v \in Holding : v \notin Holding'
    BY <1>3 DEF Proceeds, Holding
  <2>2. Holding' = {} BY <2>1 DEF Bound
  <2> QED BY <2>2 DEF Bound
<1>4. CASE ~ (Holding' \subseteq Holding) /\ (trash' # None => trash # None)
  <2>1. PICK v \in Volumes : disk'[v] # None /\ disk[v] = None BY <1>4 DEF Holding
  <2>2. /\ reqs[a].op \in Placing /\ v = reqs[a].vol
        /\ reqs[a].op = "undelete" => trash # None /\ trash' = None
    BY <2>1 DEF Proceeds
  <2>3. Placer(a) BY <2>2 DEF Placer, Proceeds
  <2>4. Holding' \subseteq {v}
    <3>1. \A w \in Holding' : w \in Holding \/ w = v BY <2>2 DEF Proceeds, Holding
    <3>2. Holding \subseteq {v} BY <2>2, <2>3 DEF Bound
    <3> QED BY <3>1, <3>2
  <2>5. ASSUME NEW b \in Actors, Placer(b)' PROVE reqs'[b].vol = v
    <3>1. CASE b = a BY <1>1, <2>2, <2>5, <3>1
    <3>2. CASE b # a
      <4>1. {reqs[a].op, reqs[b].op} \in Together BY <1>1, <2>5, <3>2 DEF Paired, Proceeds
      <4>2. reqs[a].op = "undelete" /\ reqs[b].op = "undelete"
        BY <1>1, <2>2, <2>5, <4>1 DEF PlacingApart
      <4> QED BY <1>1, <2>2, <2>5, <4>2
    <3> QED BY <3>1, <3>2
  <2> QED BY <2>4, <2>5 DEF Bound
<1> QED BY <1>2, <1>3, <1>4

LEMMA NextBound ==
  ASSUME ReadOnly = {}, PlacingApart, Typed, Bound, [Next]_vars
  PROVE  Bound'
<1>1. CASE UNCHANGED vars BY <1>1 DEF vars, Bound, Holding, Placer, At
<1>2. CASE Next
  <2>1. PICK a \in Actors : Does(a) BY <1>2, NextDoes
  <2>2. Fine(a) BY <2>1, DoesFine DEF Typed
  <2> QED BY <2>2, BeginsBound, ProceedsBound DEF Fine, Typed
<1> QED BY <1>1, <1>2

LEMMA InitBound == Init => Bound
BY InitTyped DEF Bound, Placer

LEMMA OneHeld ==
  ASSUME \A v, w \in Holding : v = w
  PROVE  /\ Holding = {} \/ Holding = {Found}
         /\ Cardinality(Holding) <= 1
<1>1. CASE Holding = {} BY <1>1, FS_EmptySet
<1>2. CASE Holding # {}
  <2>1. Holding = {Found} BY <1>2, FoundThere
  <2> QED BY <2>1, FS_Singleton
<1> QED BY <1>1, <1>2

\* A master is never on two volumes, whatever the number of volumes, requests
\* and versions, if no two requests place it at once: placeWrite() finds the
\* copy there is, and until its own bytes land nobody else puts any elsewhere.
\* Two restores from the trash may meet: the bytes are there for one only.
THEOREM NeverASecondCopy == ASSUME PlacingApart PROVE Spec => []OneCopy
<1> DEFINE Inv == ReadOnly = {} => Bound
<1>1. Init => Typed /\ Inv BY InitTyped, InitBound
<1>2. Typed /\ Inv /\ [Next]_vars => (Typed /\ Inv)' BY NextTyped, NextBound
<1>3. Inv => OneCopy BY OneHeld DEF OneCopy, Bound
<1> HIDE DEF Inv
<1> QED BY <1>1, <1>2, <1>3, PTL DEF Spec
-----------------------------------------------------------------------------
(* Where operations overlap only as Safe lets them.                        *)

LEMMA Pairs ==
  ASSUME NEW x, NEW y, NEW p, NEW q, {x, y} = {p, q}
  PROVE  (x = p /\ y = q) \/ (x = q /\ y = p)
<1>1. x \in {p, q} /\ y \in {p, q} /\ p \in {x, y} /\ q \in {x, y} OBVIOUS
<1> QED BY <1>1

\* A placement meets no other and no delete, but two restores from the trash
\* may meet; what gives the master up meets no restore and no delete.
Apart(x, y) ==
  /\ x \in Placing => y \notin Deleting /\ (y \in Placing => x = "undelete" /\ y = "undelete")
  /\ x \in {"revert", "undelete"} => y \notin {"purge", "empty"}
  /\ x \in Deleting => y \notin Placing \cup {"purge", "empty"}
  /\ x \in {"purge", "empty"} => y \notin {"revert", "undelete"} \cup Deleting

LEMMA SafeIsApart ==
  ASSUME NEW x, NEW y, {x, y} \in Safe
  PROVE  Apart(x, y)
<1> USE DEF Apart, Placing, Deleting, Uploading
<1>1. CASE \E p \in Uploading \cup {"empty", "purge"} : {x, y} = {p, "purge"}
  <2>1. PICK p \in Uploading \cup {"empty", "purge"} : {x, y} = {p, "purge"} BY <1>1
  <2>2. (x = p /\ y = "purge") \/ (x = "purge" /\ y = p) BY <2>1, Pairs
  <2> QED BY <2>1, <2>2
<1>2. CASE \E p \in Uploading \cup {"empty"} : {x, y} = {p, "empty"}
  <2>1. PICK p \in Uploading \cup {"empty"} : {x, y} = {p, "empty"} BY <1>2
  <2>2. (x = p /\ y = "empty") \/ (x = "empty" /\ y = p) BY <2>1, Pairs
  <2> QED BY <2>1, <2>2
<1>3. CASE \E p \in OpNames : {x, y} = {p, "drop"}
  <2>1. PICK p \in OpNames : {x, y} = {p, "drop"} BY <1>3
  <2>2. (x = p /\ y = "drop") \/ (x = "drop" /\ y = p) BY <2>1, Pairs
  <2> QED BY <2>1, <2>2
<1>4. CASE \E p \in Deleting, q \in Deleting : {x, y} = {p, q}
  <2>1. PICK p \in Deleting, q \in Deleting : {x, y} = {p, q} BY <1>4
  <2>2. (x = p /\ y = q) \/ (x = q /\ y = p) BY <2>1, Pairs
  <2> QED BY <2>1, <2>2
<1>5. CASE {x, y} = {"undelete"}
  <2>1. x = "undelete" /\ y = "undelete" BY <1>5
  <2> QED BY <2>1
<1> QED BY <1>1, <1>2, <1>3, <1>4, <1>5 DEF Safe

LEMMA Careful ==
  ASSUME Together \subseteq Safe
  PROVE  RetainingApart /\ PlacingApart
<1>1. ASSUME NEW x, NEW y, {x, y} \in Together PROVE Apart(x, y) BY <1>1, SafeIsApart
<1> QED BY <1>1 DEF RetainingApart, PlacingApart, Apart, Placing

LEMMA Others ==
  ASSUME Together \subseteq Safe, Paired, NEW a \in Actors, NEW b \in Actors \ {a},
         ~ At(a, "idle"), ~ At(b, "idle")
  PROVE  Apart(reqs[a].op, reqs[b].op)
BY SafeIsApart DEF Paired

LEMMA OthersAtStart ==
  ASSUME Together \subseteq Safe, NEW a \in Actors, NEW op, MayStart(a, op),
         NEW b \in Actors \ {a}, ~ At(b, "idle")
  PROVE  Apart(op, reqs[b].op)
BY SafeIsApart DEF MayStart

-----------------------------------------------------------------------------
(* The invariant of a master whose statements do not fail.                 *)

\* What a request relies on of where the master is: the copy it is to retain
\* is the only one, with an active row; it is gone from where a put, a restored
\* version or its like will come; a restore has a row to revive; a delete
\* removes the only copy.
Sure(a) ==
  /\ reqs[a].step \in {"number", "shelve"} =>
       Holding = {reqs[a].src} /\ row.status = "active"
  /\ reqs[a].step \in {"shelve", "insert"} => row.status = "active" /\ row.id = reqs[a].id
  /\ \/ reqs[a].step \in {"insert", "trim", "copy", "unrecord"}
     \/ reqs[a].step \in {"open", "stream"} /\ reqs[a].op = "put"
     => Holding = {}
  /\ reqs[a].step # "idle" /\ reqs[a].op = "revert" => row.status # "absent"
  /\ reqs[a].step # "idle" /\ reqs[a].op = "undelete" =>
       row.status # "absent" /\ row.id = reqs[a].id
  /\ reqs[a].step = "move" => trash = None \/ Holding = {}
  /\ reqs[a].step = "revive" /\ reqs[a].op = "undelete" => trash = None
  /\ reqs[a].step = "bin" => Holding \subseteq {reqs[a].vol}

\* Bytes that are served have an active row, or a request that will give them one.
Vouched == Holding # {} =>
  row.status = "active" \/ \E a \in Actors : reqs[a].step \in {"check", "record", "revive"}

Presence == Vouched /\ \A a \in Actors : Sure(a)

\* The versions that have a row: there are none when a purge may take the row of
\* the file; each has its bytes, unless a removal has taken them, and they are
\* within the limit, or one above while it is about to be enforced.
Cleared(a) == reqs[a].step \in {"empty", "unrow"} /\ row.status = "trashed" => kept = {}
Dropped(a) == reqs[a].step = "undrop" /\ reqs[a].want \in kept => store[reqs[a].want] = None
Backed == \A n \in kept :
  store[n] # None \/ \E a \in Actors : reqs[a].step = "undrop" /\ reqs[a].want = n
Limited == \/ Cardinality(kept) <= RetainCount
           \/ /\ Cardinality(kept) <= RetainCount + 1
              /\ \E a \in Actors : reqs[a].step = "trim"
Listing ==
  /\ \A a \in Actors : Cleared(a) /\ Dropped(a)
                       /\ (reqs[a].step = "insert" => store[reqs[a].no] # None)
  /\ kept # {} => row.status # "absent"
  /\ Backed /\ Limited

\* Nothing is lost: what has landed is held, or stored for a row to come.
Saved == \A u \in landed \ gone :
  u \in Held \/ \E a \in Actors : reqs[a].step = "insert" /\ store[reqs[a].no] = u

Calm == Presence /\ Listing /\ Saved
Good == Typed /\ Numbering /\ Bound /\ Calm

LEMMA FaultFree ==
  ASSUME Shapes, Whole, NEW a \in Actors, Does(a), used'.faults = 0
  PROVE  used.faults = 0 /\ ~ Fault
<1>1. used \in Spending BY DEF Shapes
<1>2. used.faults \in Nat BY <1>1, Facts DEF Spending
<1>3. Fault => used'.faults = used.faults + 1 BY <1>1 DEF Fault, Spending
<1>4. ~ Fault BY <1>2, <1>3
<1>5. Abort => used'.faults = used.faults BY <1>1 DEF Abort, Spending
<1>6. ASSUME used' # used, ~ Abort PROVE used'.faults = used.faults
  <2>1. ~ Retaining(a) BY <1>4, <1>6 DEF Retaining, Look, Number, Shelve, Insert, Trim, TrimFails
  <2>2. ~ Writing(a) BY <1>4, <1>6 DEF Writing, Open, Land, Break, RollBack, Accept, Record
  <2>3. ~ Moving(a) BY <1>4, <1>6 DEF Moving, Bin, Unrecord, MoveBack, Revive, Copy
  <2>4. ~ Clearing(a) BY <1>6 DEF Clearing, EmptyTrash, Unrow, Undrop
  <2>5. Starting(a) BY <2>1, <2>2, <2>3, <2>4 DEF Does
  <2>6. PICK op \in OpNames : StartPut(a, op)
    BY <1>6, <2>5 DEF Starting, Start, StartDelete, StartPurge, StartUndelete, StartDrop,
                      StartRevert
  <2> QED BY <2>6, PutStarts
<1> QED BY <1>4, <1>5, <1>6
-----------------------------------------------------------------------------
(* What a step leaves of the other requests' certainties.                  *)

LEMMA SureFree ==
  ASSUME NEW b \in Actors, Whole',
         reqs'[b].step = "idle" \/ reqs'[b].op \notin Placing \cup Deleting
  PROVE  Sure(b)'
<1>1. reqs'[b] \in Fitting BY DEF Whole
<1> QED BY <1>1 DEF Sure, Fitting, Course, Placing

LEMMA SureKept ==
  ASSUME NEW a \in Actors, Alone(a), Presence, Holding' = Holding,
         row'.status = row.status, row'.id = row.id, trash' \in {trash, None}
  PROVE  \A b \in Actors \ {a} : Sure(b)'
<1> SUFFICES ASSUME NEW b \in Actors \ {a} PROVE Sure(b)' OBVIOUS
<1>1. Sure(b) BY DEF Presence
<1>2. /\ reqs'[b].op = reqs[b].op /\ reqs'[b].step = reqs[b].step /\ reqs'[b].vol = reqs[b].vol
      /\ reqs'[b].src = reqs[b].src /\ reqs'[b].id = reqs[b].id
  BY DEF Alone
<1> QED BY <1>1, <1>2 DEF Sure

\* A placement of a put or a version meets nobody who relies on anything.
LEMMA SureApart ==
  ASSUME Together \subseteq Safe, Paired, NEW a \in Actors, Fine(a), ~ At(a, "idle"),
         reqs[a].op \in Placing \ {"undelete"}
  PROVE  \A b \in Actors \ {a} :
           /\ Sure(b)'
           /\ At(b, "idle") \/ reqs[b].op \notin Placing \cup Deleting
<1> SUFFICES ASSUME NEW b \in Actors \ {a}
             PROVE  Sure(b)' /\ (At(b, "idle") \/ reqs[b].op \notin Placing \cup Deleting)
  OBVIOUS
<1>1. At(b, "idle") \/ reqs[b].op \notin Placing \cup Deleting BY Others DEF Apart
<1>2. Whole' /\ reqs'[b].op = reqs[b].op /\ reqs'[b].step = reqs[b].step
  BY DEF Fine, Begins, Proceeds, Alone
<1> QED BY <1>1, <1>2, SureFree DEF At

\* A restore from the trash meets at most others, for which nothing is left.
LEMMA SureRestored ==
  ASSUME Together \subseteq Safe, Paired, NEW a \in Actors, Fine(a), ~ At(a, "idle"),
         reqs[a].op = "undelete", Presence, row'.id = row.id, trash' = None,
         row.status # "absent" => row'.status # "absent"
  PROVE  \A b \in Actors \ {a} : Sure(b)'
<1> SUFFICES ASSUME NEW b \in Actors \ {a} PROVE Sure(b)' OBVIOUS
<1>1. At(b, "idle") \/ reqs[b].op \notin Placing \cup Deleting \/ reqs[b].op = "undelete"
  BY Others DEF Apart, Placing
<1>2. /\ Whole' /\ reqs'[b].op = reqs[b].op /\ reqs'[b].step = reqs[b].step
      /\ reqs'[b].id = reqs[b].id
  BY DEF Fine, Begins, Proceeds, Alone
<1>3. CASE reqs[b].op = "undelete" /\ ~ At(b, "idle")
  <2>1. Sure(b) BY DEF Presence
  <2>2. reqs'[b] \in Fitting BY <1>2 DEF Whole
  <2>3. Course(reqs[b].step, "undelete") BY <1>2, <1>3, <2>2 DEF Fitting
  <2> QED BY <1>2, <1>3, <2>1, <2>3 DEF Sure, Course, Deleting, At
<1> QED BY <1>1, <1>2, <1>3, SureFree DEF At

LEMMA VouchedKept ==
  ASSUME NEW a \in Actors, Alone(a), Vouched, Holding' \subseteq Holding,
         row'.status = row.status,
         \/ reqs[a].step \notin {"check", "record", "revive"}
         \/ reqs'[a].step \in {"check", "record", "revive"}
  PROVE  Vouched'
<1> SUFFICES ASSUME Holding' # {}, row'.status # "active"
             PROVE  \E b \in Actors : reqs'[b].step \in {"check", "record", "revive"}
  BY DEF Vouched
<1>1. PICK b \in Actors : reqs[b].step \in {"check", "record", "revive"} BY DEF Vouched
<1>2. b # a => reqs'[b].step = reqs[b].step BY DEF Alone
<1> QED BY <1>1, <1>2

-----------------------------------------------------------------------------
(* Where the master is: step by step.                                      *)

\* What retain() finds, where nothing fails: each of its steps succeeds.
LEMMA LookCalm ==
  ASSUME Together \subseteq Safe, Good, NEW a \in Actors, Look(a)
  PROVE  \/ /\ Holding = {}
            /\ reqs'[a].step = IF reqs[a].op = "put" THEN "open" ELSE "copy"
         \/ /\ reqs'[a].step = "number" /\ Holding = {reqs'[a].src} /\ row.status = "active"
<1> USE DEF Good, Typed, Calm
<1>1. reqs[a].op \in {"put", "revert"} /\ At(a, "look") BY LookReqs DEF Look
<1>2. CASE Found = None
  <2>1. Holding \subseteq Volumes BY DEF Holding
  <2>2. Holding = {} BY <1>2, <2>1, FoundThere, Facts
  <2>3. reqs'[a].step = IF reqs[a].op = "put" THEN "open" ELSE "copy" BY <1>2, LookReqs
  <2> QED BY <2>2, <2>3
<1>3. CASE Found # None
  <2>1. Holding = {Found} BY <1>3, FoundThere, OneHeld DEF Bound
  <2>2. row.status = "active"
    <3> SUFFICES ASSUME NEW b \in Actors, reqs[b].step \in {"check", "record", "revive"}
                 PROVE  FALSE
      BY <2>1 DEF Presence, Vouched
    <3>1. reqs[b] \in Fitting BY DEF Whole
    <3>2. reqs[b].op \in Placing /\ ~ At(b, "idle") /\ b # a
      BY <1>1, <3>1 DEF Fitting, Course, Placing, At
    <3>3. ~ At(a, "idle") /\ reqs[a].op \in Placing BY <1>1 DEF At, Placing
    <3> QED BY <1>1, <3>2, <3>3, Others DEF Apart
  <2> QED BY <1>3, <2>1, <2>2, LookReqs
<1> QED BY <1>2, <1>3

LEMMA NumberCalm ==
  ASSUME Good, ~ Fault, NEW a \in Actors, Number(a)
  PROVE  /\ reqs'[a].step = "shelve" /\ reqs'[a].id = row.id
         /\ reqs'[a].src = reqs[a].src /\ Holding = {reqs[a].src} /\ row.status = "active"
<1> USE DEF Good, Typed, Calm
<1>1. Sure(a) /\ reqs[a].step = "number" BY DEF Presence, Number, At
<1>2. Holding = {reqs[a].src} /\ row.status = "active" BY <1>1 DEF Sure
<1>3. disk[reqs[a].src] # None BY <1>2 DEF Holding
<1> QED BY <1>2, <1>3, NumberReqs

LEMMA ShelveCalm ==
  ASSUME Good, NEW a \in Actors, Shelve(a)
  PROVE  /\ reqs'[a].step = "insert" /\ reqs'[a].id = reqs[a].id /\ reqs'[a].no = reqs[a].no
         /\ Holding = {reqs[a].src} /\ Holding' = {} /\ reqs[a].src \in Volumes
         /\ disk[reqs[a].src] # None /\ reqs[a].no \in Numbers /\ reqs[a].no \notin kept
         /\ disk' = [disk EXCEPT ![reqs[a].src] = None]
         /\ store' = [store EXCEPT ![reqs[a].no] = disk[reqs[a].src]]
         /\ row.status = "active" /\ row.id = reqs[a].id
         /\ reqs[a].op \in {"put", "revert"} /\ reqs'[a].op = reqs[a].op
         /\ UNCHANGED <<trash, kept, row, landed, gone>>
<1> USE DEF Good, Typed, Calm
<1>1. Sure(a) /\ reqs[a].step = "shelve" /\ reqs[a].no \notin kept
  BY DEF Presence, Shelve, At, Numbering
<1>2. Holding = {reqs[a].src} /\ row.status = "active" /\ row.id = reqs[a].id BY <1>1 DEF Sure
<1>3. PICK v \in Volumes : v = reqs[a].src /\ disk[v] # None BY <1>2 DEF Holding
<1>4. /\ store' = [store EXCEPT ![reqs[a].no] = disk[v]] /\ disk' = [disk EXCEPT ![v] = None]
      /\ Goto(a, "insert") /\ UNCHANGED <<trash, kept, row, landed, gone>>
  BY <1>3 DEF Shelve
<1>5. reqs[a] \in Fitting BY DEF Whole
<1>6. reqs[a].op \in {"put", "revert"} /\ reqs[a].no \in Numbers
  BY <1>1, <1>5 DEF Fitting, Course, Fields
<1>7. Course("insert", reqs[a].op) /\ "insert" \in Steps BY <1>6 DEF Course, Steps
<1>8. reqs'[a].step = "insert" /\ Same(reqs[a], reqs'[a]) BY <1>1, <1>4, <1>7, Goes
<1>9. Holding' = {}
  <2>1. \A w \in Volumes : disk'[w] = IF w = v THEN None ELSE disk[w] BY <1>4 DEF Shapes
  <2> QED BY <1>2, <1>3, <2>1 DEF Holding
<1> QED BY <1>1, <1>2, <1>3, <1>4, <1>6, <1>8, <1>9 DEF Same

LEMMA InsertCalm ==
  ASSUME Good, ~ Fault, NEW a \in Actors, Insert(a)
  PROVE  /\ reqs'[a].step = "trim" /\ Holding = {} /\ row.status = "active"
         /\ reqs[a].no \in Numbers /\ reqs[a].no \notin kept /\ kept' = kept \cup {reqs[a].no}
         /\ store[reqs[a].no] # None
         /\ \A b \in Actors : reqs'[b].step = "undrop" => reqs'[b].want # reqs[a].no
<1> USE DEF Good, Typed, Calm
<1>1. Sure(a) /\ reqs[a].step = "insert" /\ reqs[a].no \notin kept
  BY DEF Presence, Insert, At, Numbering
<1>2. Holding = {} /\ row.status = "active" /\ row.id = reqs[a].id BY <1>1 DEF Sure
<1>3. store[reqs[a].no] # None BY <1>1 DEF Listing
<1> QED BY <1>1, <1>2, <1>3, InsertReqs

LEMMA TrimCalm ==
  ASSUME Good, NEW a \in Actors, Trim(a)
  PROVE  /\ reqs'[a].step = IF reqs[a].op = "put" THEN "open" ELSE "copy"
         /\ Holding = {} /\ reqs[a].op \in {"put", "revert"} /\ Same(reqs[a], reqs'[a])
<1> USE DEF Good, Typed, Calm
<1>1. Sure(a) /\ reqs[a].step = "trim" /\ Goto(a, AfterRetain(a)) BY DEF Presence, Trim, At
<1>2. reqs[a] \in Fitting BY DEF Whole
<1>3. reqs[a].op \in {"put", "revert"} BY <1>1, <1>2 DEF Fitting, Course
<1> QED BY <1>1, <1>3, Resumes DEF Sure
LEMMA RetainPresence ==
  ASSUME Together \subseteq Safe, Good, ~ Fault, NEW a \in Actors, Retaining(a)
  PROVE  Presence'
<1> USE DEF Good, Typed, Calm
<1>1. reqs[a] \in Fitting /\ Fine(a) BY RetainFine DEF Whole
<1>2. /\ reqs[a].step \in {"look", "number", "shelve", "insert", "trim"}
      /\ reqs[a].op \in {"put", "revert"}
  BY <1>1 DEF Retaining, Look, Number, Shelve, Insert, Trim, TrimFails, At, Fitting, Course
<1>3. \A b \in Actors \ {a} : Sure(b)'
  BY <1>1, <1>2, SureApart DEF At, Placing
<1>4. Alone(a) /\ (reqs'[a].step = "idle" \/ reqs'[a].op = reqs[a].op)
  BY <1>1, <1>2 DEF Fine, Begins, Proceeds, MayStart, At
<1>5. Vouched /\ Sure(a) BY DEF Presence
<1>6. row' = row BY DEF Retaining, Look, Number, Shelve, Insert, Trim, TrimFails
<1>7. reqs[a].op = "revert" => row.status # "absent" BY <1>2, <1>5 DEF Sure
<1>8. CASE Look(a)
  <2>1. Holding' = Holding BY <1>8 DEF Look, files, Holding
  <2>2. Sure(a)' BY <1>2, <1>4, <1>6, <1>7, <1>8, <2>1, LookCalm DEF Sure
  <2>3. Vouched' BY <1>2, <1>4, <1>5, <1>6, <2>1, VouchedKept
  <2> QED BY <1>3, <2>2, <2>3 DEF Presence
<1>9. CASE Number(a)
  <2>1. Holding' = Holding BY <1>9 DEF Number, files, Holding
  <2>2. Sure(a)' BY <1>2, <1>4, <1>6, <1>7, <1>9, <2>1, NumberCalm DEF Sure
  <2>3. Vouched' BY <1>2, <1>4, <1>5, <1>6, <2>1, VouchedKept
  <2> QED BY <1>3, <2>2, <2>3 DEF Presence
<1>10. CASE Shelve(a)
  <2>1. Sure(a)' BY <1>2, <1>4, <1>6, <1>7, <1>10, ShelveCalm DEF Sure
  <2>2. Vouched' BY <1>10, ShelveCalm DEF Vouched
  <2> QED BY <1>3, <2>1, <2>2 DEF Presence
<1>11. CASE Insert(a)
  <2>1. Holding' = Holding BY <1>11 DEF Insert, files, Holding
  <2>2. Sure(a)' BY <1>2, <1>4, <1>6, <1>7, <1>11, <2>1, InsertCalm DEF Sure
  <2>3. Vouched' BY <1>2, <1>4, <1>5, <1>6, <2>1, VouchedKept
  <2> QED BY <1>3, <2>2, <2>3 DEF Presence
<1>12. CASE Trim(a)
  <2>1. Holding' = Holding BY <1>12 DEF Trim, Holding
  <2>2. Sure(a)' BY <1>2, <1>4, <1>6, <1>7, <1>12, <2>1, TrimCalm DEF Sure
  <2>3. Vouched' BY <1>2, <1>4, <1>5, <1>6, <2>1, VouchedKept
  <2> QED BY <1>3, <2>2, <2>3 DEF Presence
<1> QED BY <1>8, <1>9, <1>10, <1>11, <1>12 DEF Retaining, TrimFails

LEMMA WritePresence ==
  ASSUME Together \subseteq Safe, Good, ~ Fault, NEW a \in Actors, Writing(a)
  PROVE  Presence'
<1> USE DEF Good, Typed, Calm
<1>1. reqs[a] \in Fitting /\ Fine(a) BY WriteFine DEF Whole
<1>2. /\ reqs[a].step \in {"open", "stream", "check", "record"}
      /\ reqs[a].op \in {"put", "replica"}
  BY <1>1 DEF Writing, Open, Land, Break, RollBack, Accept, Record, At, Fitting, Course
<1>3. \A b \in Actors \ {a} : Sure(b)'
  BY <1>1, <1>2, SureApart DEF At, Placing
<1>4. Alone(a) /\ (reqs'[a].step = "idle" \/ reqs'[a].op = reqs[a].op)
  BY <1>1, <1>2 DEF Fine, Begins, Proceeds, MayStart, At
<1>5. Vouched /\ Sure(a) BY DEF Presence
<1>6. CASE Open(a)
  <2>1. Holding' = Holding /\ row' = row /\ reqs[a].step = "open"
    BY <1>6 DEF Open, At, Holding
  <2>2. Sure(a)' BY <1>2, <1>4, <1>5, <1>6, <2>1, OpenReqs DEF Sure
  <2>3. Vouched' BY <1>4, <1>5, <2>1, VouchedKept
  <2> QED BY <1>3, <2>2, <2>3 DEF Presence
<1>7. ASSUME NEW s \in {"check", "record"}, Goto(a, s) PROVE Presence'
  <2>1. s \in Steps /\ Course(s, reqs[a].op) BY <1>2 DEF Steps, Course
  <2>2. reqs'[a].step = s BY <1>7, <2>1, Goes
  <2>3. Sure(a)' BY <1>2, <1>4, <2>2 DEF Sure
  <2>4. Vouched' BY <2>2 DEF Vouched
  <2> QED BY <1>3, <2>3, <2>4 DEF Presence
<1>8. CASE Land(a) BY <1>7, <1>8 DEF Land
<1>9. CASE Accept(a) BY <1>7, <1>9 DEF Accept
<1>10. ASSUME End(a), Vouched' PROVE Presence'
  <2>1. Sure(a)' BY <1>10, Ends DEF Sure
  <2> QED BY <1>3, <1>10, <2>1 DEF Presence
<1>11. CASE Break(a)
  <2>1. Holding' = Holding /\ row' = row /\ reqs[a].step = "stream" /\ End(a)
    BY <1>11 DEF Break, At, Holding
  <2> QED BY <1>4, <1>5, <1>10, <2>1, VouchedKept
<1>12. CASE RollBack(a)
  <2>1. Holding \subseteq {reqs[a].vol} BY <1>2 DEF Bound, Placer, At, Placing
  <2>2. disk' = [disk EXCEPT ![reqs[a].vol] = None] /\ End(a) BY <1>12 DEF RollBack
  <2>3. \A w \in Volumes : disk'[w] = IF w = reqs[a].vol THEN None ELSE disk[w]
    BY <2>2 DEF Shapes
  <2>4. Holding' = {} BY <2>1, <2>3 DEF Holding
  <2> QED BY <1>10, <2>2, <2>4 DEF Vouched
<1>13. CASE Record(a)
  <2>1. row'.status = "active" /\ End(a) BY <1>13 DEF Record
  <2> QED BY <1>10, <2>1 DEF Vouched
<1> QED BY <1>6, <1>8, <1>9, <1>11, <1>12, <1>13 DEF Writing

LEMMA MovePresence ==
  ASSUME Together \subseteq Safe, Good, ~ Fault, NEW a \in Actors, Moving(a)
  PROVE  Presence'
<1> USE DEF Good, Typed, Calm
<1>1. reqs[a] \in Fitting /\ Fine(a) /\ row \in Row BY MoveFine DEF Whole, Shapes
<1>2. /\ reqs[a].step \in {"bin", "unrecord"} /\ reqs[a].op \in Deleting
      \/ /\ reqs[a].step \in {"move", "revive"} /\ reqs[a].op = "undelete"
      \/ /\ reqs[a].step \in {"revive", "copy"} /\ reqs[a].op = "revert"
  BY <1>1 DEF Moving, Bin, Unrecord, MoveBack, Revive, Copy, At, Fitting, Course
<1>3. Alone(a) /\ Whole' /\ ~ At(a, "idle")
  BY <1>1, <1>2 DEF Fine, Begins, Proceeds, At
<1>4. reqs'[a].step = "idle" \/ reqs'[a].op = reqs[a].op
  BY <1>1, <1>3 DEF Fine, Begins, Proceeds, MayStart
<1>5. Vouched /\ Sure(a) BY DEF Presence
<1>6. ASSUME reqs[a].op \in Deleting, Holding' = {} PROVE Presence'
  <2>1. ASSUME NEW b \in Actors \ {a} PROVE Sure(b)'
    <3>1. reqs'[b] \in Fitting /\ reqs'[b].step = reqs[b].step /\ reqs'[b].op = reqs[b].op
      BY <1>3 DEF Alone, Whole
    <3>2. At(b, "idle") \/ reqs[b].op \notin Placing
      BY <1>3, <1>6, Others DEF Apart
    <3>3. CASE At(b, "idle") \/ reqs[b].op \notin Placing \cup Deleting
      BY <1>3, <3>1, <3>3, SureFree DEF At
    <3>4. CASE reqs[b].op \in Deleting
      <4>1. reqs'[b].step \in {"idle", "bin", "unrecord"} \cup {"empty", "unrow", "undrop"}
        BY <3>1, <3>4 DEF Fitting, Course, Deleting, Request, Steps
      <4> QED BY <1>6, <3>1, <3>4, <4>1 DEF Sure, Deleting
    <3> QED BY <3>2, <3>3, <3>4
  <2>2. Sure(a)'
    <3>1. reqs'[a] \in Fitting BY <1>3 DEF Whole
    <3>2. reqs'[a].step \in {"idle", "bin", "unrecord"} \cup {"empty", "unrow", "undrop"}
      BY <1>4, <1>6, <3>1 DEF Fitting, Course, Deleting, Request, Steps
    <3> QED BY <1>4, <1>6, <3>2 DEF Sure, Deleting
  <2>3. Vouched' BY <1>6 DEF Vouched
  <2> QED BY <2>1, <2>2, <2>3 DEF Presence
<1>7. CASE Bin(a)
  <2>1. disk' = [disk EXCEPT ![reqs[a].vol] = None] /\ reqs[a].step = "bin"
    BY <1>7 DEF Bin, At
  <2>2. Holding \subseteq {reqs[a].vol} BY <1>5, <2>1 DEF Sure
  <2>3. \A w \in Volumes : disk'[w] = IF w = reqs[a].vol THEN None ELSE disk[w]
    BY <2>1 DEF Shapes
  <2>4. Holding' = {} BY <2>2, <2>3 DEF Holding
  <2> QED BY <1>2, <1>6, <2>1, <2>4
<1>8. CASE Unrecord(a)
  <2>1. reqs[a].step = "unrecord" /\ Holding' = Holding BY <1>8 DEF Unrecord, At, files, Holding
  <2>2. Holding = {} BY <1>5, <2>1 DEF Sure
  <2> QED BY <1>2, <1>6, <2>1, <2>2
<1>9. CASE MoveBack(a)
  <2>1. reqs[a].step = "move" /\ reqs[a].op = "undelete" /\ row' = row
    BY <1>2, <1>9 DEF MoveBack, At
  <2>2. trash' = None BY <1>9 DEF MoveBack
  <2>3. \A b \in Actors \ {a} : Sure(b)' BY <1>1, <1>3, <2>1, <2>2, SureRestored
  <2>4. CASE trash = None
    <3>1. End(a) /\ Holding' = Holding BY <1>9, <2>4 DEF MoveBack, Holding
    <3>2. Sure(a)' BY <3>1, Ends DEF Sure
    <3>3. Vouched' BY <1>3, <1>5, <2>1, <3>1, VouchedKept
    <3> QED BY <2>3, <3>2, <3>3 DEF Presence
  <2>5. CASE trash # None
    <3>1. Goto(a, "revive") BY <1>9, <2>5 DEF MoveBack
    <3>2. "revive" \in Steps /\ Course("revive", reqs[a].op) BY <2>1 DEF Steps, Course
    <3>3. reqs'[a].step = "revive" /\ Same(reqs[a], reqs'[a]) BY <3>1, <3>2, Goes
    <3>4. Sure(a)' BY <1>5, <2>1, <2>2, <3>3 DEF Sure, Same
    <3>5. Vouched' BY <3>3 DEF Vouched
    <3> QED BY <2>3, <3>4, <3>5 DEF Presence
  <2> QED BY <2>4, <2>5
<1>10. CASE Revive(a)
  <2>1. reqs[a].step = "revive" /\ End(a) /\ trash' = trash BY <1>10 DEF Revive, At, files
  <2>2. row' = [row EXCEPT !.status = "active", !.vol = reqs[a].vol]
    BY <1>2, <1>5, <1>10, <2>1 DEF Revive, Sure, Is
  <2>3. row'.status = "active" /\ row'.id = row.id BY <1>1, <2>2 DEF Row
  <2>4. \A b \in Actors \ {a} : Sure(b)'
    <3>1. CASE reqs[a].op = "undelete"
      <4>1. trash' = None BY <1>5, <2>1, <3>1 DEF Sure
      <4> QED BY <1>1, <1>3, <2>3, <3>1, <4>1, SureRestored
    <3>2. CASE reqs[a].op = "revert" BY <1>1, <1>3, <3>2, SureApart DEF Placing
    <3> QED BY <1>2, <2>1, <3>1, <3>2
  <2>5. Sure(a)' BY <2>1, Ends DEF Sure
  <2>6. Vouched' BY <2>3 DEF Vouched
  <2> QED BY <2>4, <2>5, <2>6 DEF Presence
<1>11. CASE Copy(a)
  <2>1. reqs[a].step = "copy" /\ reqs[a].op = "revert" /\ row' = row
    BY <1>2, <1>11 DEF Copy, At
  <2>2. \A b \in Actors \ {a} : Sure(b)' BY <1>1, <1>3, <2>1, SureApart DEF Placing
  <2>3. CASE store[reqs[a].want] = None
    <3>1. End(a) /\ Holding' = Holding BY <1>11, <2>3 DEF Copy, Holding
    <3>2. Sure(a)' BY <3>1, Ends DEF Sure
    <3>3. Vouched' BY <1>3, <1>5, <2>1, <3>1, VouchedKept
    <3> QED BY <2>2, <3>2, <3>3 DEF Presence
  <2>4. CASE store[reqs[a].want] # None
    <3>1. Goto(a, "revive") BY <1>11, <2>4 DEF Copy
    <3>2. "revive" \in Steps /\ Course("revive", reqs[a].op) BY <2>1 DEF Steps, Course
    <3>3. reqs'[a].step = "revive" /\ Same(reqs[a], reqs'[a]) BY <3>1, <3>2, Goes
    <3>4. Sure(a)' BY <1>5, <2>1, <3>3 DEF Sure, Same
    <3>5. Vouched' BY <3>3 DEF Vouched
    <3> QED BY <2>2, <3>4, <3>5 DEF Presence
  <2> QED BY <2>3, <2>4
<1> QED BY <1>7, <1>8, <1>9, <1>10, <1>11 DEF Moving
LEMMA ClearPresence ==
  ASSUME Together \subseteq Safe, Good, NEW a \in Actors, Clearing(a)
  PROVE  Presence'
<1> USE DEF Good, Typed, Calm
<1>1. reqs[a] \in Fitting /\ Fine(a) BY OtherFine DEF Whole
<1>2. /\ reqs[a].step \in {"empty", "unrow", "undrop"}
      /\ reqs[a].op \in {"purge", "empty", "drop"}
  BY <1>1 DEF Clearing, EmptyTrash, Unrow, Undrop, At, Fitting, Course
<1>3. Alone(a) /\ Whole' BY <1>1 DEF Fine, Begins, Proceeds
<1>4. reqs'[a].step = "idle" \/ reqs'[a].op = reqs[a].op
  BY <1>1, <1>2 DEF Fine, Begins, Proceeds, MayStart, At
<1>5. Sure(a)' BY <1>2, <1>3, <1>4, SureFree DEF Placing, Deleting
<1>6. Vouched BY DEF Presence
<1>7. Holding' = Holding /\ trash' \in {trash, None}
  BY DEF Clearing, EmptyTrash, Unrow, Undrop, files, Holding
<1>8. CASE row' = row
  <2>1. \A b \in Actors \ {a} : Sure(b)' BY <1>3, <1>7, <1>8, SureKept
  <2>2. Vouched' BY <1>2, <1>3, <1>6, <1>7, <1>8, VouchedKept
  <2> QED BY <1>5, <2>1, <2>2 DEF Presence
<1>9. CASE row' # row
  <2>1. /\ row.status = "trashed" /\ row' = NoRow /\ reqs[a].step = "unrow" /\ trash' = trash
    BY <1>9 DEF Clearing, EmptyTrash, Unrow, Undrop, At, files
  <2>2. reqs[a].op \in {"purge", "empty"} BY <1>1, <2>1 DEF Fitting, Course
  <2>3. ASSUME NEW b \in Actors \ {a} PROVE Sure(b)'
    <3>1. At(b, "idle") \/ reqs[b].op \notin {"revert", "undelete"} \cup Deleting
      BY <2>1, <2>2, Others DEF Apart, At
    <3>2. Sure(b) BY DEF Presence
    <3>3. /\ reqs'[b].op = reqs[b].op /\ reqs'[b].step = reqs[b].step
          /\ reqs'[b].vol = reqs[b].vol
      BY <1>3 DEF Alone
    <3> QED BY <1>7, <2>1, <3>1, <3>2, <3>3 DEF Sure, At
  <2>4. Vouched'
    <3> SUFFICES ASSUME Holding' # {}
                 PROVE  \E b \in Actors : reqs'[b].step \in {"check", "record", "revive"}
      BY DEF Vouched
    <3>1. PICK b \in Actors : reqs[b].step \in {"check", "record", "revive"}
      BY <1>6, <1>7, <2>1 DEF Vouched
    <3>2. reqs'[b].step = reqs[b].step BY <1>2, <1>3, <3>1 DEF Alone
    <3> QED BY <3>1, <3>2
  <2> QED BY <1>5, <2>3, <2>4 DEF Presence
<1> QED BY <1>8, <1>9

LEMMA StartPresence ==
  ASSUME Together \subseteq Safe, Good, NEW a \in Actors, Starting(a)
  PROVE  Presence'
<1> USE DEF Good, Typed, Calm
<1>1. Fine(a) BY OtherFine
<1>2. /\ Holding' = Holding /\ trash' = trash /\ row' = row /\ At(a, "idle")
  BY DEF Starting, Start, StartPut, StartDelete, StartPurge, StartUndelete, StartDrop,
         StartRevert, MayStart, files, Holding
<1>3. Alone(a) /\ Whole' BY <1>1 DEF Fine, Begins, Proceeds
<1>4. Vouched' /\ \A b \in Actors \ {a} : Sure(b)'
  <2>1. Vouched BY DEF Presence
  <2>2. reqs[a].step \notin {"check", "record", "revive"} BY <1>2 DEF At
  <2> QED BY <1>2, <1>3, <2>1, <2>2, SureKept, VouchedKept
<1> SUFFICES Sure(a)' BY <1>4 DEF Presence
<1>5. ASSUME NEW op \in OpNames, StartPut(a, op) PROVE Sure(a)'
  BY <1>5, PutStarts DEF Sure
<1>6. ASSUME NEW op \in OpNames, StartDelete(a, op) PROVE Sure(a)'
  <2>1. Holding \subseteq {IF Found = None THEN 1 ELSE Found}
    <3>1. CASE Holding = {} BY <3>1
    <3>2. CASE Holding # {}
      <4>1. Holding = {Found} /\ Found # None BY <3>2, OneHeld, FoundThere, Facts DEF Bound, Holding
      <4> QED BY <4>1
    <3> QED BY <3>1, <3>2
  <2>2. reqs'[a].op \notin {"revert", "undelete"} BY <1>6, DeleteStarts DEF Deleting
  <2> QED BY <1>2, <1>6, <2>1, <2>2, DeleteStarts DEF Sure
<1>7. ASSUME NEW op \in OpNames, StartPurge(a, op) PROVE Sure(a)'
  BY <1>7, PurgeStarts DEF Sure
<1>8. CASE StartUndelete(a)
  <2>1. row.status = "trashed" /\ trash # None /\ MayStart(a, "undelete")
    BY <1>8 DEF StartUndelete
  <2>2. Holding = {}
    <3> SUFFICES ASSUME NEW b \in Actors, reqs[b].step \in {"check", "record", "revive"}
                 PROVE  FALSE
      BY <2>1 DEF Presence, Vouched
    <3>1. reqs[b] \in Fitting /\ b # a /\ ~ At(b, "idle") BY <1>2 DEF Whole, At
    <3>2. reqs[b].op \in Placing BY <3>1 DEF Fitting, Course, Placing
    <3>3. Apart("undelete", reqs[b].op) BY <2>1, <3>1, OthersAtStart
    <3>4. reqs[b].op = "undelete" BY <3>2, <3>3 DEF Apart, Placing
    <3>5. reqs[b].step = "revive" BY <3>1, <3>4 DEF Fitting, Course
    <3>6. Sure(b) BY DEF Presence
    <3> QED BY <2>1, <3>4, <3>5, <3>6 DEF Sure
  <2> QED BY <1>2, <1>8, <2>1, <2>2, UndeleteStarts DEF Sure
<1>9. CASE StartDrop(a) BY <1>9, DropStarts DEF Sure
<1>10. CASE StartRevert(a)
  <2>1. row.status # "absent" BY <1>10, RevertStarts DEF Listing
  <2> QED BY <1>2, <1>10, <2>1, RevertStarts DEF Sure
<1> QED BY <1>5, <1>6, <1>7, <1>8, <1>9, <1>10 DEF Starting, Start
-----------------------------------------------------------------------------
(* Which versions are listed: step by step.                                *)

LEMMA KeptIsFinite ==
  ASSUME NEW S \in SUBSET Numbers
  PROVE  IsFiniteSet(S) /\ Cardinality(S) \in Nat
<1>1. IsFiniteSet(Numbers) BY Facts, FS_Interval DEF Numbers
<1> QED BY <1>1, FS_Subset, FS_CardinalityType

\* What trim() leaves is within the limit: the lowest number it leaves has
\* fewer than RetainCount above it.
LEMMA TrimLeaves ==
  ASSUME Shapes
  PROVE  Cardinality(kept \ Doomed) <= RetainCount
<1> DEFINE K == kept \ Doomed
           Above(n) == {m \in kept : m > n}
<1>1. kept \in SUBSET Numbers /\ K \in SUBSET Nat BY Facts DEF Shapes
<1>2. CASE K = {} BY <1>2, FS_EmptySet, Facts
<1>3. CASE K # {}
  <2>1. PICK k \in K : \A n \in K : k <= n BY <1>1, <1>3, Least
  <2>2. Above(k) \in SUBSET Numbers BY <1>1
  <2>3. IsFiniteSet(Above(k)) /\ Cardinality(Above(k)) \in Nat BY <2>2, KeptIsFinite
  <2>4. Cardinality(Above(k)) < RetainCount BY <2>3, Facts DEF Doomed
  <2>5. K \subseteq Above(k) \cup {k}
    <3>1. \A n \in K : n = k \/ n > k BY <1>1, <2>1
    <3> QED BY <3>1
  <2>6. /\ IsFiniteSet(Above(k) \cup {k})
        /\ Cardinality(Above(k) \cup {k}) <= Cardinality(Above(k)) + 1
    <3>1. k \notin Above(k) BY <1>1
    <3>2. IsFiniteSet(Above(k) \cup {k})
          /\ Cardinality(Above(k) \cup {k}) = Cardinality(Above(k)) + 1
      BY <2>3, <3>1, FS_AddElement
    <3> QED BY <2>3, <3>2
  <2>7. Cardinality(K) <= Cardinality(Above(k) \cup {k}) BY <2>5, <2>6, FS_Subset
  <2>8. Cardinality(K) \in Nat /\ Cardinality(Above(k) \cup {k}) \in Nat
    BY <1>1, <2>6, KeptIsFinite, FS_CardinalityType
  <2> QED BY <2>3, <2>4, <2>6, <2>7, <2>8, Facts
<1> QED BY <1>2, <1>3

LEMMA FewerKept ==
  ASSUME Shapes, NEW S \in SUBSET kept
  PROVE  Cardinality(S) <= Cardinality(kept)
BY KeptIsFinite, FS_Subset DEF Shapes

\* Requests other than a's are at the step they were, and no step but an insert
\* changes what they want.
LEMMA OtherWants ==
  ASSUME NEW a \in Actors, Alone(a), NEW b \in Actors \ {a}
  PROVE  /\ reqs'[b].step = reqs[b].step /\ reqs'[b].no = reqs[b].no
         /\ ~ At(a, "insert") => reqs'[b].want = reqs[b].want
BY DEF Alone

LEMMA ListingKept ==
  ASSUME Listing, NEW a \in Actors, Alone(a), kept' = kept, store' = store,
         reqs[a].step \notin {"insert", "trim", "undrop"}, reqs'[a].step \notin {"insert", "undrop"},
         reqs'[a].step \in {"empty", "unrow"} => reqs[a].step \in {"empty", "unrow"},
         row.status # "absent" => row'.status # "absent",
         row'.status = "trashed" =>
           row.status = "trashed" \/ \A b \in Actors : reqs'[b].step \notin {"empty", "unrow"}
  PROVE  Listing'
<1>1. \A b \in Actors \ {a} : /\ reqs'[b].step = reqs[b].step /\ reqs'[b].no = reqs[b].no
                              /\ reqs'[b].want = reqs[b].want
  BY OtherWants DEF At
<1>2. \A b \in Actors : Cleared(b)' BY <1>1 DEF Listing, Cleared
<1>3. \A b \in Actors : Dropped(b)' BY <1>1 DEF Listing, Dropped
<1>4. \A b \in Actors : reqs'[b].step = "insert" => store'[reqs'[b].no] # None
  BY <1>1 DEF Listing
<1>5. Backed' BY <1>1 DEF Listing, Backed
<1>6. Limited' BY <1>1 DEF Listing, Limited
<1> QED BY <1>2, <1>3, <1>4, <1>5, <1>6 DEF Listing
\* The steps that touch neither a version nor its bytes.
LEMMA QuietListing ==
  ASSUME Together \subseteq Safe, Good, ~ Fault, NEW a \in Actors, Does(a),
         ~ Shelve(a), ~ Insert(a), ~ Trim(a), ~ Unrow(a), ~ Undrop(a),
         \A op \in OpNames : ~ StartPurge(a, op), ~ StartDrop(a)
  PROVE  Listing'
<1> USE DEF Good, Typed, Calm
<1>1. reqs[a] \in Fitting /\ row \in Row BY DEF Whole, Shapes
<1>2. Fine(a) /\ Alone(a) BY DoesFine DEF Fine, Begins, Proceeds
<1>3. Whole' /\ reqs'[a] \in Fitting BY <1>2 DEF Fine, Whole
<1>4. ~ TrimFails(a) BY DEF TrimFails
<1>5. CASE Look(a) \/ Number(a)
  <2>1. /\ kept' = kept /\ store' = store /\ row' = row
        /\ reqs[a].step \in {"look", "number"}
    BY <1>5 DEF Look, Number, At, files
  <2>2. reqs'[a].step \in {"number", "shelve", "open", "copy"}
    BY <1>5, LookCalm, NumberCalm
  <2> QED BY <1>2, <2>1, <2>2, ListingKept
<1>6. CASE Writing(a)
  <2>1. /\ kept' = kept /\ store' = store
        /\ reqs[a].step \in {"open", "stream", "check", "record"}
    BY <1>6 DEF Writing, Open, Land, Break, RollBack, Accept, Record, At, files
  <2>2. row' = row \/ row'.status = "active"
    BY <1>6 DEF Writing, Open, Land, Break, RollBack, Accept, Record
  <2>3. reqs[a].op \in Uploading BY <1>1, <2>1 DEF Fitting, Course, Uploading
  <2>4. reqs'[a].step = "idle" \/ reqs'[a].op = reqs[a].op
    BY <1>2, <2>1 DEF Fine, Begins, Proceeds, MayStart, At
  <2>5. reqs'[a].step \notin {"empty", "unrow", "undrop"}
    BY <1>3, <2>3, <2>4 DEF Fitting, Course, Uploading
  <2>6. reqs'[a].step # "insert"
    <3>1. ~ At(a, "shelve") BY <2>1 DEF At
    <3>2. ASSUME NEW s \in {"check", "record"}, Goto(a, s) PROVE reqs'[a].step = s
      <4>1. s \in Steps /\ Course(s, reqs[a].op) BY <2>3 DEF Steps, Course, Uploading
      <4> QED BY <3>2, <4>1, Goes
    <3> QED BY <1>6, <3>2, OpenReqs, Ends
            DEF Writing, Land, Break, RollBack, Accept, Record
  <2> QED BY <1>2, <2>1, <2>2, <2>5, <2>6, ListingKept
<1>7. CASE Moving(a)
  <2>1. /\ kept' = kept /\ store' = store
        /\ reqs[a].step \in {"bin", "unrecord", "move", "revive", "copy"}
    BY <1>7 DEF Moving, Bin, Unrecord, MoveBack, Revive, Copy, At, files
  <2>2. reqs'[a].step \in {"idle", "unrecord", "revive"}
    <3>1. ASSUME NEW s \in {"unrecord", "revive"}, Goto(a, s) PROVE reqs'[a].step = s
      <4>1. s \in Steps BY DEF Steps
      <4>2. reqs'[a] = [reqs[a] EXCEPT !.step = s] BY <3>1 DEF Goto, Whole
      <4> QED BY <1>1, <4>2 DEF Fitting, Request
    <3> QED BY <1>7, <3>1, Ends DEF Moving, Bin, Unrecord, MoveBack, Revive, Copy
  <2>3. row.status # "absent" => row'.status # "absent"
    BY <1>1, <1>7 DEF Moving, Bin, Unrecord, MoveBack, Revive, Copy, Row
  <2>4. CASE Unrecord(a)
    <3>1. reqs[a].step = "unrecord" /\ reqs'[a].step = "idle" BY <2>4, Ends DEF Unrecord, At
    <3>2. reqs[a].op \in Deleting BY <1>1, <3>1 DEF Fitting, Course
    <3>3. ASSUME NEW b \in Actors \ {a} PROVE reqs'[b].step \notin {"empty", "unrow"}
      <4>1. reqs[b] \in Fitting /\ reqs'[b].step = reqs[b].step BY <1>2 DEF Whole, Alone
      <4>2. At(b, "idle") \/ reqs[b].op \notin {"purge", "empty"}
        BY <3>1, <3>2, Others DEF Apart, At
      <4> QED BY <4>1, <4>2 DEF Fitting, Course, At
    <3>4. \A b \in Actors : reqs'[b].step \notin {"empty", "unrow"} BY <3>1, <3>3
    <3> QED BY <1>2, <2>1, <2>2, <2>3, <3>4, ListingKept
  <2>5. CASE ~ Unrecord(a)
    <3>1. row'.status = "trashed" => row.status = "trashed"
      BY <1>1, <1>7, <2>5 DEF Moving, Bin, MoveBack, Revive, Copy, Row
    <3> QED BY <1>2, <2>1, <2>2, <2>3, <3>1, ListingKept
  <2> QED BY <2>4, <2>5
<1>8. CASE EmptyTrash(a)
  <2>1. /\ kept' = kept /\ store' = store /\ row' = row /\ reqs[a].step = "empty"
        /\ Goto(a, "unrow")
    BY <1>8 DEF EmptyTrash, At
  <2>2. reqs'[a] = [reqs[a] EXCEPT !.step = "unrow"] BY <2>1 DEF Goto, Whole
  <2>3. reqs'[a].step = "unrow" BY <1>1, <2>2 DEF Fitting, Request
  <2> QED BY <1>2, <2>1, <2>3, ListingKept
<1>9. CASE Starting(a)
  <2>1. \/ StartUndelete(a) \/ StartRevert(a)
        \/ \E op \in OpNames : StartPut(a, op) \/ StartDelete(a, op)
    BY <1>9 DEF Starting, Start
  <2>2. /\ kept' = kept /\ store' = store /\ row' = row /\ reqs[a].step = "idle"
    BY <2>1 DEF StartPut, StartDelete, StartUndelete, StartRevert, MayStart, At, files
  <2>3. reqs'[a].step \in {"look", "open", "bin", "move"}
    BY <2>1, PutStarts, DeleteStarts, UndeleteStarts, RevertStarts
  <2> QED BY <1>2, <2>2, <2>3, ListingKept
<1> QED BY <1>4, <1>5, <1>6, <1>7, <1>8, <1>9 DEF Does, Retaining, Clearing
LEMMA RetainListing ==
  ASSUME Together \subseteq Safe, Good, ~ Fault, NEW a \in Actors,
         Shelve(a) \/ Insert(a) \/ Trim(a)
  PROVE  Listing'
<1> USE DEF Good, Typed, Calm
<1>1. reqs[a] \in Fitting /\ Fine(a) BY RetainFine DEF Retaining, Whole
<1>2. ~ At(a, "idle") /\ reqs[a].op \in {"put", "revert"}
      /\ reqs[a].step \in {"shelve", "insert", "trim"}
  BY <1>1 DEF Shelve, Insert, Trim, At, Fitting, Course
<1>3. Alone(a) BY <1>1 DEF Fine, Begins, Proceeds
<1>4. ASSUME NEW b \in Actors \ {a} PROVE reqs[b].step \notin {"insert", "trim"}
  <2>1. At(b, "idle") \/ reqs[b].op \notin Placing \cup Deleting
    BY <1>1, <1>2, SureApart DEF Placing
  <2>2. reqs[b] \in Fitting BY DEF Whole
  <2> QED BY <2>1, <2>2 DEF Fitting, Course, Placing, At
<1>5. ASSUME NEW b \in Actors \ {a}
      PROVE /\ reqs'[b].step = reqs[b].step /\ reqs'[b].step \notin {"insert", "trim"}
  BY <1>3, <1>4, OtherWants
<1>6. CASE Shelve(a)
  <2> DEFINE no == reqs[a].no
  <2>1. /\ reqs'[a].step = "insert" /\ reqs'[a].no = no /\ no \in Numbers /\ no \notin kept
        /\ disk[reqs[a].src] # None /\ store' = [store EXCEPT ![no] = disk[reqs[a].src]]
        /\ row.status = "active" /\ kept' = kept /\ row' = row
    BY <1>6, ShelveCalm
  <2>2. store'[no] # None /\ \A n \in kept : store'[n] = store[n] BY <2>1 DEF Shapes
  <2>3. \A b \in Actors \ {a} : reqs'[b].want = reqs[b].want
    BY <1>3, <1>6, OtherWants DEF Shelve, At
  <2>4. \A b \in Actors : Cleared(b)' BY <2>1 DEF Cleared
  <2>5. \A b \in Actors : Dropped(b)'
    <3> SUFFICES ASSUME NEW b \in Actors, reqs'[b].step = "undrop", reqs'[b].want \in kept
                 PROVE  store'[reqs'[b].want] = None
      BY <2>1 DEF Dropped
    <3>1. b # a BY <2>1
    <3>2. Dropped(b) BY DEF Listing
    <3> QED BY <1>5, <2>2, <2>3, <3>1, <3>2 DEF Dropped
  <2>6. \A b \in Actors : reqs'[b].step = "insert" => store'[reqs'[b].no] # None
    BY <1>5, <2>1, <2>2
  <2>7. Backed'
    <3> SUFFICES ASSUME NEW n \in kept
                 PROVE  store'[n] # None
                        \/ \E b \in Actors : reqs'[b].step = "undrop" /\ reqs'[b].want = n
      BY <2>1 DEF Backed
    <3>1. store[n] # None \/ \E b \in Actors : reqs[b].step = "undrop" /\ reqs[b].want = n
      BY DEF Listing, Backed
    <3> QED BY <1>2, <1>5, <2>2, <2>3, <3>1
  <2>8. Limited'
    <3>1. \A b \in Actors : reqs[b].step # "trim" BY <1>4, <1>6 DEF Shelve, At
    <3>2. Cardinality(kept) <= RetainCount BY <3>1 DEF Listing, Limited
    <3> QED BY <2>1, <3>2 DEF Limited
  <2> QED BY <2>1, <2>4, <2>5, <2>6, <2>7, <2>8 DEF Listing
<1>7. CASE Insert(a)
  <2> DEFINE no == reqs[a].no
  <2>1. /\ reqs'[a].step = "trim" /\ row.status = "active" /\ no \in Numbers /\ no \notin kept
        /\ kept' = kept \cup {no} /\ store[no] # None
        /\ \A b \in Actors : reqs'[b].step = "undrop" => reqs'[b].want # no
    BY <1>7, InsertCalm
  <2>2. store' = store /\ row' = row BY <1>7 DEF Insert, files
  <2>3. ASSUME NEW b \in Actors \ {a}, reqs'[b].step = "undrop"
        PROVE  \/ reqs'[b].want = reqs[b].want
               \/ reqs[b].want = no /\ reqs'[b].want = None
    BY <1>3, <2>3 DEF Alone
  <2>4. \A b \in Actors : Cleared(b)' BY <2>1, <2>2 DEF Cleared
  <2>5. \A b \in Actors : Dropped(b)'
    <3> SUFFICES ASSUME NEW b \in Actors, reqs'[b].step = "undrop", reqs'[b].want \in kept'
                 PROVE  store[reqs'[b].want] = None
      BY <2>2 DEF Dropped
    <3>1. b # a /\ reqs'[b].want # no BY <2>1
    <3>2. reqs'[b].want \in kept BY <2>1, <3>1
    <3>3. reqs'[b].want = reqs[b].want BY <2>3, <3>1, <3>2, Facts DEF Shapes
    <3>4. Dropped(b) BY DEF Listing
    <3> QED BY <1>5, <3>1, <3>2, <3>3, <3>4 DEF Dropped
  <2>6. \A b \in Actors : reqs'[b].step # "insert" BY <1>5, <2>1
  <2>7. Backed'
    <3> SUFFICES ASSUME NEW n \in kept', store[n] = None
                 PROVE  \E b \in Actors : reqs'[b].step = "undrop" /\ reqs'[b].want = n
      BY <2>2 DEF Backed
    <3>1. n \in kept /\ n # no BY <2>1
    <3>2. PICK b \in Actors : reqs[b].step = "undrop" /\ reqs[b].want = n
      BY <3>1 DEF Listing, Backed
    <3>3. b # a /\ reqs'[b].step = "undrop" BY <1>2, <1>5, <3>2
    <3> QED BY <2>3, <3>1, <3>2, <3>3
  <2>8. Limited'
    <3>1. Cardinality(kept) <= RetainCount
      BY <1>4, <1>7 DEF Listing, Limited, Insert, At
    <3>2. kept \in SUBSET Numbers BY DEF Shapes
    <3>3. IsFiniteSet(kept) /\ Cardinality(kept) \in Nat BY <3>2, KeptIsFinite
    <3>4. Cardinality(kept') = Cardinality(kept) + 1 BY <2>1, <3>3, FS_AddElement
    <3>5. Cardinality(kept') <= RetainCount + 1 BY <3>1, <3>3, <3>4, Facts
    <3> QED BY <2>1, <3>5 DEF Limited
  <2> QED BY <2>1, <2>2, <2>4, <2>5, <2>6, <2>7, <2>8 DEF Listing
<1>8. CASE Trim(a)
  <2>1. store' = Unstored(Doomed) /\ kept' = kept \ Doomed /\ row' = row /\ At(a, "trim")
    BY <1>8 DEF Trim
  <2>2. reqs'[a].step \in {"open", "copy"} BY <1>8, TrimCalm
  <2>3. \A n \in Numbers : store'[n] = IF n \in Doomed THEN None ELSE store[n]
    BY <2>1 DEF Unstored
  <2>4. kept \subseteq Numbers BY DEF Shapes
  <2>5. \A b \in Actors \ {a} : reqs'[b].want = reqs[b].want
    BY <1>3, <2>1, OtherWants DEF At
  <2>6. \A b \in Actors : Cleared(b)' BY <1>5, <2>1, <2>2 DEF Cleared, Listing
  <2>7. \A b \in Actors : Dropped(b)'
    BY <1>5, <2>1, <2>2, <2>3, <2>4, <2>5 DEF Dropped, Listing
  <2>8. \A b \in Actors : reqs'[b].step # "insert" BY <1>5, <2>2
  <2>9. Backed'
    <3> SUFFICES ASSUME NEW n \in kept', store'[n] = None
                 PROVE  \E b \in Actors : reqs'[b].step = "undrop" /\ reqs'[b].want = n
      BY DEF Backed
    <3>1. n \in kept /\ store[n] = None BY <2>1, <2>3, <2>4
    <3>2. PICK b \in Actors : reqs[b].step = "undrop" /\ reqs[b].want = n
      BY <3>1 DEF Listing, Backed
    <3> QED BY <1>2, <1>5, <2>5, <3>2
  <2>10. Limited' BY <2>1, TrimLeaves DEF Limited
  <2> QED BY <2>1, <2>6, <2>7, <2>8, <2>9, <2>10 DEF Listing
<1> QED BY <1>6, <1>7, <1>8

\* What takes versions away, and their bytes with them or before them.
LEMMA ShrinkListing ==
  ASSUME Together \subseteq Safe, Good, NEW a \in Actors,
         \/ Unrow(a) \/ Undrop(a) \/ StartDrop(a)
         \/ \E op \in OpNames : StartPurge(a, op)
  PROVE  Listing'
<1> USE DEF Good, Typed, Calm
<1>1. reqs[a] \in Fitting /\ Fine(a) BY OtherFine DEF Clearing, Starting, Start, Whole
<1>2. Alone(a) BY <1>1 DEF Fine, Begins, Proceeds
<1>3. reqs[a].step \in {"idle", "unrow", "undrop"}
  BY DEF Unrow, Undrop, StartDrop, StartPurge, MayStart, At
<1>4. kept \in SUBSET Numbers /\ kept' \subseteq kept
  BY DEF Unrow, Undrop, StartDrop, StartPurge, Shapes
<1>5. Cardinality(kept') <= Cardinality(kept) BY <1>4, FewerKept
<1>6. \A b \in Actors \ {a} : /\ reqs'[b].step = reqs[b].step /\ reqs'[b].no = reqs[b].no
                              /\ reqs'[b].want = reqs[b].want
  BY <1>2, <1>3, OtherWants DEF At
<1>7. Cardinality(kept) \in Nat /\ Cardinality(kept') \in Nat BY <1>4, KeptIsFinite
<1>8. Limited'
  <2>1. CASE Cardinality(kept) <= RetainCount BY <1>5, <1>7, <2>1, Facts DEF Limited
  <2>2. CASE \E b \in Actors : reqs[b].step = "trim" /\ Cardinality(kept) <= RetainCount + 1
    <3>1. PICK b \in Actors : reqs[b].step = "trim" BY <2>2
    <3>2. reqs'[b].step = "trim" BY <1>3, <1>6, <3>1
    <3>3. Cardinality(kept') <= RetainCount + 1 BY <1>5, <1>7, <2>2, Facts
    <3> QED BY <3>2, <3>3 DEF Limited
  <2> QED BY <2>1, <2>2 DEF Listing, Limited
<1>9. ASSUME NEW ns \in SUBSET kept, store' = Unstored(ns), NEW b \in Actors \ {a},
             reqs[b].step = "insert"
      PROVE  store'[reqs[b].no] # None
  <2>1. reqs[b].no \notin kept /\ store[reqs[b].no] # None BY <1>9 DEF Numbering, Listing
  <2>2. reqs[b].no \in Numbers BY <1>9 DEF Whole, Fitting, Fields
  <2> QED BY <1>9, <2>1, <2>2 DEF Unstored
<1>10. CASE Unrow(a)
  <2>1. store' = store /\ reqs'[a].step = "idle" BY <1>10, Ends DEF Unrow, files
  <2>2. CASE row.status = "trashed"
    <3>1. row' = NoRow /\ kept' = {} BY <1>10, <2>2 DEF Unrow
    <3>2. row'.status = "absent" BY <3>1 DEF NoRow
    <3>3. \A b \in Actors : Cleared(b)' /\ Dropped(b)' BY <3>1 DEF Cleared, Dropped
    <3>4. \A b \in Actors : reqs'[b].step = "insert" => store'[reqs'[b].no] # None
      BY <1>6, <2>1 DEF Listing
    <3>5. Backed' BY <3>1 DEF Backed
    <3> QED BY <1>8, <3>1, <3>3, <3>4, <3>5 DEF Listing
  <2>3. CASE row.status # "trashed"
    <3>1. row' = row /\ kept' = kept /\ At(a, "unrow") BY <1>10, <2>3 DEF Unrow
    <3> QED BY <1>2, <2>1, <3>1, ListingKept DEF At
  <2> QED BY <2>2, <2>3
<1>11. CASE Undrop(a)
  <2>1. /\ store' = store /\ row' = row /\ kept' = kept \ {reqs[a].want} /\ reqs'[a].step = "idle"
        /\ reqs[a].step = "undrop"
    BY <1>11, Ends DEF Undrop, At, files
  <2>2. \A b \in Actors : Cleared(b)' BY <1>6, <2>1 DEF Cleared, Listing
  <2>3. \A b \in Actors : Dropped(b)' BY <1>6, <2>1 DEF Dropped, Listing
  <2>4. \A b \in Actors : reqs'[b].step = "insert" => store'[reqs'[b].no] # None
    BY <1>6, <2>1 DEF Listing
  <2>5. Backed'
    <3> SUFFICES ASSUME NEW n \in kept', store'[n] = None
                 PROVE  \E b \in Actors : reqs'[b].step = "undrop" /\ reqs'[b].want = n
      BY DEF Backed
    <3>1. n \in kept /\ store[n] = None /\ n # reqs[a].want BY <2>1
    <3>2. PICK b \in Actors : reqs[b].step = "undrop" /\ reqs[b].want = n
      BY <3>1 DEF Listing, Backed
    <3>3. b # a BY <3>1, <3>2
    <3> QED BY <1>6, <3>2, <3>3
  <2> QED BY <1>8, <2>1, <2>2, <2>3, <2>4, <2>5 DEF Listing
<1>12. ASSUME NEW op \in OpNames, StartPurge(a, op) PROVE Listing'
  <2>1. row' = row /\ reqs'[a].step = "empty" /\ op \in {"purge", "empty"} /\ reqs[a].step = "idle"
    BY <1>12, PurgeStarts DEF StartPurge, MayStart, At
  <2>2. CASE Chosen(op)
    <3>1. store' = Unstored(kept) /\ kept' = {} BY <1>12, <2>2 DEF StartPurge
    <3>2. \A b \in Actors : Cleared(b)' /\ Dropped(b)' BY <3>1 DEF Cleared, Dropped
    <3>3. \A b \in Actors : reqs'[b].step = "insert" => store'[reqs'[b].no] # None
      BY <1>6, <1>9, <2>1, <3>1
    <3>4. Backed' BY <3>1 DEF Backed
    <3> QED BY <1>8, <3>1, <3>2, <3>3, <3>4 DEF Listing
  <2>3. CASE ~ Chosen(op)
    <3>1. store' = store /\ kept' = kept BY <1>12, <2>3 DEF StartPurge
    <3>2. row.status # "trashed" BY <2>3 DEF Chosen
    <3>3. \A b \in Actors : Cleared(b)' BY <2>1, <3>2 DEF Cleared
    <3>4. \A b \in Actors : Dropped(b)' BY <1>6, <2>1, <3>1 DEF Dropped, Listing
    <3>5. \A b \in Actors : reqs'[b].step = "insert" => store'[reqs'[b].no] # None
      BY <1>6, <2>1, <3>1 DEF Listing
    <3>6. Backed' BY <1>6, <2>1, <3>1 DEF Backed, Listing
    <3> QED BY <1>8, <2>1, <3>1, <3>3, <3>4, <3>5, <3>6 DEF Listing
  <2> QED BY <2>2, <2>3
<1>13. CASE StartDrop(a)
  <2>1. PICK w \in kept : w = reqs'[a].want /\ store' = Unstored({w}) BY <1>13, DropStarts
  <2>2. /\ row' = row /\ kept' = kept /\ reqs'[a].step = "undrop" /\ reqs[a].step = "idle"
    BY <1>13, DropStarts DEF StartDrop, MayStart, At
  <2>3. \A n \in Numbers : store'[n] = IF n = w THEN None ELSE store[n]
    BY <2>1 DEF Unstored
  <2>4. \A b \in Actors : Cleared(b)' BY <1>6, <2>2 DEF Cleared, Listing
  <2>5. \A b \in Actors : Dropped(b)'
    <3> SUFFICES ASSUME NEW b \in Actors, reqs'[b].step = "undrop", reqs'[b].want \in kept
                 PROVE  store'[reqs'[b].want] = None
      BY <2>2 DEF Dropped
    <3>1. reqs'[b].want \in Numbers BY <1>4
    <3>2. CASE b = a BY <2>1, <2>3, <3>1, <3>2
    <3>3. CASE b # a
      <4>1. Dropped(b) BY DEF Listing
      <4> QED BY <1>6, <2>3, <3>1, <3>3, <4>1 DEF Dropped
    <3> QED BY <3>2, <3>3
  <2>6. \A b \in Actors : reqs'[b].step = "insert" => store'[reqs'[b].no] # None
    <3>1. {w} \in SUBSET kept BY <2>1
    <3> QED BY <1>6, <1>9, <2>1, <2>2, <3>1
  <2>7. Backed'
    <3> SUFFICES ASSUME NEW n \in kept, store'[n] = None
                 PROVE  \E b \in Actors : reqs'[b].step = "undrop" /\ reqs'[b].want = n
      BY <2>2 DEF Backed
    <3>1. CASE n = w BY <2>1, <2>2, <3>1
    <3>2. CASE n # w
      <4>1. store[n] = None BY <1>4, <2>3, <3>2
      <4>2. PICK b \in Actors : reqs[b].step = "undrop" /\ reqs[b].want = n
        BY <4>1 DEF Listing, Backed
      <4> QED BY <1>6, <2>2, <4>2
    <3> QED BY <3>1, <3>2
  <2> QED BY <1>8, <2>2, <2>4, <2>5, <2>6, <2>7 DEF Listing
<1> QED BY <1>10, <1>11, <1>12, <1>13
-----------------------------------------------------------------------------
(* That nothing is lost: step by step.                                     *)

Awaited(u) == \E a \in Actors : reqs[a].step = "insert" /\ store[reqs[a].no] = u

LEMMA HeldIs ==
  ASSUME Shapes, NEW u \in Uploads
  PROVE  u \in Held <=> \/ \E v \in Volumes : disk[v] = u
                        \/ trash = u
                        \/ \E n \in kept : store[n] = u
<1>1. u # None BY Facts
<1> QED BY <1>1 DEF Held, StoredIn

LEMMA Wasted ==
  ASSUME Shapes, NEW ns \in SUBSET Numbers, NEW u \in Uploads, u \notin StoredIn(ns)
  PROVE  \A n \in Numbers : store[n] = u => n \notin ns /\ Unstored(ns)[n] = u
<1>1. u # None BY Facts
<1> QED BY <1>1 DEF StoredIn, Unstored

LEMMA SavedKept ==
  ASSUME Saved, NEW a \in Actors, Alone(a), UNCHANGED <<disk, trash, store, kept, landed>>,
         gone \subseteq gone', ~ At(a, "insert")
  PROVE  Saved'
<1> SUFFICES ASSUME NEW u \in landed' \ gone'
             PROVE  u \in Held' \/ Awaited(u)'
  BY DEF Saved, Awaited
<1>1. Held' = Held BY DEF Held, StoredIn
<1>2. u \in Held \/ Awaited(u) BY DEF Saved, Awaited
<1>3. Awaited(u) => Awaited(u)' BY DEF Awaited, Alone, At
<1> QED BY <1>1, <1>2, <1>3

LEMMA StepSaves ==
  ASSUME Together \subseteq Safe, Good, ~ Fault, NEW a \in Actors, Does(a)
  PROVE  Saved'
<1> USE DEF Good, Typed, Calm
<1>1. reqs[a] \in Fitting /\ Shapes' /\ Fine(a) BY DoesFine DEF Whole
<1>2. Alone(a) /\ kept \subseteq Numbers /\ gone \subseteq gone'
  <2>1. gone \subseteq gone'
    <3>1. Retaining(a) => gone \subseteq gone'
      BY DEF Retaining, Look, Number, Shelve, Insert, Trim, TrimFails
    <3>2. Writing(a) => gone \subseteq gone'
      BY DEF Writing, Open, Land, Break, RollBack, Accept, Record
    <3>3. Moving(a) => gone \subseteq gone'
      BY DEF Moving, Bin, Unrecord, MoveBack, Revive, Copy
    <3>4. Clearing(a) => gone \subseteq gone' BY DEF Clearing, EmptyTrash, Unrow, Undrop
    <3>5. Starting(a) => gone \subseteq gone'
      BY DEF Starting, Start, StartPut, StartDelete, StartPurge, StartUndelete, StartDrop,
             StartRevert
    <3> QED BY <3>1, <3>2, <3>3, <3>4, <3>5 DEF Does
  <2> QED BY <1>1, <2>1 DEF Fine, Begins, Proceeds, Shapes
<1>3. Sure(a) /\ Cleared(a) /\ Dropped(a) BY DEF Presence, Listing
<1>4. ASSUME NEW u \in landed \ gone
      PROVE  /\ u \in Uploads
             /\ \/ \E v \in Volumes : disk[v] = u
                \/ trash = u
                \/ \E n \in kept : store[n] = u
                \/ Awaited(u)
  <2>1. u \in Uploads BY DEF Shapes
  <2> QED BY <2>1, HeldIs DEF Saved, Awaited
<1>5. ASSUME \A u \in landed' \ gone' :
               \/ \E v \in Volumes : disk'[v] = u
               \/ trash' = u
               \/ \E n \in kept' : store'[n] = u
               \/ Awaited(u)'
      PROVE  Saved'
  <2>1. \A u \in landed' : u # None BY <1>1, Facts DEF Shapes
  <2> QED BY <1>5, <2>1 DEF Saved, Awaited, Held, StoredIn
<1>6. CASE Shelve(a)
  <2> SUFFICES ASSUME NEW u \in landed' \ gone'
               PROVE  \/ \E v \in Volumes : disk'[v] = u
                      \/ trash' = u
                      \/ \E n \in kept' : store'[n] = u
                      \/ Awaited(u)'
    BY <1>5
  <2>1. /\ reqs'[a].step = "insert" /\ reqs'[a].no = reqs[a].no /\ reqs[a].no \in Numbers
        /\ reqs[a].no \notin kept /\ Holding = {reqs[a].src} /\ reqs[a].op \in {"put", "revert"}
        /\ store' = [store EXCEPT ![reqs[a].no] = disk[reqs[a].src]]
        /\ UNCHANGED <<trash, kept, landed, gone>>
    BY <1>6, ShelveCalm
  <2>2. u \in landed \ gone /\ u \in Uploads BY <1>4, <2>1
  <2>3. ASSUME NEW v \in Volumes, disk[v] = u PROVE Awaited(u)'
    <3>1. v \in Holding BY <2>2, <2>3, Facts DEF Holding
    <3>2. store'[reqs[a].no] = u BY <2>1, <2>3, <3>1 DEF Shapes
    <3> QED BY <2>1, <3>2 DEF Awaited
  <2>4. ASSUME NEW n \in kept, store[n] = u PROVE store'[n] = u
    BY <1>2, <2>1, <2>4 DEF Shapes
  <2>5. ~ Awaited(u)
    <3> SUFFICES ASSUME NEW b \in Actors, reqs[b].step = "insert" PROVE FALSE BY DEF Awaited
    <3>1. b # a BY <1>6 DEF Shelve, At
    <3>2. At(b, "idle") \/ reqs[b].op \notin Placing \cup Deleting
      BY <1>1, <1>6, <2>1, <3>1, SureApart DEF Placing, Shelve, At
    <3>3. reqs[b] \in Fitting BY DEF Whole
    <3> QED BY <3>2, <3>3 DEF Fitting, Course, Placing, At
  <2> QED BY <1>4, <2>1, <2>2, <2>3, <2>4, <2>5
<1>7. CASE Insert(a)
  <2> SUFFICES ASSUME NEW u \in landed' \ gone'
               PROVE  \/ \E v \in Volumes : disk'[v] = u
                      \/ trash' = u
                      \/ \E n \in kept' : store'[n] = u
                      \/ Awaited(u)'
    BY <1>5
  <2>1. kept' = kept \cup {reqs[a].no} BY <1>7, InsertCalm
  <2>2. UNCHANGED <<disk, trash, store, landed, gone>> BY <1>7 DEF Insert, files
  <2>3. ASSUME Awaited(u) PROVE Awaited(u)' \/ store[reqs[a].no] = u
    <3>1. PICK b \in Actors : reqs[b].step = "insert" /\ store[reqs[b].no] = u
      BY <2>3 DEF Awaited
    <3>2. b # a => reqs'[b].step = "insert" /\ reqs'[b].no = reqs[b].no
      BY <1>2, <3>1, OtherWants
    <3> QED BY <2>2, <3>1, <3>2 DEF Awaited
  <2> QED BY <1>4, <2>1, <2>2, <2>3
\* What is taken from the store is given up; what awaits a row is not listed.
<1>8. ASSUME NEW ns \in SUBSET kept, store' = Unstored(ns), gone' = gone \cup StoredIn(ns),
             UNCHANGED <<disk, trash, landed>>, kept \ ns \subseteq kept', ~ At(a, "insert")
      PROVE  Saved'
  <2> SUFFICES ASSUME NEW u \in landed' \ gone'
               PROVE  \/ \E v \in Volumes : disk'[v] = u
                      \/ trash' = u
                      \/ \E n \in kept' : store'[n] = u
                      \/ Awaited(u)'
    BY <1>5
  <2>1. u \in landed \ gone /\ u \in Uploads /\ u \notin StoredIn(ns) BY <1>4, <1>8
  <2>2. ns \in SUBSET Numbers BY <1>2
  <2>3. \A n \in Numbers : store[n] = u => n \notin ns /\ store'[n] = u
    BY <1>8, <2>1, <2>2, Wasted
  <2>4. ASSUME Awaited(u) PROVE Awaited(u)'
    <3>1. PICK b \in Actors : reqs[b].step = "insert" /\ store[reqs[b].no] = u
      BY <2>4 DEF Awaited
    <3>2. b # a BY <1>8, <3>1 DEF At
    <3>3. reqs'[b].step = "insert" /\ reqs'[b].no = reqs[b].no BY <1>2, <3>1, <3>2, OtherWants
    <3>4. reqs[b].no \in Numbers BY <3>1 DEF Whole, Fitting, Fields
    <3> QED BY <2>3, <3>1, <3>3, <3>4 DEF Awaited
  <2> QED BY <1>2, <1>4, <1>8, <2>1, <2>3, <2>4
<1>9. CASE Trim(a)
  <2>1. Doomed \in SUBSET kept BY DEF Doomed
  <2>2. /\ store' = Unstored(Doomed) /\ gone' = gone \cup StoredIn(Doomed)
        /\ UNCHANGED <<disk, trash, landed>> /\ kept' = kept \ Doomed /\ ~ At(a, "insert")
    BY <1>9 DEF Trim, At
  <2> QED BY <1>8, <2>1, <2>2
<1>10. ASSUME NEW op \in OpNames, StartPurge(a, op) PROVE Saved'
  <2>1. UNCHANGED <<disk, trash, landed>> /\ ~ At(a, "insert")
    BY <1>10 DEF StartPurge, MayStart, At
  <2>2. CASE Chosen(op)
    <3>1. store' = Unstored(kept) /\ gone' = gone \cup StoredIn(kept)
      BY <1>10, <2>2 DEF StartPurge
    <3> QED BY <1>8, <2>1, <3>1
  <2>3. CASE ~ Chosen(op)
    <3>1. UNCHANGED <<store, kept, gone>> BY <1>10, <2>3 DEF StartPurge
    <3> QED BY <1>2, <2>1, <3>1, SavedKept
  <2> QED BY <2>2, <2>3
<1>11. CASE StartDrop(a)
  <2>1. PICK w \in kept : store' = Unstored({w}) /\ gone' = gone \cup StoredIn({w})
    BY <1>11, DropStarts
  <2>2. UNCHANGED <<disk, trash, landed, kept>> /\ ~ At(a, "insert")
    BY <1>11 DEF StartDrop, MayStart, At
  <2>3. {w} \in SUBSET kept /\ kept \ {w} \subseteq kept' BY <2>2
  <2> QED BY <1>8, <2>1, <2>2, <2>3
\* Rows go whose versions have no bytes.
<1>12. ASSUME UNCHANGED <<disk, trash, store, landed, gone>>, ~ At(a, "insert"),
              \A n \in kept \ kept' : store[n] = None
       PROVE  Saved'
  <2> SUFFICES ASSUME NEW u \in landed' \ gone'
               PROVE  \/ \E v \in Volumes : disk'[v] = u
                      \/ trash' = u
                      \/ \E n \in kept' : store'[n] = u
                      \/ Awaited(u)'
    BY <1>5
  <2>1. u \in landed \ gone /\ u # None BY <1>4, <1>12, Facts
  <2>2. Awaited(u) => Awaited(u)' BY <1>2, <1>12 DEF Awaited, Alone, At
  <2> QED BY <1>4, <1>12, <2>1, <2>2
<1>13. CASE Unrow(a)
  <2>1. UNCHANGED <<disk, trash, store, landed, gone>> /\ At(a, "unrow")
    BY <1>13 DEF Unrow, files
  <2>2. kept' = kept BY <1>3, <1>13, <2>1 DEF Unrow, Cleared, At
  <2> QED BY <1>12, <2>1, <2>2 DEF At
<1>14. CASE Undrop(a)
  <2>1. UNCHANGED <<disk, trash, store, landed, gone>> /\ At(a, "undrop")
        /\ kept' = kept \ {reqs[a].want}
    BY <1>14 DEF Undrop, files
  <2> QED BY <1>3, <1>12, <2>1 DEF Dropped, At
\* Bytes come and go on a volume or in the trash.
<1>15. ASSUME UNCHANGED <<store, kept>>, ~ At(a, "insert"),
              \A v \in Volumes : disk[v] \in gone' \cup {None, trash'} \/ disk'[v] = disk[v],
              trash \in gone' \cup {None, trash'} \/ \E v \in Volumes : disk'[v] = trash,
              \A u \in landed' \ landed : \E v \in Volumes : disk'[v] = u
       PROVE  Saved'
  <2> SUFFICES ASSUME NEW u \in landed' \ gone'
               PROVE  \/ \E v \in Volumes : disk'[v] = u
                      \/ trash' = u
                      \/ \E n \in kept' : store'[n] = u
                      \/ Awaited(u)'
    BY <1>5
  <2>1. CASE u \notin landed BY <1>15, <2>1
  <2>2. CASE u \in landed
    <3>1. u \in landed \ gone /\ u # None BY <1>2, <1>4, <2>2, Facts
    <3>2. Awaited(u) => Awaited(u)' BY <1>2, <1>15 DEF Awaited, Alone, At
    <3> QED BY <1>4, <1>15, <3>1, <3>2
  <2> QED BY <2>1, <2>2
<1>16. CASE Land(a)
  <2>1. reqs[a].step = "stream" /\ UNCHANGED <<trash, store, kept>> BY <1>16 DEF Land, At
  <2>2. reqs[a].op \in Uploading BY <1>1, <2>1 DEF Fitting, Course, Uploading
  <2>3. PICK v \in Volumes : v = reqs[a].vol BY <1>1, <2>2 DEF Fitting, Fields, Placing, Uploading
  <2>4. /\ disk' = [disk EXCEPT ![v] = part[v]] /\ landed' = landed \cup {part[v]}
        /\ reqs[a].op = "replica" => gone' = gone \cup ({disk[v]} \ {None})
    BY <1>16, <2>3 DEF Land, Is
  <2>5. disk[v] \in gone' \cup {None}
    <3>1. CASE reqs[a].op = "put" BY <1>3, <2>1, <3>1 DEF Sure, Holding
    <3>2. CASE reqs[a].op = "replica" BY <2>4, <3>2
    <3> QED BY <2>2, <3>1, <3>2 DEF Uploading
  <2>6. disk'[v] = part[v] /\ \A w \in Volumes \ {v} : disk'[w] = disk[w] BY <2>4 DEF Shapes
  <2>7. ~ At(a, "insert") BY <2>1 DEF At
  <2> QED BY <1>15, <2>1, <2>4, <2>5, <2>6, <2>7
<1>17. CASE RollBack(a)
  <2>1. /\ disk' = [disk EXCEPT ![reqs[a].vol] = None]
        /\ gone' = gone \cup ({disk[reqs[a].vol]} \ {None})
        /\ UNCHANGED <<trash, store, kept, landed>> /\ ~ At(a, "insert")
    BY <1>17 DEF RollBack, At
  <2>2. \A w \in Volumes : disk[w] \in gone' \cup {None} \/ disk'[w] = disk[w]
    BY <2>1 DEF Shapes
  <2> QED BY <1>15, <2>1, <2>2
<1>18. CASE Bin(a)
  <2>1. UNCHANGED <<store, kept, landed>> /\ At(a, "bin") BY <1>18 DEF Bin
  <2>2. reqs[a].op \in Deleting BY <1>1, <2>1 DEF Fitting, Course, At
  <2>3. PICK v \in Volumes : v = reqs[a].vol BY <1>1, <2>2 DEF Fitting, Fields
  <2>4. disk' = [disk EXCEPT ![v] = None] BY <1>18, <2>3 DEF Bin
  <2>5. /\ disk[v] \in gone' \cup {None, trash'}
        /\ trash \in gone' \cup {None, trash'}
    <3>1. CASE disk[v] = None BY <1>18, <2>3, <3>1 DEF Bin
    <3>2. CASE disk[v] # None
      <4>1. \/ trash' = disk[v] /\ gone' = gone \cup ({trash} \ {None})
            \/ gone' = gone \cup {disk[v]} /\ trash' = trash
        BY <1>18, <2>3, <3>2 DEF Bin
      <4> QED BY <4>1
    <3> QED BY <3>1, <3>2
  <2>6. \A w \in Volumes \ {v} : disk'[w] = disk[w] BY <2>4 DEF Shapes
  <2> QED BY <1>15, <2>1, <2>5, <2>6 DEF At
<1>19. CASE MoveBack(a)
  <2>1. UNCHANGED <<store, kept, landed>> /\ At(a, "move") BY <1>19 DEF MoveBack
  <2>2. reqs[a].op = "undelete" BY <1>1, <2>1 DEF Fitting, Course, At
  <2>3. PICK v \in Volumes : v = reqs[a].vol BY <1>1, <2>2 DEF Fitting, Fields, Placing
  <2>4. CASE trash = None
    <3>1. UNCHANGED <<disk, trash>> BY <1>19, <2>4 DEF MoveBack
    <3> QED BY <1>2, <2>1, <3>1, SavedKept DEF At
  <2>5. CASE trash # None
    <3>1. Holding = {} BY <1>3, <2>1, <2>5 DEF Sure, At
    <3>2. disk' = [disk EXCEPT ![v] = trash] BY <1>19, <2>3, <2>5 DEF MoveBack
    <3>3. disk'[v] = trash /\ \A w \in Volumes : disk[w] = None
      BY <3>1, <3>2 DEF Shapes, Holding
    <3> QED BY <1>15, <2>1, <3>3 DEF At
  <2> QED BY <2>4, <2>5
<1>20. CASE EmptyTrash(a)
  <2>1. UNCHANGED <<disk, store, kept, landed>> /\ At(a, "empty") BY <1>20 DEF EmptyTrash
  <2>2. trash \in gone' \cup {None, trash'} BY <1>20 DEF EmptyTrash
  <2> QED BY <1>15, <2>1, <2>2 DEF At
<1>21. CASE Copy(a)
  <2>1. UNCHANGED <<trash, store, kept, landed>> /\ At(a, "copy") BY <1>21 DEF Copy
  <2>2. Holding = {} BY <1>3, <2>1 DEF Sure, At
  <2>3. \A w \in Volumes : disk[w] = None BY <2>2 DEF Holding
  <2> QED BY <1>15, <2>1, <2>3 DEF At
<1>22. ASSUME UNCHANGED <<disk, trash, store, kept, landed>>, ~ At(a, "insert") PROVE Saved'
  BY <1>2, <1>22, SavedKept
<1>23. CASE Retaining(a)
  BY <1>6, <1>7, <1>9, <1>22, <1>23 DEF Retaining, Look, Number, TrimFails, At, files
<1>24. CASE Writing(a)
  BY <1>16, <1>17, <1>22, <1>24 DEF Writing, Open, Break, Accept, Record, At, files
<1>25. CASE Moving(a)
  BY <1>18, <1>19, <1>21, <1>22, <1>25 DEF Moving, Unrecord, Revive, At, files
<1>26. CASE Clearing(a) BY <1>13, <1>14, <1>20, <1>26 DEF Clearing
<1>27. CASE Starting(a)
  BY <1>10, <1>11, <1>22, <1>27 DEF Starting, Start, StartPut, StartDelete, StartUndelete,
     StartRevert, MayStart, At, files
<1> QED BY <1>23, <1>24, <1>25, <1>26, <1>27 DEF Does
-----------------------------------------------------------------------------
(* Nothing is lost, retention is kept, and what is in the trash unserved.   *)

\* Calm as long as no statement has failed.
Kept == Typed /\ Numbering /\ Bound /\ (used.faults = 0 => Calm)

LEMMA InitKept == Init => Kept
<1> SUFFICES ASSUME Init PROVE Kept OBVIOUS
<1>1. PICK v \in Volumes \cup {None} :
        /\ disk = [w \in Volumes |-> IF w = v THEN 1 ELSE None]
        /\ row = IF v = None THEN NoRow
                 ELSE [status |-> "active", id |-> 1, vol |-> v, sum |-> 1]
        /\ landed = IF v = None THEN {} ELSE {1}
  BY DEF Init
<1>2. Typed /\ Bound /\ \A a \in Actors : At(a, "idle") BY InitTyped, InitBound
<1>3. \A a \in Actors : reqs[a].step = "idle" BY <1>2 DEF At
<1>4. kept = {} BY DEF Init
<1>5. Presence
  <2>1. \A a \in Actors : Sure(a) BY <1>3 DEF Sure
  <2>2. Vouched
    <3>1. CASE v = None
      <4>1. Holding = {} BY <1>1, <3>1, Facts DEF Holding
      <4> QED BY <4>1 DEF Vouched
    <3>2. CASE v # None
      <4>1. row.status = "active" BY <1>1, <3>2
      <4> QED BY <4>1 DEF Vouched
    <3> QED BY <3>1, <3>2
  <2> QED BY <2>1, <2>2 DEF Presence
<1>6. Listing
  <2>1. Cardinality(kept) <= RetainCount BY <1>4, FS_EmptySet, Facts
  <2> QED BY <1>3, <1>4, <2>1 DEF Listing, Cleared, Dropped, Backed, Limited
<1>7. Saved
  <2>1. v # None => disk[v] = 1 BY <1>1
  <2> QED BY <1>1, <2>1 DEF Saved, Held
<1> QED BY <1>2, <1>3, <1>5, <1>6, <1>7 DEF Kept, Numbering, Calm

LEMMA NextKept ==
  ASSUME ReadOnly = {}, Together \subseteq Safe, Kept, [Next]_vars
  PROVE  Kept'
<1>1. RetainingApart /\ PlacingApart BY Careful
<1>2. Typed' /\ Numbering' /\ Bound' BY <1>1, NextTyped, NextNumbering, NextBound DEF Kept
<1>3. CASE UNCHANGED vars
  <2>1. Presence => Presence' BY <1>3 DEF vars, Presence, Vouched, Sure, Holding
  <2>2. Listing => Listing'
    BY <1>3 DEF vars, Listing, Cleared, Dropped, Backed, Limited
  <2>3. Saved => Saved' BY <1>3 DEF vars, Saved, Held, StoredIn
  <2>4. used' = used BY <1>3 DEF vars
  <2> QED BY <1>2, <2>1, <2>2, <2>3, <2>4 DEF Kept, Calm
<1>4. CASE Next
  <2> SUFFICES ASSUME used'.faults = 0 PROVE Calm' BY <1>2 DEF Kept
  <2>1. PICK a \in Actors : Does(a) BY <1>4, NextDoes
  <2>2. Shapes /\ Whole BY DEF Kept, Typed
  <2>3. used.faults = 0 /\ ~ Fault BY <2>1, <2>2, FaultFree
  <2>4. Good BY <2>3 DEF Kept, Good
  <2>5. Presence'
    BY <2>1, <2>3, <2>4, RetainPresence, WritePresence, MovePresence, ClearPresence,
       StartPresence DEF Does
  <2>6. Listing'
    <3>1. CASE Shelve(a) \/ Insert(a) \/ Trim(a) BY <2>3, <2>4, <3>1, RetainListing
    <3>2. CASE Unrow(a) \/ Undrop(a) \/ StartDrop(a) \/ \E op \in OpNames : StartPurge(a, op)
      BY <2>4, <3>2, ShrinkListing
    <3>3. CASE ~ (Shelve(a) \/ Insert(a) \/ Trim(a)) /\ ~ (Unrow(a) \/ Undrop(a) \/ StartDrop(a)
                \/ \E op \in OpNames : StartPurge(a, op))
      BY <2>1, <2>3, <2>4, <3>3, QuietListing
    <3> QED BY <3>1, <3>2, <3>3
  <2>7. Saved' BY <2>1, <2>3, <2>4, StepSaves
  <2> QED BY <2>5, <2>6, <2>7 DEF Calm
<1> QED BY <1>3, <1>4

LEMMA AlwaysKept ==
  ASSUME ReadOnly = {}, Together \subseteq Safe
  PROVE  Spec => []Kept
<1>1. Init => Kept BY InitKept
<1>2. Kept /\ [Next]_vars => Kept' BY NextKept
<1> QED BY <1>1, <1>2, PTL DEF Spec

\* No request destroys bytes that were once the master, whatever the volumes,
\* requests, versions and retention limit, if no statement fails: what was put in
\* place is on a volume, in the trash or a listed version until it is given up.
\* Uploads may break off or be rolled back at any point.
THEOREM NothingIsLost ==
  ASSUME ReadOnly = {}, Together \subseteq Safe
  PROVE  Spec => []Recoverable
<1>1. Kept => Recoverable BY DEF Kept, Calm, Recoverable, AtRest, At, Saved
<1> QED BY <1>1, AlwaysKept, PTL

\* Between requests no more versions are listed than are to be kept, and each
\* has its bytes.
THEOREM RetentionIsKept ==
  ASSUME ReadOnly = {}, Together \subseteq Safe
  PROVE  Spec => []VersionsKept
<1>1. Kept => VersionsKept
  <2> SUFFICES ASSUME Listing, \A a \in Actors : reqs[a].step = "idle"
               PROVE  Cardinality(kept) <= RetainCount /\ \A n \in kept : store[n] # None
    BY DEF Kept, Calm, VersionsKept, AtRest, At
  <2> QED BY DEF Listing, Backed, Limited
<1> QED BY <1>1, AlwaysKept, PTL

\* Between requests the bytes that are served have an active row: a master that
\* was moved to the trash answers 404.
THEOREM TrashIsUnserved ==
  ASSUME ReadOnly = {}, Together \subseteq Safe
  PROVE  Spec => []TrashedIsUnserved
<1>1. Kept => TrashedIsUnserved
  <2> SUFFICES ASSUME Presence, \A a \in Actors : reqs[a].step = "idle", Served # None
               PROVE  row.status = "active"
    BY DEF Kept, Calm, TrashedIsUnserved, AtRest, At
  <2>1. Holding # {} BY DEF Served, Found
  <2> QED BY <2>1 DEF Presence, Vouched
<1> QED BY <1>1, AlwaysKept, PTL
=============================================================================
