---------------------------- MODULE LibraryProofs ----------------------------
(* Theorems about Library for any number of directories, names, requests,   *)
(* links and visitors: deletions, moves and copies lose no bytes that       *)
(* nobody gave up, the index agrees with the tree at rest, and the cap of a *)
(* link holds.                                                              *)
EXTENDS Library, FiniteSetTheorems, TLAPS

-----------------------------------------------------------------------------
(* Shapes of requests.                                                     *)

Asked == [op: {"put", "delete", "move", "copy", None}, src: Rel \cup {None},
          dst: Rel \cup {None}, todo: SUBSET File, at: File \cup {None},
          step: {"idle", "stream", "clear", "look", "each", "rename"}]

\* r itself, if it is a file, and the files in it.
Under(r) == {f \in File : f = r \/ f[1] = r}

\* A source and a destination of one kind.
Pair(r) == /\ r.src \in Rel /\ r.dst \in Rel /\ r.src # r.dst
           /\ (r.src \in Dir) = (r.dst \in Dir)

ReqOK(r) ==
  /\ r.step = "stream" => r.src \in File
  /\ r.step = "clear" =>
       /\ r.src \in Rel
       /\ r.op = "delete" \/ (r.op \in {"move", "copy"} /\ Pair(r))
  /\ r.step \in {"look", "each", "rename"} => r.op \in {"move", "copy"} /\ Pair(r)
  /\ r.step \in {"each", "rename"} => r.todo \subseteq Under(r.src)
  /\ r.step = "rename" => r.op = "move" /\ r.at \in Under(r.src)

Requests == \A a \in Actors : ReqOK(reqs[a])

Shape == TypeOK /\ Requests

LEMMA Apart ==
  /\ \A f \in File : /\ f \notin Dir /\ f # None /\ f[1] \in Dir /\ f[2] \in Name
                     /\ f = <<f[1], f[2]>> /\ f[1] # None /\ f \in Rel /\ f[1] \in Rel
  /\ \A d \in Dir : d \notin File /\ d # None /\ d \in Rel
  /\ None \notin Nat /\ None \notin Link /\ None \notin Serial /\ None \notin Rel
BY LibraryAssumption DEF File, Rel, Serial

LEMMA RelFacts == \A r : r \in Rel <=> r \in File \/ r \in Dir
BY DEF Rel

LEMMA IdleOK == Idle \in Asked /\ ReqOK(Idle)
BY DEF Idle, Asked, ReqOK

LEMMA ListedFact == ASSUME NEW r PROVE Listed(r) \subseteq Under(r)
BY DEF Listed, Under

LEMMA OntoFact ==
  ASSUME NEW r \in Asked, Pair(r), NEW f \in Under(r.src)
  PROVE  /\ Onto(f, r.src, r.dst) \in File /\ Onto(f, r.src, r.dst) # f
         /\ Onto(f, r.src, r.dst) \in Under(r.dst)
         /\ Onto(f, r.src, r.dst) \notin Under(r.src)
<1>1. f \in File BY DEF Under
<1>2. CASE r.src \in Dir
  <2>1. r.dst \in Dir /\ f[1] = r.src BY <1>1, <1>2, Apart DEF Pair, Under
  <2>2. <<r.dst, f[2]>> \in File /\ <<r.dst, f[2]>>[1] = r.dst
    BY <1>1, <2>1, Apart DEF File
  <2> QED BY <1>1, <1>2, <2>1, <2>2, Apart DEF Onto, Pair, Under
<1>3. CASE r.src \notin Dir
  <2>1. r.src \in File /\ r.dst \in File BY <1>3, RelFacts DEF Pair
  <2>2. f = r.src BY <1>1, <2>1, Apart DEF Under
  <2> QED BY <1>1, <1>3, <2>1, <2>2, Apart DEF Onto, Pair, Under
<1> QED BY <1>2, <1>3

LEMMA SetReq ==
  ASSUME Shape, NEW a \in Actors, NEW r \in Asked, ReqOK(r),
         reqs' = [reqs EXCEPT ![a] = r]
  PROVE  /\ reqs' \in [Actors -> Asked] /\ Requests'
         /\ reqs'[a] = r /\ \A b \in Actors \ {a} : reqs'[b] = reqs[b]
BY DEF Shape, TypeOK, Asked, Requests

\* The fields of a request under way.
LEMMA ReqFields ==
  ASSUME Shape, NEW a \in Actors
  PROVE  reqs[a] \in Asked /\ ReqOK(reqs[a])
BY DEF Shape, TypeOK, Asked, Requests

LEMMA BeginStep ==
  ASSUME Shape, NEW a \in Actors, NEW r \in Asked, ReqOK(r), Begin(a, r)
  PROVE  /\ reqs' \in [Actors -> Asked] /\ Requests' /\ reqs'[a] = r
         /\ \A b \in Actors \ {a} : reqs'[b] = reqs[b]
         /\ used' \in [writes: 0 .. MaxWrites, requests: Nat, faults: Nat]
         /\ used'.writes = used.writes
<1>1. used'.writes = used.writes
      /\ used' \in [writes: 0 .. MaxWrites, requests: Nat, faults: Nat]
  BY DEF Begin, Shape, TypeOK
<1> QED BY <1>1, SetReq DEF Begin

LEMMA StartPutStep ==
  ASSUME Shape, NEW a \in Actors, NEW f \in File, StartPut(a, f)
  PROVE  \E r \in Asked : Begin(a, r) /\ ReqOK(r) /\ r.step = "stream"
<1> DEFINE r == [Idle EXCEPT !.op = "put", !.src = f, !.step = "stream"]
<1>1. r \in Asked /\ ReqOK(r) /\ r.step = "stream"
  BY Apart DEF Idle, Asked, ReqOK
<1> QED BY <1>1 DEF StartPut

LEMMA StartDeleteStep ==
  ASSUME Shape, NEW a \in Actors, NEW x \in Rel, StartDelete(a, x)
  PROVE  \E r \in Asked : /\ Begin(a, r) /\ ReqOK(r) /\ r.step = "clear"
                          /\ r.op = "delete" /\ r.src = x /\ r.todo = Listed(x)
<1> DEFINE r == [Idle EXCEPT !.op = "delete", !.src = x, !.step = "clear", !.todo = Listed(x)]
<1>1. /\ r \in Asked /\ ReqOK(r) /\ r.step = "clear" /\ r.op = "delete"
      /\ r.src = x /\ r.todo = Listed(x)
  BY ListedFact DEF Idle, Asked, ReqOK, Under
<1> QED BY <1>1 DEF StartDelete

LEMMA StartMoveStep ==
  ASSUME Shape, NEW a \in Actors, NEW op \in {"move", "copy"}, NEW src \in Rel, NEW dst \in Rel,
         NEW overwrite \in BOOLEAN,
         StartMove(a, op, src, dst, overwrite)
  PROVE  \E r \in Asked : /\ Begin(a, r) /\ ReqOK(r) /\ r.step \in {"clear", "look"}
                          /\ r.op \in {"move", "copy"} /\ r.dst = dst /\ r.todo = Listed(dst)
<1> DEFINE st == IF Exists(dst) THEN "clear" ELSE "look"
           r == [Idle EXCEPT !.op = op, !.src = src, !.dst = dst, !.todo = Listed(dst),
                             !.step = st]
<1>1. st \in {"clear", "look"} OBVIOUS
<1>2. Begin(a, r) /\ src # dst /\ (src \in Dir) = (dst \in Dir) BY DEF StartMove
<1> HIDE DEF st
<1>3. /\ r.op = op /\ r.src = src /\ r.dst = dst /\ r.todo = Listed(dst) /\ r.step = st
      /\ r \in Asked
  BY <1>1, ListedFact DEF Idle, Asked, Under
<1>4. ReqOK(r) BY <1>1, <1>2, <1>3 DEF ReqOK, Pair
<1> QED BY <1>1, <1>2, <1>3, <1>4

LEMMA RenameFolderStep ==
  ASSUME Shape, NEW a \in Actors, NEW from \in Dir, NEW to \in Dir, RenameFolder(a, from, to)
  PROVE  \E r \in Asked : Begin(a, r) /\ ReqOK(r) /\ r.step = "look"
<1> DEFINE r == [Idle EXCEPT !.op = "move", !.src = from, !.dst = to, !.step = "look"]
<1>1. r \in Asked /\ ReqOK(r) /\ r.step = "look"
  BY Apart DEF Idle, Asked, ReqOK, Pair, RenameFolder
<1> QED BY <1>1 DEF RenameFolder

-----------------------------------------------------------------------------
(* The inductive invariant.                                                *)

\* The directory a request removes when it is through.
Removes(r) ==
  IF r.step = "clear" THEN IF r.op = "delete" THEN r.src ELSE r.dst
  ELSE IF r.step \in {"each", "rename"} /\ r.op = "move" THEN r.src ELSE None

\* What it finds there and has not listed came while it was under way.
Leftovers == \A a \in Actors, f \in File :
  disk[f] # None /\ f[1] = Removes(reqs[a])
    => f \in reqs[a].todo \/ (disk[f] \in forgone /\ f \in strayed)

\* The paths IndexAgrees says nothing of.
Spoilt == strayed \cup collided

Ends(r) == {r.at, Onto(r.at, r.src, r.dst)}
Quiet(f) == \A s \in fired : s.path # f

\* Between the move of a file and that of its row.
Moved(f, g) == /\ row[f].status = "active" /\ row[f].sum = disk[g] /\ disk[f] = None
               /\ Quiet(f) /\ Quiet(g)
Renames == \A a \in Actors :
  At(a, "rename") /\ Ends(reqs[a]) \cap Spoilt = {}
    => Moved(reqs[a].at, Onto(reqs[a].at, reqs[a].src, reqs[a].dst))

\* The one statement to come for f will make its row agree.
Awaits(f) == \E s \in fired : /\ \A t \in fired : t.path = f <=> t = s
                              /\ disk[f] = IF s.op = "put" THEN s.no ELSE None
Renamed(f) == \E a \in Actors : At(a, "rename") /\ f \in Ends(reqs[a])
Paths == \A f \in File \ Spoilt :
  Renamed(f) \/ (Quiet(f) /\ Agrees(f)) \/ Awaits(f)

Tree == Shape /\ Leftovers /\ Renames /\ Paths

\* Who removes the directory of a path, or renames it, is at it.
LEMMA TouchFact ==
  ASSUME Shape, NEW a \in Actors, NEW b \in Actors \ {a}, NEW f \in File,
         \/ f[1] = Removes(reqs[b])
         \/ At(b, "rename") /\ f \in Ends(reqs[b])
  PROVE  f \in Taken(a)
<1>1. reqs[b] \in Asked /\ ReqOK(reqs[b]) BY ReqFields
<1>2. ASSUME f[1] = Removes(reqs[b]) PROVE f \in Taken(a)
  BY <1>1, <1>2, Apart DEF Removes, Taken, At
<1>3. ASSUME At(b, "rename"), f \in Ends(reqs[b]) PROVE f \in Taken(a)
  <2>1. Pair(reqs[b]) /\ reqs[b].at \in Under(reqs[b].src)
    BY <1>1, <1>3 DEF At, ReqOK
  <2>2. f \in Under(reqs[b].src) \/ f \in Under(reqs[b].dst)
    BY <1>1, <1>3, <2>1, OntoFact DEF Ends
  <2> QED BY <1>1, <1>3, <2>2 DEF Under, Taken, At
<1> QED BY <1>2, <1>3

\* A step of a request that changes the disk at the paths of F, if any, and
\* leaves the rows to statements of their own.
LEMMA DiskStep ==
  ASSUME Tree, Shape', NEW a \in Actors, ~ At(a, "rename"),
         NEW F \in SUBSET File, UNCHANGED <<row, collided>>,
         strayed \subseteq strayed', forgone \subseteq forgone',
         \A f \in F : Meets(a, f) => f \in strayed',
         \A f \in F : disk'[f] # None /\ f \in Taken(a) => disk'[f] \in forgone',
         \A f \in F : f \notin Spoilt' => Renamed(f)' \/ Awaits(f)',
         \A f \in File \ F : /\ disk'[f] = disk[f]
                             /\ \A s : s.path = f => (s \in fired' <=> s \in fired),
         \A b \in Actors \ {a} : reqs'[b] = reqs[b] \/ (At(b, "stream") /\ reqs'[b] = Idle),
         \A f \in File : disk'[f] # None /\ f[1] = Removes(reqs'[a])
                           => f \in reqs'[a].todo \/ (disk'[f] \in forgone' /\ f \in strayed'),
         At(a, "rename")' /\ Ends(reqs'[a]) \cap Spoilt' = {}
           => Moved(reqs[a].at, Onto(reqs[a].at, reqs[a].src, reqs[a].dst))'
  PROVE  Tree'
<1>0. Spoilt \subseteq Spoilt' BY DEF Spoilt
<1>1. Leftovers'
  <2> SUFFICES ASSUME NEW b \in Actors, NEW f \in File,
                      disk'[f] # None, f[1] = Removes(reqs'[b])
               PROVE  f \in reqs'[b].todo \/ (disk'[f] \in forgone' /\ f \in strayed')
    BY DEF Leftovers
  <2>1. CASE b = a BY <2>1
  <2>2. CASE b # a
    <3>1. reqs'[b] = reqs[b] BY <2>2, Apart DEF Removes, Idle
    <3>2. CASE f \in F BY <2>2, <3>1, <3>2, TouchFact DEF Tree, Meets
    <3>3. CASE f \notin F BY <3>1, <3>3 DEF Tree, Leftovers
    <3> QED BY <3>2, <3>3
  <2> QED BY <2>1, <2>2
<1>2. Renames'
  <2> SUFFICES ASSUME NEW b \in Actors, At(b, "rename")', Ends(reqs'[b]) \cap Spoilt' = {}
               PROVE  Moved(reqs[b].at, Onto(reqs[b].at, reqs[b].src, reqs[b].dst))'
    BY DEF Renames
  <2>1. CASE b = a BY <2>1
  <2>2. CASE b # a
    <3>1. reqs'[b] = reqs[b] /\ At(b, "rename") BY <2>2 DEF At, Idle
    <3>2. PICK f \in File, g \in File :
            /\ f = reqs[b].at /\ g = Onto(reqs[b].at, reqs[b].src, reqs[b].dst)
            /\ Ends(reqs[b]) = {f, g}
      BY <3>1, ReqFields, OntoFact DEF Tree, At, ReqOK, Under, Ends
    <3>3. f = reqs'[b].at /\ g = Onto(reqs'[b].at, reqs'[b].src, reqs'[b].dst)
      BY <3>1, <3>2
    <3>4. f \notin F /\ g \notin F
      BY <2>2, <3>1, <3>2, TouchFact DEF Tree, Meets, Spoilt
    <3>5. Moved(f, g) BY <1>0, <3>1, <3>2 DEF Tree, Renames
    <3>6. Quiet(f)' /\ Quiet(g)' BY <3>4, <3>5 DEF Quiet, Moved
    <3>7. Moved(f, g)' BY <3>4, <3>5, <3>6 DEF Moved
    <3> QED BY <3>3, <3>7
  <2> QED BY <2>1, <2>2
<1>3. Paths'
  <2> SUFFICES ASSUME NEW f \in File, f \notin Spoilt'
               PROVE  Renamed(f)' \/ (Quiet(f)' /\ Agrees(f)') \/ Awaits(f)'
    BY DEF Paths
  <2>1. CASE f \in F BY <2>1
  <2>2. CASE f \notin F
    <3>1. f \notin Spoilt BY <1>0
    <3>2. ASSUME Renamed(f) PROVE Renamed(f)'
      BY <3>2 DEF Renamed, At
    <3>3. ASSUME Quiet(f), Agrees(f) PROVE Quiet(f)' /\ Agrees(f)'
      BY <2>2, <3>3 DEF Quiet, Agrees
    <3>4. ASSUME Awaits(f) PROVE Awaits(f)'
      <4>1. PICK s \in fired : /\ \A t \in fired : t.path = f <=> t = s
                               /\ disk[f] = IF s.op = "put" THEN s.no ELSE None
        BY <3>4 DEF Awaits
      <4>2. s.path = f /\ s \in fired' BY <2>2, <4>1
      <4>3. \A t \in fired' : t.path = f <=> t = s BY <2>2, <4>1, <4>2
      <4> QED BY <2>2, <4>1, <4>2, <4>3 DEF Awaits
    <3> QED BY <3>1, <3>2, <3>3, <3>4 DEF Tree, Paths
  <2> QED BY <2>1, <2>2
<1> QED BY <1>1, <1>2, <1>3 DEF Tree

-----------------------------------------------------------------------------
(* Steps that change requests, and directories, but no file.               *)

LEMMA QuietStep ==
  ASSUME Tree, Shape', NEW a \in Actors, ~ At(a, "rename"), ~ At(a, "rename")',
         UNCHANGED <<disk, row, fired, forgone, strayed, collided>>,
         \A b \in Actors \ {a} : reqs'[b] = reqs[b],
         \A f \in File : disk[f] # None /\ f[1] = Removes(reqs'[a])
                           => f \in reqs'[a].todo \/ (disk[f] \in forgone /\ f \in strayed)
  PROVE  Tree'
<1> DEFINE F == {}
<1>1. /\ F \in SUBSET File /\ UNCHANGED <<row, collided>>
      /\ strayed \subseteq strayed' /\ forgone \subseteq forgone'
      /\ \A f \in F : Meets(a, f) => f \in strayed'
      /\ \A f \in F : disk'[f] # None /\ f \in Taken(a) => disk'[f] \in forgone'
      /\ \A f \in F : f \notin Spoilt' => Renamed(f)' \/ Awaits(f)'
  OBVIOUS
<1>2. \A f \in File \ F : /\ disk'[f] = disk[f]
                          /\ \A s : s.path = f => (s \in fired' <=> s \in fired)
  OBVIOUS
<1>3. /\ \A b \in Actors \ {a} : reqs'[b] = reqs[b] \/ (At(b, "stream") /\ reqs'[b] = Idle)
      /\ \A f \in File : disk'[f] # None /\ f[1] = Removes(reqs'[a])
                           => f \in reqs'[a].todo \/ (disk'[f] \in forgone' /\ f \in strayed')
  OBVIOUS
<1> HIDE DEF F
<1> QED BY <1>1, <1>2, <1>3, DiskStep

LEMMA ShapeQuiet ==
  ASSUME Shape, UNCHANGED <<disk, bin, row, fired, sharing, observed>>, dirs' \subseteq Dir,
         reqs' \in [Actors -> Asked], Requests',
         used' = used \/ used' \in [writes: 0 .. MaxWrites, requests: Nat, faults: Nat]
  PROVE  Shape'
BY DEF Shape, TypeOK, Asked, sharing, observed

LEMMA FaultFact ==
  ASSUME Shape, Fault
  PROVE  /\ used' \in [writes: 0 .. MaxWrites, requests: Nat, faults: Nat]
         /\ used'.writes = used.writes
BY DEF Shape, TypeOK, Fault

\* What is listed is complete.
LEMMA ListedAll ==
  ASSUME NEW d, NEW f \in File, disk[f] # None, f[1] = d
  PROVE  f \in Listed(d)
BY DEF Listed

LEMMA RequestTree ==
  ASSUME Tree, NEW a \in Actors, Request(a) PROVE Tree'
<1> USE DEF Tree
<1>1. ASSUME NEW r \in Asked, Begin(a, r), ReqOK(r), r.step # "rename",
             r.step = "clear" => r.todo = Listed(Removes(r)),
             r.step \notin {"each", "rename"},
             dirs' \subseteq Dir, UNCHANGED <<disk, bin, row, fired, sharing, observed>>
      PROVE  Tree'
  <2>1. /\ reqs' \in [Actors -> Asked] /\ Requests' /\ reqs'[a] = r
        /\ \A b \in Actors \ {a} : reqs'[b] = reqs[b]
        /\ used' \in [writes: 0 .. MaxWrites, requests: Nat, faults: Nat]
    BY <1>1, BeginStep
  <2>2. Shape' BY <1>1, <2>1, ShapeQuiet
  <2>3. ~ At(a, "rename") /\ ~ At(a, "rename")' BY <1>1, <2>1 DEF At, Begin
  <2>4. \A f \in File : disk[f] # None /\ f[1] = Removes(reqs'[a]) => f \in reqs'[a].todo
    BY <1>1, <2>1, ListedAll, Apart DEF Removes
  <2>5. UNCHANGED <<disk, row, fired, forgone, strayed, collided>> BY <1>1 DEF observed
  <2> QED BY <2>1, <2>2, <2>3, <2>4, <2>5, QuietStep
<1>2. ASSUME NEW f \in File, StartPut(a, f) PROVE Tree'
  <2>1. dirs' \subseteq Dir BY <1>2, Apart DEF StartPut, Shape, TypeOK
  <2>2. UNCHANGED <<disk, bin, row, fired, sharing, observed>> BY <1>2 DEF StartPut
  <2> QED BY <1>1, <1>2, <2>1, <2>2, StartPutStep
<1>3. ASSUME UNCHANGED <<tree, row, fired, sharing, observed>>
      PROVE  dirs' \subseteq Dir /\ UNCHANGED <<disk, bin, row, fired, sharing, observed>>
  BY <1>3 DEF tree, Shape, TypeOK
<1>4. ASSUME NEW x \in Rel, StartDelete(a, x) PROVE Tree'
  <2>1. UNCHANGED <<tree, row, fired, sharing, observed>> BY <1>4 DEF StartDelete
  <2>2. PICK r \in Asked : /\ Begin(a, r) /\ ReqOK(r) /\ r.step = "clear"
                           /\ r.op = "delete" /\ r.src = x /\ r.todo = Listed(x)
    BY <1>4, StartDeleteStep
  <2>3. Removes(r) = x BY <2>2 DEF Removes
  <2> QED BY <1>1, <1>3, <2>1, <2>2, <2>3
<1>5. ASSUME NEW op \in {"move", "copy"}, NEW src \in Rel, NEW dst \in Rel,
             NEW overwrite \in BOOLEAN, StartMove(a, op, src, dst, overwrite)
      PROVE  Tree'
  <2>1. UNCHANGED <<tree, row, fired, sharing, observed>> BY <1>5 DEF StartMove
  <2>2. PICK r \in Asked : /\ Begin(a, r) /\ ReqOK(r) /\ r.step \in {"clear", "look"}
                           /\ r.op \in {"move", "copy"} /\ r.dst = dst /\ r.todo = Listed(dst)
    BY <1>5, StartMoveStep
  <2>3. r.step = "clear" => Removes(r) = dst BY <2>2 DEF Removes
  <2> QED BY <1>1, <1>3, <2>1, <2>2, <2>3
<1>6. ASSUME NEW from \in Dir, NEW to \in Dir, RenameFolder(a, from, to) PROVE Tree'
  <2>1. UNCHANGED <<tree, row, fired, sharing, observed>> BY <1>6 DEF RenameFolder
  <2> QED BY <1>1, <1>3, <1>6, <2>1, RenameFolderStep
<1> QED BY <1>2, <1>4, <1>5, <1>6 DEF Request

LEMMA EndFact ==
  ASSUME Shape, NEW a \in Actors, End(a)
  PROVE  /\ reqs' \in [Actors -> Asked] /\ Requests' /\ reqs'[a] = Idle
         /\ \A b \in Actors \ {a} : reqs'[b] = reqs[b]
         /\ ~ At(a, "rename")' /\ Removes(reqs'[a]) = None
<1>1. /\ reqs' \in [Actors -> Asked] /\ Requests' /\ reqs'[a] = Idle
      /\ \A b \in Actors \ {a} : reqs'[b] = reqs[b]
  BY IdleOK, SetReq DEF End
<1> QED BY <1>1 DEF At, Removes, Idle

\* A request that ends with nothing else changed.
LEMMA EndTree ==
  ASSUME Tree, NEW a \in Actors, End(a), ~ At(a, "rename"),
         UNCHANGED <<tree, row, fired, sharing, observed>>,
         used' = used \/ used' \in [writes: 0 .. MaxWrites, requests: Nat, faults: Nat]
  PROVE  Tree'
<1>1. Shape' BY EndFact, ShapeQuiet DEF Tree, tree, Shape, TypeOK
<1> QED BY <1>1, EndFact, QuietStep, Apart DEF Tree, tree, observed

LEMMA LookTree ==
  ASSUME Tree, NEW a \in Actors, Look(a) PROVE Tree'
<1>1. CASE ~ Exists(reqs[a].src)
  <2>1. End(a) /\ ~ At(a, "rename") /\ used' = used
        /\ UNCHANGED <<tree, row, fired, sharing, observed>>
    BY <1>1 DEF Look, At, tree
  <2> QED BY <2>1, EndTree
<1>2. CASE Exists(reqs[a].src)
  <2> DEFINE r == [reqs[a] EXCEPT !.step = "each", !.todo = Listed(reqs[a].src)]
  <2>1. reqs[a] \in Asked /\ ReqOK(reqs[a]) /\ reqs[a].step = "look"
    BY <1>2, ReqFields DEF Tree, Look, At
  <2>2. reqs' = [reqs EXCEPT ![a] = r] BY <1>2 DEF Look, Tree, Shape, TypeOK
  <2>3. /\ r \in Asked /\ r.step = "each" /\ r.todo = Listed(reqs[a].src)
        /\ r.op = reqs[a].op /\ r.src = reqs[a].src /\ r.dst = reqs[a].dst
    BY <2>1, ListedFact DEF Asked, Under
  <2> HIDE DEF r
  <2>4. ReqOK(r) BY <2>1, <2>3, ListedFact DEF ReqOK, Pair
  <2>5. /\ reqs' \in [Actors -> Asked] /\ Requests' /\ reqs'[a] = r
        /\ \A b \in Actors \ {a} : reqs'[b] = reqs[b]
    BY <2>2, <2>3, <2>4, SetReq DEF Tree
  <2>6. dirs' \subseteq Dir /\ UNCHANGED <<disk, bin, row, fired, sharing, observed>> /\ used' = used
    BY <1>2 DEF Look, Tree, Shape, TypeOK
  <2>7. Shape' BY <2>5, <2>6, ShapeQuiet DEF Tree
  <2>8. ~ At(a, "rename") /\ ~ At(a, "rename")' BY <2>1, <2>3, <2>5 DEF At
  <2>9. \A f \in File : disk[f] # None /\ f[1] = Removes(reqs'[a]) => f \in reqs'[a].todo
    BY <2>3, <2>5, ListedAll, Apart DEF Removes
  <2> QED BY <2>5, <2>6, <2>7, <2>8, <2>9, QuietStep DEF observed
<1> QED BY <1>1, <1>2

-----------------------------------------------------------------------------
(* Steps that write, copy or delete a file.                                *)

LEMMA StrayFact ==
  ASSUME Shape, NEW a \in Actors, NEW F \in SUBSET File, Stray(a, F)
  PROVE  /\ strayed \subseteq strayed' /\ strayed' \subseteq File
         /\ \A f \in F : Meets(a, f) \/ f \in strayed => F \subseteq strayed'
BY DEF Stray, Shape, TypeOK

LEMMA AwaitFact ==
  ASSUME NEW f, Quiet(f), NEW s, s.path = f, fired' = fired \cup {s},
         disk'[f] = IF s.op = "put" THEN s.no ELSE None
  PROVE  Awaits(f)'
BY DEF Quiet, Awaits

LEMMA WrittenFact ==
  ASSUME Shape, NEW a \in Actors, NEW f \in File, Written(a, f)
  PROVE  /\ used.writes + 1 \in Serial /\ used'.writes = used.writes + 1
         /\ used' \in [writes: 0 .. MaxWrites, requests: Nat, faults: Nat]
         /\ disk' \in [File -> Bytes] /\ disk'[f] = used.writes + 1
         /\ \A g \in File \ {f} : disk'[g] = disk[g]
         /\ fired' \subseteq [op: {"put", "delete"}, path: File, no: Serial]
         /\ \A g \in File \ {f} : \A s : s.path = g => (s \in fired' <=> s \in fired)
         /\ f \notin strayed' => Awaits(f)'
         /\ forgone \subseteq forgone' /\ forgone' \subseteq Serial
         /\ f \in Taken(a) => disk'[f] \in forgone'
         /\ disk[f] # None => disk[f] \in forgone'
         /\ strayed \subseteq strayed' /\ strayed' \subseteq File
         /\ Meets(a, f) => f \in strayed'
<1> DEFINE n == used.writes + 1
<1>1. n \in Serial /\ used'.writes = n
      /\ used' \in [writes: 0 .. MaxWrites, requests: Nat, faults: Nat]
  BY LibraryAssumption DEF Written, Shape, TypeOK, Serial
<1> HIDE DEF n
<1>2. disk' = [disk EXCEPT ![f] = n] /\ fired' = fired \cup {[op |-> "put", path |-> f, no |-> n]}
      /\ Forgo(a, f, n) /\ Stray(a, {f})
  BY DEF Written, n
<1>3. /\ disk' \in [File -> Bytes] /\ disk'[f] = n
      /\ \A g \in File \ {f} : disk'[g] = disk[g]
  BY <1>1, <1>2 DEF Shape, TypeOK, Bytes
<1>4. /\ fired' \subseteq [op: {"put", "delete"}, path: File, no: Serial]
      /\ \A g \in File \ {f} : \A s : s.path = g => (s \in fired' <=> s \in fired)
  BY <1>1, <1>2 DEF Shape, TypeOK
<1>5. /\ strayed \subseteq strayed' /\ strayed' \subseteq File
      /\ Meets(a, f) => f \in strayed'
  BY <1>2, StrayFact
<1>6. ASSUME f \notin strayed' PROVE Awaits(f)'
  <2>1. Quiet(f) BY <1>5, <1>6 DEF Meets, Quiet
  <2> DEFINE s == [op |-> "put", path |-> f, no |-> n]
  <2>2. s.path = f /\ disk'[f] = IF s.op = "put" THEN s.no ELSE None BY <1>3
  <2>3. fired' = fired \cup {s} BY <1>2
  <2> HIDE DEF s
  <2> QED BY <2>1, <2>2, <2>3, AwaitFact
<1>7. /\ forgone \subseteq forgone' /\ forgone' \subseteq Serial
      /\ f \in Taken(a) => disk'[f] \in forgone'
      /\ disk[f] # None => disk[f] \in forgone'
  BY <1>1, <1>2, <1>3 DEF Forgo, Shape, TypeOK, Bytes
<1> QED BY <1>1, <1>3, <1>4, <1>5, <1>6, <1>7 DEF n

\* New bytes at f by a request that is not removing the directory of f.
LEMMA ArriveTree ==
  ASSUME Tree, NEW a \in Actors, NEW f \in File, Written(a, f),
         ~ At(a, "rename"), ~ At(a, "rename")', Removes(reqs'[a]) = None,
         reqs' \in [Actors -> Asked], Requests',
         \A b \in Actors \ {a} : reqs'[b] = reqs[b],
         UNCHANGED <<bin, row, sharing, collided>>, dirs' \subseteq Dir
  PROVE  Tree'
<1> DEFINE F == {f}
<1>1. Shape'
  BY WrittenFact DEF Tree, Shape, TypeOK, Asked, sharing
<1>2. /\ F \in SUBSET File /\ UNCHANGED <<row, collided>>
      /\ strayed \subseteq strayed' /\ forgone \subseteq forgone'
      /\ \A g \in F : Meets(a, g) => g \in strayed'
      /\ \A g \in F : disk'[g] # None /\ g \in Taken(a) => disk'[g] \in forgone'
      /\ \A g \in F : g \notin Spoilt' => Renamed(g)' \/ Awaits(g)'
      /\ \A g \in File \ F : /\ disk'[g] = disk[g]
                             /\ \A s : s.path = g => (s \in fired' <=> s \in fired)
  BY WrittenFact DEF Tree, Spoilt
<1>3. \A g \in File : disk'[g] # None /\ g[1] = Removes(reqs'[a])
        => g \in reqs'[a].todo \/ (disk'[g] \in forgone' /\ g \in strayed')
  BY Apart
<1> HIDE DEF F
<1> QED BY <1>1, <1>2, <1>3, DiskStep

LEMMA LandTree ==
  ASSUME Tree, NEW a \in Actors, Land(a) PROVE Tree'
<1>1. /\ reqs[a].step = "stream" /\ reqs[a].src \in File /\ End(a)
      /\ Written(a, reqs[a].src) /\ UNCHANGED <<dirs, bin, row, sharing, collided>>
  BY ReqFields DEF Land, At, ReqOK, Tree
<1>2. ~ At(a, "rename") /\ dirs' \subseteq Dir
  BY <1>1 DEF At, Tree, Shape, TypeOK
<1> QED BY <1>1, <1>2, EndFact, ArriveTree DEF Tree

\* A request that has done with a file of its listing.
LEMMA NextChild ==
  ASSUME Shape, NEW a \in Actors, NEW f \in reqs[a].todo,
         reqs[a].step \in {"clear", "each"},
         reqs' = [reqs EXCEPT ![a].todo = @ \ {f}]
  PROVE  /\ reqs' \in [Actors -> Asked] /\ Requests'
         /\ \A b \in Actors \ {a} : reqs'[b] = reqs[b]
         /\ ~ At(a, "rename") /\ ~ At(a, "rename")'
         /\ Removes(reqs'[a]) = Removes(reqs[a]) /\ reqs'[a].todo = reqs[a].todo \ {f}
<1> DEFINE r == [reqs[a] EXCEPT !.todo = @ \ {f}]
<1>1. reqs[a] \in Asked /\ ReqOK(reqs[a]) BY ReqFields
<1>2. reqs' = [reqs EXCEPT ![a] = r] BY DEF Shape, TypeOK
<1>3. /\ r \in Asked /\ r.step = reqs[a].step /\ r.todo = reqs[a].todo \ {f}
      /\ r.op = reqs[a].op /\ r.src = reqs[a].src /\ r.dst = reqs[a].dst
  BY <1>1 DEF Asked
<1> HIDE DEF r
<1>4. ReqOK(r) BY <1>1, <1>3 DEF ReqOK, Pair
<1>5. /\ reqs' \in [Actors -> Asked] /\ Requests' /\ reqs'[a] = r
      /\ \A b \in Actors \ {a} : reqs'[b] = reqs[b]
  BY <1>2, <1>3, <1>4, SetReq
<1> QED BY <1>3, <1>5 DEF At, Removes

LEMMA CopyTree ==
  ASSUME Tree, NEW a \in Actors, CopyChild(a) PROVE Tree'
<1>1. reqs[a].step = "each" /\ reqs[a].op = "copy" BY DEF CopyChild, At
<1>2. PICK f \in reqs[a].todo :
        LET g == Onto(f, reqs[a].src, reqs[a].dst) IN
        /\ Written(a, g) /\ dirs' = dirs \cup {g[1]}
        /\ reqs' = [reqs EXCEPT ![a].todo = @ \ {f}]
  BY DEF CopyChild
<1>3. UNCHANGED <<bin, row, sharing, collided>> BY DEF CopyChild
<1>4. reqs[a] \in Asked /\ Pair(reqs[a]) /\ f \in Under(reqs[a].src)
  BY <1>1, ReqFields DEF ReqOK, Tree
<1>5. PICK g \in File : g = Onto(f, reqs[a].src, reqs[a].dst) BY <1>4, OntoFact
<1>6. dirs' \subseteq Dir BY <1>2, <1>5, Apart DEF Tree, Shape, TypeOK
<1>7. Removes(reqs[a]) = None BY <1>1 DEF Removes
<1> QED BY <1>1, <1>2, <1>3, <1>5, <1>6, <1>7, NextChild, ArriveTree DEF Tree

LEMMA ClearTree ==
  ASSUME Tree, NEW a \in Actors, Clear(a) PROVE Tree'
<1>1. reqs[a].step = "clear" BY DEF Clear, At
<1>2. PICK f \in reqs[a].todo :
        /\ reqs' = [reqs EXCEPT ![a].todo = @ \ {f}]
        /\ \/ disk[f] # None /\ Trash(a, f) /\ Stray(a, {f}) /\ UNCHANGED used
           \/ disk[f] # None /\ Fault /\ Unlink(f) /\ Stray(a, {f}) /\ UNCHANGED bin
           \/ disk[f] = None /\ UNCHANGED <<disk, bin, fired, used, forgone, strayed>>
  BY DEF Clear
<1>3. UNCHANGED <<dirs, row, sharing, collided>> BY DEF Clear
<1>4. f \in File BY ReqFields DEF Tree, Asked
<1>5. /\ reqs' \in [Actors -> Asked] /\ Requests'
      /\ \A b \in Actors \ {a} : reqs'[b] = reqs[b]
      /\ ~ At(a, "rename") /\ ~ At(a, "rename")'
      /\ Removes(reqs'[a]) = Removes(reqs[a]) /\ reqs'[a].todo = reqs[a].todo \ {f}
  BY <1>1, <1>2, NextChild DEF Tree
<1>6. CASE disk[f] = None /\ UNCHANGED <<disk, bin, fired, used, forgone, strayed>>
  <2>1. Shape' BY <1>3, <1>5, <1>6, ShapeQuiet DEF Tree, observed, Shape, TypeOK
  <2>2. \A g \in File : disk[g] # None /\ g[1] = Removes(reqs'[a])
          => g \in reqs'[a].todo \/ (disk[g] \in forgone /\ g \in strayed)
    BY <1>5, <1>6 DEF Tree, Leftovers
  <2>3. UNCHANGED <<disk, row, fired, forgone, strayed, collided>> BY <1>3, <1>6
  <2> QED BY <1>5, <2>1, <2>2, <2>3, QuietStep
<1>7. ASSUME disk[f] # None, Stray(a, {f}), disk' = [disk EXCEPT ![f] = None],
             bin' \in [File -> Bytes], forgone \subseteq forgone', forgone' \subseteq Serial,
             fired' = fired \cup {[op |-> "delete", path |-> f, no |-> disk[f]]},
             used' = used \/ used' \in [writes: 0 .. MaxWrites, requests: Nat, faults: Nat]
      PROVE  Tree'
  <2> DEFINE F == {f}
             s == [op |-> "delete", path |-> f, no |-> disk[f]]
  <2>1. disk' \in [File -> Bytes] /\ disk'[f] = None
        /\ \A g \in File \ {f} : disk'[g] = disk[g]
    BY <1>4, <1>7 DEF Tree, Shape, TypeOK, Bytes
  <2>2. s \in [op: {"put", "delete"}, path: File, no: Serial] /\ s.path = f
        /\ disk'[f] = IF s.op = "put" THEN s.no ELSE None
    BY <1>4, <1>7, <2>1 DEF Tree, Shape, TypeOK, Bytes
  <2>3. fired' = fired \cup {s} BY <1>7
  <2> HIDE DEF s
  <2>4. /\ strayed \subseteq strayed' /\ strayed' \subseteq File
        /\ Meets(a, f) => f \in strayed'
    BY <1>4, <1>7, StrayFact DEF Tree
  <2>5. f \notin strayed' => Awaits(f)'
    <3>1. f \notin strayed' => Quiet(f) BY <2>4 DEF Meets, Quiet
    <3> QED BY <2>2, <2>3, <3>1, AwaitFact
  <2>6. Shape'
    BY <1>3, <1>5, <1>7, <2>1, <2>2, <2>3, <2>4 DEF Tree, Shape, TypeOK, Asked, sharing
  <2>7. /\ F \in SUBSET File /\ UNCHANGED <<row, collided>>
        /\ strayed \subseteq strayed' /\ forgone \subseteq forgone'
        /\ \A g \in F : Meets(a, g) => g \in strayed'
        /\ \A g \in F : disk'[g] # None /\ g \in Taken(a) => disk'[g] \in forgone'
        /\ \A g \in F : g \notin Spoilt' => Renamed(g)' \/ Awaits(g)'
        /\ \A g \in File \ F : /\ disk'[g] = disk[g]
                               /\ \A t : t.path = g => (t \in fired' <=> t \in fired)
    BY <1>3, <1>4, <1>7, <2>1, <2>2, <2>3, <2>4, <2>5 DEF Spoilt
  <2>8. \A g \in File : disk'[g] # None /\ g[1] = Removes(reqs'[a])
          => g \in reqs'[a].todo \/ (disk'[g] \in forgone' /\ g \in strayed')
    BY <1>5, <1>7, <2>1, <2>4 DEF Tree, Leftovers
  <2> HIDE DEF F
  <2> QED BY <1>5, <2>6, <2>7, <2>8, DiskStep
<1>8. CASE disk[f] # None /\ Trash(a, f) /\ Stray(a, {f}) /\ UNCHANGED used
  <2>1. bin' \in [File -> Bytes] /\ forgone \subseteq forgone' /\ forgone' \subseteq Serial
    BY <1>4, <1>8 DEF Trash, Tree, Shape, TypeOK, Bytes
  <2> QED BY <1>7, <1>8, <2>1 DEF Trash
<1>9. CASE disk[f] # None /\ Fault /\ Unlink(f) /\ Stray(a, {f}) /\ UNCHANGED bin
  <2>1. bin' \in [File -> Bytes] /\ forgone \subseteq forgone' /\ forgone' \subseteq Serial
    BY <1>4, <1>9 DEF Unlink, Tree, Shape, TypeOK, Bytes
  <2> QED BY <1>7, <1>9, <2>1, FaultFact DEF Unlink, Tree
<1> QED BY <1>2, <1>6, <1>8, <1>9

\* The recursive removal at the end of a request takes only what came to the
\* directory meanwhile.
LEMMA RemoveTree ==
  ASSUME Tree, NEW a \in Actors, NEW d \in Dir, NEW step \in {"idle", "look"},
         RemoveDir(a, d, step), Removes(reqs[a]) = d, reqs[a].todo = {},
         reqs[a].step \in {"clear", "each"}, step = "look" => reqs[a].step = "clear",
         step = "look" => reqs[a].op \in {"move", "copy"},
         UNCHANGED <<bin, row, fired, sharing, used, forgone, collided>>
  PROVE  /\ Tree'
         /\ \A f \in File : f[1] = d /\ disk[f] # None => disk[f] \in forgone
<1> DEFINE F == {f \in File : f[1] = d /\ disk[f] # None}
<1>1. \A f \in F : disk[f] \in forgone /\ f \in strayed BY DEF Tree, Leftovers
<1>2. /\ disk' \in [File -> Bytes] /\ \A f \in F : disk'[f] = None
      /\ \A f \in File \ F : disk'[f] = disk[f]
      /\ \A f \in File : f[1] = d => disk'[f] = None
  BY DEF RemoveDir, Tree, Shape, TypeOK, Bytes
<1> DEFINE r == IF step = "idle" THEN Idle ELSE [reqs[a] EXCEPT !.step = step]
<1>3. r \in Asked /\ ReqOK(r) /\ Removes(r) = None /\ r.step # "rename"
  <2>1. CASE step = "idle" BY <2>1, IdleOK DEF Removes, Idle
  <2>2. CASE step = "look"
    <3> DEFINE q == [reqs[a] EXCEPT !.step = "look"]
    <3>1. reqs[a] \in Asked /\ ReqOK(reqs[a]) BY ReqFields DEF Tree
    <3>2. q \in Asked /\ q.step = "look" /\ q.op = reqs[a].op
          /\ q.src = reqs[a].src /\ q.dst = reqs[a].dst
      BY <3>1 DEF Asked
    <3>3. r = q BY <2>2
    <3> HIDE DEF q
    <3>4. ReqOK(q) /\ Removes(q) = None BY <2>2, <3>1, <3>2 DEF ReqOK, Pair, Removes
    <3> QED BY <3>2, <3>3, <3>4
  <2> QED BY <2>1, <2>2
<1>4. reqs'[a] = r /\ reqs' = [b \in Actors |-> reqs'[b]] BY DEF RemoveDir
<1>5. \A b \in Actors \ {a} : reqs'[b] = reqs[b] \/ (At(b, "stream") /\ reqs'[b] = Idle)
  BY DEF RemoveDir
<1> HIDE DEF r
<1>6. reqs' \in [Actors -> Asked] /\ Requests'
  BY <1>3, <1>4, <1>5, IdleOK, ReqFields DEF Tree, Requests
<1>7. Stray(a, F) BY DEF RemoveDir
<1>8. strayed \subseteq strayed' /\ strayed' \subseteq File
  BY <1>7, StrayFact DEF Tree
<1>9. Shape'
  BY <1>2, <1>6, <1>8 DEF RemoveDir, Tree, Shape, TypeOK, Asked, sharing
<1>10. /\ F \in SUBSET File /\ UNCHANGED <<row, collided>>
       /\ strayed \subseteq strayed' /\ forgone \subseteq forgone'
       /\ \A f \in F : Meets(a, f) => f \in strayed'
       /\ \A f \in F : disk'[f] # None /\ f \in Taken(a) => disk'[f] \in forgone'
       /\ \A f \in F : f \notin Spoilt' => Renamed(f)' \/ Awaits(f)'
       /\ \A f \in File \ F : /\ disk'[f] = disk[f]
                              /\ \A s : s.path = f => (s \in fired' <=> s \in fired)
  BY <1>1, <1>2, <1>8 DEF Spoilt
<1>11. ~ At(a, "rename") /\ ~ At(a, "rename")' BY <1>3, <1>4 DEF At
<1>12. \A f \in File : disk'[f] # None /\ f[1] = Removes(reqs'[a])
         => f \in reqs'[a].todo \/ (disk'[f] \in forgone' /\ f \in strayed')
  BY <1>3, <1>4, Apart
<1> HIDE DEF F
<1>13. Tree' BY <1>5, <1>9, <1>10, <1>11, <1>12, DiskStep
<1> QED BY <1>1, <1>13 DEF F

\* The step to "look" or to "idle" of a request that clears a file.
LEMMA ClearedTree ==
  ASSUME Tree, NEW a \in Actors, Cleared(a) PROVE Tree'
<1>1. reqs[a].step = "clear" /\ reqs[a].todo = {} /\ ~ At(a, "rename")
  BY DEF Cleared, At
<1>2. reqs[a] \in Asked /\ ReqOK(reqs[a]) BY ReqFields DEF Tree
<1>3. UNCHANGED <<bin, row, fired, sharing, used, forgone, collided>> BY DEF Cleared
<1>4. CASE Clearing(a) \in Dir
  <2>1. Removes(reqs[a]) = Clearing(a) BY <1>1 DEF Removes, Clearing
  <2>2. \/ RemoveDir(a, Clearing(a), "idle")
        \/ RemoveDir(a, Clearing(a), "look") /\ reqs[a].op # "delete"
    BY <1>4 DEF Cleared
  <2>3. reqs[a].op # "delete" => reqs[a].op \in {"move", "copy"}
    BY <1>1, <1>2 DEF ReqOK
  <2> QED BY <1>1, <1>3, <1>4, <2>1, <2>2, <2>3, RemoveTree
<1>5. CASE Clearing(a) \notin Dir
  <2>1. UNCHANGED <<disk, dirs, strayed>> /\ (End(a) \/ (Goto(a, "look") /\ reqs[a].op # "delete"))
    BY <1>5 DEF Cleared
  <2>2. UNCHANGED <<tree, row, fired, sharing, observed>> /\ used' = used
    BY <1>3, <2>1 DEF tree, observed
  <2>3. CASE End(a) BY <1>1, <2>2, <2>3, EndTree
  <2>4. CASE Goto(a, "look") /\ reqs[a].op # "delete"
    <3> DEFINE r == [reqs[a] EXCEPT !.step = "look"]
    <3>1. reqs' = [reqs EXCEPT ![a] = r] BY <2>4 DEF Goto, Tree, Shape, TypeOK
    <3>2. /\ r \in Asked /\ r.step = "look" /\ r.op = reqs[a].op
          /\ r.src = reqs[a].src /\ r.dst = reqs[a].dst
      BY <1>2 DEF Asked
    <3> HIDE DEF r
    <3>3. ReqOK(r) /\ Removes(r) = None BY <1>1, <1>2, <2>4, <3>2 DEF ReqOK, Pair, Removes
    <3>4. /\ reqs' \in [Actors -> Asked] /\ Requests' /\ reqs'[a] = r
          /\ \A b \in Actors \ {a} : reqs'[b] = reqs[b]
      BY <3>1, <3>2, <3>3, SetReq DEF Tree
    <3>5. Shape' BY <2>1, <2>2, <3>4, ShapeQuiet DEF Tree, Shape, TypeOK, tree
    <3>6. ~ At(a, "rename")' BY <3>2, <3>4 DEF At
    <3> QED BY <1>1, <2>2, <3>3, <3>4, <3>5, <3>6, QuietStep, Apart DEF tree, observed
  <2> QED BY <2>1, <2>3, <2>4
<1> QED BY <1>4, <1>5

LEMMA DoneTree ==
  ASSUME Tree, NEW a \in Actors, Done(a) PROVE Tree'
<1>1. reqs[a].step = "each" /\ reqs[a].todo = {} /\ ~ At(a, "rename")
  BY DEF Done, At
<1>2. UNCHANGED <<bin, row, fired, sharing, used, forgone, collided>> BY DEF Done
<1>3. CASE reqs[a].op = "move" /\ reqs[a].src \in Dir
  <2>1. Removes(reqs[a]) = reqs[a].src BY <1>1, <1>3 DEF Removes
  <2>2. RemoveDir(a, reqs[a].src, "idle") BY <1>3 DEF Done
  <2> QED BY <1>1, <1>2, <1>3, <2>1, <2>2, RemoveTree
<1>4. CASE ~ (reqs[a].op = "move" /\ reqs[a].src \in Dir)
  <2>1. End(a) /\ UNCHANGED <<tree, row, fired, sharing, observed>> /\ used' = used
    BY <1>2, <1>4 DEF Done, tree, observed
  <2> QED BY <1>1, <2>1, EndTree
<1> QED BY <1>3, <1>4

LEMMA FailTree ==
  ASSUME Tree, NEW a \in Actors, PutFails(a) \/ ChildFails(a) PROVE Tree'
<1>1. /\ End(a) /\ ~ At(a, "rename") /\ UNCHANGED <<tree, row, fired, sharing, observed>>
      /\ used' = used \/ Fault
  BY DEF PutFails, ChildFails, At
<1> QED BY <1>1, FaultFact, EndTree DEF Tree

LEMMA MoveTree ==
  ASSUME Tree, NEW a \in Actors, MoveChild(a) PROVE Tree'
<1>1. reqs[a].step = "each" /\ reqs[a].op = "move" BY DEF MoveChild, At
<1>2. PICK f \in reqs[a].todo :
        LET h == Onto(f, reqs[a].src, reqs[a].dst) IN
        /\ disk[f] # None
        /\ disk' = [disk EXCEPT ![f] = None, ![h] = disk[f]]
        /\ dirs' = dirs \cup {h[1]}
        /\ Forgo(a, h, disk[f]) /\ Stray(a, {f, h})
        /\ reqs' = [reqs EXCEPT ![a].todo = @ \ {f}, ![a].at = f, ![a].step = "rename"]
  BY DEF MoveChild
<1>3. UNCHANGED <<bin, row, fired, sharing, used, collided>> BY DEF MoveChild
<1>4. reqs[a] \in Asked /\ ReqOK(reqs[a]) /\ Pair(reqs[a])
      /\ f \in Under(reqs[a].src) /\ f \in File
  BY <1>1, ReqFields DEF ReqOK, Tree, Under
<1>5. PICK g \in File : /\ g = Onto(f, reqs[a].src, reqs[a].dst) /\ g # f
                        /\ g \notin Under(reqs[a].src)
  BY <1>4, OntoFact
<1> DEFINE F == {f, g}
           r == [reqs[a] EXCEPT !.todo = @ \ {f}, !.at = f, !.step = "rename"]
<1>6. reqs' = [reqs EXCEPT ![a] = r] BY <1>2 DEF Tree, Shape, TypeOK
<1>7. /\ r \in Asked /\ r.step = "rename" /\ r.todo = reqs[a].todo \ {f} /\ r.at = f
      /\ r.op = "move" /\ r.src = reqs[a].src /\ r.dst = reqs[a].dst
  BY <1>1, <1>4 DEF Asked
<1> HIDE DEF r
<1>8. ReqOK(r) BY <1>1, <1>4, <1>7 DEF ReqOK, Pair
<1>9. /\ reqs' \in [Actors -> Asked] /\ Requests' /\ reqs'[a] = r
      /\ \A b \in Actors \ {a} : reqs'[b] = reqs[b]
  BY <1>6, <1>7, <1>8, SetReq DEF Tree
<1>10. disk[f] \in Serial BY <1>2, <1>4 DEF Tree, Shape, TypeOK, Bytes
<1>11. /\ disk' \in [File -> Bytes] /\ disk'[f] = None /\ disk'[g] = disk[f]
       /\ \A h \in File \ F : disk'[h] = disk[h]
  BY <1>2, <1>4, <1>5, <1>10 DEF Tree, Shape, TypeOK, Bytes
<1>12. dirs' \subseteq Dir BY <1>2, <1>5, Apart DEF Tree, Shape, TypeOK
<1>13. /\ strayed \subseteq strayed' /\ strayed' \subseteq File
       /\ \A h \in F : Meets(a, h) \/ h \in strayed => F \subseteq strayed'
  BY <1>2, <1>4, <1>5, StrayFact DEF Tree
<1>14. /\ forgone \subseteq forgone' /\ forgone' \subseteq Serial
       /\ g \in Taken(a) => disk'[g] \in forgone'
  BY <1>2, <1>5, <1>10, <1>11 DEF Forgo, Tree, Shape, TypeOK, Bytes
<1>15. Shape'
  BY <1>3, <1>9, <1>11, <1>12, <1>13, <1>14 DEF Tree, Shape, TypeOK, Asked, sharing
<1>16. At(a, "rename")' /\ Ends(reqs'[a]) = F /\ ~ At(a, "rename")
  BY <1>1, <1>5, <1>7, <1>9 DEF At, Ends
<1>17. /\ F \in SUBSET File /\ UNCHANGED <<row, collided>>
       /\ strayed \subseteq strayed' /\ forgone \subseteq forgone'
       /\ \A h \in F : Meets(a, h) => h \in strayed'
       /\ \A h \in F : disk'[h] # None /\ h \in Taken(a) => disk'[h] \in forgone'
       /\ \A h \in F : h \notin Spoilt' => Renamed(h)' \/ Awaits(h)'
       /\ \A h \in File \ F : /\ disk'[h] = disk[h]
                              /\ \A s : s.path = h => (s \in fired' <=> s \in fired)
  BY <1>3, <1>4, <1>5, <1>11, <1>13, <1>14, <1>16 DEF Renamed
<1>18. \A h \in File : disk'[h] # None /\ h[1] = Removes(reqs'[a])
         => h \in reqs'[a].todo \/ (disk'[h] \in forgone' /\ h \in strayed')
  <2> SUFFICES ASSUME NEW h \in File, disk'[h] # None, h[1] = Removes(reqs'[a])
               PROVE  h \in reqs'[a].todo \/ (disk'[h] \in forgone' /\ h \in strayed')
    OBVIOUS
  <2>1. Removes(reqs'[a]) = reqs[a].src /\ Removes(reqs[a]) = reqs[a].src
    BY <1>1, <1>7, <1>9 DEF Removes
  <2>2. h # f /\ h # g BY <1>5, <1>11, <2>1 DEF Under
  <2> QED BY <1>7, <1>9, <1>11, <1>13, <1>14, <2>1, <2>2 DEF Tree, Leftovers
<1>19. ASSUME F \cap Spoilt' = {} PROVE Moved(f, g)'
  <2>1. \A h \in F : h \notin Spoilt /\ ~ Meets(a, h) /\ h \in File
    BY <1>3, <1>4, <1>5, <1>13, <1>19 DEF Spoilt
  <2>2. \A h \in F : Quiet(h) /\ ~ Awaits(h) BY <2>1 DEF Meets, Quiet, Awaits
  <2>3. ~ Renamed(f)
    <3> SUFFICES ASSUME NEW b \in Actors, At(b, "rename"), f \in Ends(reqs[b]) PROVE FALSE
      BY DEF Renamed
    <3>1. b # a BY <1>16
    <3> QED BY <1>4, <2>1, <3>1, TouchFact DEF Tree, Meets
  <2>4. Agrees(f) BY <1>4, <2>1, <2>2, <2>3 DEF Tree, Paths
  <2>5. row[f].status = "active" /\ row[f].sum = disk'[g] BY <1>2, <1>11, <2>4 DEF Agrees
  <2>6. Quiet(f)' /\ Quiet(g)' BY <1>3, <2>2 DEF Quiet
  <2> QED BY <1>3, <1>11, <2>5, <2>6 DEF Moved
<1>20. f = reqs'[a].at /\ g = Onto(reqs'[a].at, reqs'[a].src, reqs'[a].dst)
  BY <1>5, <1>7, <1>9
<1>21. At(a, "rename")' /\ Ends(reqs'[a]) \cap Spoilt' = {}
         => Moved(reqs[a].at, Onto(reqs[a].at, reqs[a].src, reqs[a].dst))'
  BY <1>16, <1>19, <1>20
<1> HIDE DEF F
<1> QED BY <1>9, <1>15, <1>16, <1>17, <1>18, <1>21, DiskStep

-----------------------------------------------------------------------------
(* Steps of the index.                                                     *)

\* A step that changes rows at the paths of F, which are right afterwards or
\* spoilt, and leaves the disk alone.
LEMMA RowStep ==
  ASSUME Tree, Shape', NEW F \in SUBSET File, UNCHANGED <<disk, forgone>>,
         strayed \subseteq strayed', collided \subseteq collided', fired' \subseteq fired,
         \A f \in File \ F : row'[f] = row[f] /\ \A s \in fired : s.path = f => s \in fired',
         \A f \in F : f \notin Spoilt' => Renamed(f)' \/ (Quiet(f)' /\ Agrees(f)'),
         \A a \in Actors : /\ reqs'[a].todo = reqs[a].todo
                           /\ Removes(reqs'[a]) = Removes(reqs[a])
                           /\ At(a, "rename")' => At(a, "rename") /\ reqs'[a] = reqs[a],
         \A a \in Actors : At(a, "rename")' /\ Ends(reqs[a]) \cap F # {}
                             => Ends(reqs[a]) \cap Spoilt' # {},
         \A a \in Actors : At(a, "rename") => At(a, "rename")' \/ Ends(reqs[a]) \subseteq F
  PROVE  Tree'
<1>0. Spoilt \subseteq Spoilt' BY DEF Spoilt
<1>1. Leftovers'
  <2> SUFFICES ASSUME NEW a \in Actors, NEW f \in File, disk[f] # None,
                      f[1] = Removes(reqs'[a])
               PROVE  f \in reqs'[a].todo \/ (disk[f] \in forgone /\ f \in strayed')
    BY DEF Leftovers
  <2> QED BY DEF Tree, Leftovers
<1>2. Renames'
  <2> SUFFICES ASSUME NEW a \in Actors, At(a, "rename")', Ends(reqs'[a]) \cap Spoilt' = {}
               PROVE  Moved(reqs[a].at, Onto(reqs[a].at, reqs[a].src, reqs[a].dst))'
    BY DEF Renames
  <2>1. reqs'[a] = reqs[a] /\ At(a, "rename") /\ reqs[a].step = "rename" BY DEF At
  <2>2. PICK f \in File, g \in File :
          /\ f = reqs[a].at /\ g = Onto(reqs[a].at, reqs[a].src, reqs[a].dst)
          /\ Ends(reqs[a]) = {f, g}
    BY <2>1, ReqFields, OntoFact DEF Tree, ReqOK, Under, Ends
  <2>3. f \notin F /\ g \notin F BY <2>1, <2>2
  <2>4. Moved(f, g) BY <1>0, <2>1, <2>2 DEF Tree, Renames
  <2>5. Quiet(f)' /\ Quiet(g)' BY <2>4 DEF Moved, Quiet
  <2>6. Moved(f, g)' BY <2>3, <2>4, <2>5 DEF Moved
  <2>7. f = reqs'[a].at /\ g = Onto(reqs'[a].at, reqs'[a].src, reqs'[a].dst)
    BY <2>1, <2>2
  <2> QED BY <2>6, <2>7
<1>3. Paths'
  <2> SUFFICES ASSUME NEW f \in File, f \notin Spoilt'
               PROVE  Renamed(f)' \/ (Quiet(f)' /\ Agrees(f)') \/ Awaits(f)'
    BY DEF Paths
  <2>1. CASE f \in F BY <2>1
  <2>2. CASE f \notin F
    <3>1. f \notin Spoilt BY <1>0
    <3>2. ASSUME Renamed(f) PROVE Renamed(f)'
      <4>1. PICK a \in Actors : At(a, "rename") /\ f \in Ends(reqs[a])
        BY <3>2 DEF Renamed
      <4>2. At(a, "rename")' /\ reqs'[a] = reqs[a] BY <2>2, <4>1
      <4> QED BY <4>1, <4>2 DEF Renamed
    <3>3. ASSUME Quiet(f), Agrees(f) PROVE Quiet(f)' /\ Agrees(f)'
      BY <2>2, <3>3 DEF Quiet, Agrees
    <3>4. ASSUME Awaits(f) PROVE Awaits(f)' BY <2>2, <3>4 DEF Awaits
    <3> QED BY <3>1, <3>2, <3>3, <3>4 DEF Tree, Paths
  <2> QED BY <2>1, <2>2
<1> QED BY <1>1, <1>2, <1>3 DEF Tree

LEMMA ExecuteTree ==
  ASSUME Tree, NEW s \in fired, Execute(s) PROVE Tree'
<1> DEFINE F == {s.path}
<1>1. s \in [op: {"put", "delete"}, path: File, no: Serial] BY DEF Tree, Shape, TypeOK
<1>2. fired' = fired \ {s} /\ UNCHANGED <<tree, reqs, sharing, forgone, collided>>
  BY DEF Execute
<1>3. \A a \in Actors : /\ At(a, "rename")' <=> At(a, "rename")
                        /\ At(a, "rename") /\ Ends(reqs[a]) \cap Spoilt = {}
                             => s.path \notin Ends(reqs[a])
  BY <1>2 DEF Tree, Renames, Moved, Quiet, Ends, At
<1>4. /\ F \in SUBSET File /\ UNCHANGED <<disk, forgone>> /\ collided \subseteq collided'
      /\ fired' \subseteq fired
      /\ \A a \in Actors : /\ reqs'[a].todo = reqs[a].todo
                           /\ Removes(reqs'[a]) = Removes(reqs[a])
                           /\ At(a, "rename")' => At(a, "rename") /\ reqs'[a] = reqs[a]
      /\ \A a \in Actors : At(a, "rename") => At(a, "rename")' \/ Ends(reqs[a]) \subseteq F
  BY <1>1, <1>2 DEF tree, At
<1>5. CASE Fault /\ strayed' = strayed \cup {s.path} /\ UNCHANGED row
  <2>1. Shape'
    BY <1>1, <1>2, <1>5, FaultFact DEF Tree, Shape, TypeOK, tree, sharing, Requests
  <2>2. \A f \in File \ F : row'[f] = row[f] /\ \A t \in fired : t.path = f => t \in fired'
    BY <1>2, <1>5
  <2>3. s.path \in Spoilt' BY <1>5 DEF Spoilt
  <2>4. /\ strayed \subseteq strayed'
        /\ \A f \in F : f \notin Spoilt' => Renamed(f)' \/ (Quiet(f)' /\ Agrees(f)')
        /\ \A a \in Actors : At(a, "rename")' /\ Ends(reqs[a]) \cap F # {}
                             => Ends(reqs[a]) \cap Spoilt' # {}
    BY <1>5, <2>3
  <2> HIDE DEF F
  <2> QED BY <1>4, <2>1, <2>2, <2>4, RowStep
<1>6. ASSUME row' = [row EXCEPT ![s.path] =
               IF s.op = "put" THEN [id |-> IF row[s.path] = NoRow THEN s.no ELSE row[s.path].id,
                                     status |-> "active", sum |-> s.no]
               ELSE IF row[s.path] = NoRow THEN row[s.path]
               ELSE [row[s.path] EXCEPT !.status = "trashed"]],
             UNCHANGED <<used, strayed>>
      PROVE  Tree'
  <2> DEFINE i == IF row[s.path] = NoRow THEN s.no ELSE row[s.path].id
             put == [id |-> i, status |-> "active", sum |-> s.no]
             gone == [row[s.path] EXCEPT !.status = "trashed"]
  <2>1. i \in Bytes /\ row[s.path] \in Row /\ NoRow.status = "absent"
    BY <1>1 DEF Tree, Shape, TypeOK, Row, NoRow, Bytes
  <2> HIDE DEF i
  <2>2. put \in Row /\ put.status = "active" /\ put.sum = s.no
        /\ gone \in Row /\ gone.status = "trashed"
    BY <1>1, <2>1 DEF Row, Bytes
  <2>3. /\ s.op = "put" => row' = [row EXCEPT ![s.path] = put]
        /\ s.op # "put" /\ row[s.path] = NoRow => row' = [row EXCEPT ![s.path] = row[s.path]]
        /\ s.op # "put" /\ row[s.path] # NoRow => row' = [row EXCEPT ![s.path] = gone]
    BY <1>6 DEF i
  <2> HIDE DEF put, gone
  <2>4. /\ row' \in [File -> Row] /\ \A f \in File \ F : row'[f] = row[f]
        /\ s.op = "put" => row'[s.path].status = "active" /\ row'[s.path].sum = s.no
        /\ s.op # "put" => row'[s.path].status # "active"
    BY <1>1, <2>1, <2>2, <2>3 DEF Tree, Shape, TypeOK
  <2>5. Shape' BY <1>2, <1>6, <2>4 DEF Tree, Shape, TypeOK, tree, sharing, Requests
  <2>6. \A f \in File \ F : row'[f] = row[f] /\ \A t \in fired : t.path = f => t \in fired'
    BY <1>2, <2>4
  <2>7. ASSUME s.path \notin Spoilt'
        PROVE  Renamed(s.path)' \/ (Quiet(s.path)' /\ Agrees(s.path)')
    <3>1. s.path \notin Spoilt BY <1>2, <1>6, <2>7 DEF Spoilt
    <3>2. CASE Renamed(s.path) BY <1>2, <3>2 DEF Renamed, At
    <3>3. CASE Awaits(s.path)
      <4>1. /\ \A t \in fired : t.path = s.path <=> t = s
            /\ disk[s.path] = IF s.op = "put" THEN s.no ELSE None
        BY <3>3 DEF Awaits
      <4>2. Quiet(s.path)' BY <1>2, <4>1 DEF Quiet
      <4>3. Agrees(s.path)' BY <1>2, <2>4, <4>1 DEF Agrees, tree
      <4> QED BY <4>2, <4>3
    <3>4. ~ Quiet(s.path) BY DEF Quiet
    <3> QED BY <1>1, <3>1, <3>2, <3>3, <3>4 DEF Tree, Paths
  <2>8. \A a \in Actors : At(a, "rename")' /\ Ends(reqs[a]) \cap F # {}
                             => Ends(reqs[a]) \cap Spoilt' # {}
    BY <1>2, <1>3, <1>6 DEF Spoilt
  <2>9. /\ strayed \subseteq strayed'
        /\ \A f \in F : f \notin Spoilt' => Renamed(f)' \/ (Quiet(f)' /\ Agrees(f)')
    BY <1>6, <2>7
  <2> HIDE DEF F
  <2> QED BY <1>4, <2>5, <2>6, <2>8, <2>9, RowStep
<1> QED BY <1>5, <1>6 DEF Execute

LEMMA RenameTree ==
  ASSUME Tree, NEW a \in Actors, RenamePath(a) PROVE Tree'
<1>1. /\ reqs[a] \in Asked /\ ReqOK(reqs[a]) /\ reqs[a].step = "rename" /\ reqs[a].op = "move"
      /\ Pair(reqs[a]) /\ reqs[a].at \in Under(reqs[a].src)
  BY ReqFields DEF Tree, RenamePath, At, ReqOK
<1>2. PICK f \in File, g \in File :
        /\ f = reqs[a].at /\ g = Onto(reqs[a].at, reqs[a].src, reqs[a].dst) /\ f # g
        /\ Ends(reqs[a]) = {f, g}
  BY <1>1, OntoFact DEF Under, Ends
<1> DEFINE F == {f, g}
           r == [reqs[a] EXCEPT !.at = None, !.step = "each"]
<1>3. UNCHANGED <<tree, fired, sharing, forgone>> /\ reqs' = [reqs EXCEPT ![a] = r]
  BY DEF RenamePath, Tree, Shape, TypeOK
<1>4. /\ r \in Asked /\ r.step = "each" /\ r.todo = reqs[a].todo
      /\ r.op = "move" /\ r.src = reqs[a].src /\ r.dst = reqs[a].dst
  BY <1>1 DEF Asked
<1> HIDE DEF r
<1>5. ReqOK(r) BY <1>1, <1>4 DEF ReqOK, Pair
<1>6. /\ reqs' \in [Actors -> Asked] /\ Requests' /\ reqs'[a] = r
      /\ \A b \in Actors \ {a} : reqs'[b] = reqs[b]
  BY <1>3, <1>4, <1>5, SetReq DEF Tree
<1>7. /\ F \in SUBSET File /\ UNCHANGED <<disk, forgone>> /\ fired' \subseteq fired
      /\ \A h \in File \ F : \A s \in fired : s.path = h => s \in fired'
      /\ \A b \in Actors : /\ reqs'[b].todo = reqs[b].todo
                           /\ Removes(reqs'[b]) = Removes(reqs[b])
                           /\ At(b, "rename")' => b # a /\ At(b, "rename") /\ reqs'[b] = reqs[b]
      /\ \A b \in Actors : At(b, "rename") => At(b, "rename")' \/ Ends(reqs[b]) \subseteq F
  BY <1>1, <1>2, <1>3, <1>4, <1>6 DEF tree, Removes, At
\* Either both ends are spoilt, or the row follows the file.
<1>8. /\ row' \in [File -> Row] /\ \A h \in File \ F : row'[h] = row[h]
      /\ strayed \subseteq strayed' /\ strayed' \subseteq File
      /\ collided \subseteq collided' /\ collided' \subseteq File
      /\ used' = used \/ used' \in [writes: 0 .. MaxWrites, requests: Nat, faults: Nat]
      /\ \/ F \subseteq Spoilt'
         \/ /\ F \cap Spoilt = {} /\ \A h \in F : ~ Meets(a, h)
            /\ row[f] = NoRow \/ (row[g] = NoRow /\ row'[g] = row[f])
            /\ row'[f] = NoRow
  <2>1. NoRow \in Row BY DEF NoRow, Row, Bytes
  <2>2. CASE /\ row[f] = NoRow \/ row[g] = NoRow
             /\ row' = [row EXCEPT ![f] = NoRow, ![g] = IF row[f] = NoRow THEN @ ELSE row[f]]
             /\ collided' = IF {f, g} \cap collided = {} THEN collided ELSE collided \cup {f, g}
             /\ Stray(a, {f, g}) /\ UNCHANGED used
    <3>1. /\ strayed \subseteq strayed' /\ strayed' \subseteq File
          /\ \A h \in F : Meets(a, h) \/ h \in strayed => F \subseteq strayed'
      BY <2>2, StrayFact DEF Tree
    <3>2. /\ row' \in [File -> Row] /\ \A h \in File \ F : row'[h] = row[h]
          /\ row'[f] = NoRow /\ row'[g] = IF row[f] = NoRow THEN row[g] ELSE row[f]
      BY <1>2, <2>1, <2>2 DEF Tree, Shape, TypeOK
    <3>3. /\ collided \subseteq collided' /\ collided' \subseteq File
          /\ F \cap collided # {} => F \subseteq collided'
      BY <2>2 DEF Tree, Shape, TypeOK
    <3> QED BY <2>2, <3>1, <3>2, <3>3 DEF Spoilt
  <2>3. CASE /\ row[f] # NoRow /\ row[g] # NoRow
             /\ collided' = collided \cup {f, g} /\ Stray(a, {f, g}) /\ UNCHANGED <<row, used>>
    BY <2>3, StrayFact DEF Tree, Shape, TypeOK, Spoilt
  <2>4. CASE Fault /\ strayed' = strayed \cup {f, g} /\ UNCHANGED <<row, collided>>
    BY <2>4, FaultFact DEF Tree, Shape, TypeOK, Spoilt
  <2> QED BY <1>2, <2>2, <2>3, <2>4 DEF RenamePath
<1>9. Shape' BY <1>3, <1>6, <1>8 DEF Tree, Shape, TypeOK, Asked, tree, sharing
<1>10. ASSUME F \cap Spoilt = {}, \A h \in F : ~ Meets(a, h),
              row[f] = NoRow \/ (row[g] = NoRow /\ row'[g] = row[f]), row'[f] = NoRow
       PROVE  \A h \in F : Quiet(h)' /\ Agrees(h)'
  <2>1. Moved(f, g) BY <1>1, <1>2, <1>10 DEF Tree, Renames, At
  <2>2. row[f] # NoRow BY <2>1 DEF Moved, NoRow
  <2>3. row'[g].status = "active" /\ row'[g].sum = disk[g] /\ row'[f].status # "active"
    BY <1>10, <2>1, <2>2 DEF Moved, NoRow
  <2>4. Agrees(f)' /\ Agrees(g)' BY <1>7, <2>1, <2>3 DEF Agrees, Moved
  <2>5. Quiet(f)' /\ Quiet(g)' BY <1>3, <2>1 DEF Moved, Quiet
  <2> QED BY <2>4, <2>5
<1>11. \A h \in F : h \notin Spoilt' => Renamed(h)' \/ (Quiet(h)' /\ Agrees(h)')
  BY <1>8, <1>10
<1>12. \A b \in Actors : At(b, "rename")' /\ Ends(reqs[b]) \cap F # {}
                             => Ends(reqs[b]) \cap Spoilt' # {}
  <2> SUFFICES ASSUME NEW b \in Actors, At(b, "rename")', NEW h \in F, h \in Ends(reqs[b])
               PROVE  h \in Spoilt'
    OBVIOUS
  <2>1. h \in Taken(a) BY <1>7, TouchFact DEF Tree
  <2> QED BY <1>8, <2>1 DEF Meets
<1>13. /\ strayed \subseteq strayed' /\ collided \subseteq collided'
       /\ \A h \in File \ F : row'[h] = row[h] /\ \A s \in fired : s.path = h => s \in fired'
       /\ \A b \in Actors : /\ reqs'[b].todo = reqs[b].todo
                            /\ Removes(reqs'[b]) = Removes(reqs[b])
                            /\ At(b, "rename")' => At(b, "rename") /\ reqs'[b] = reqs[b]
  BY <1>7, <1>8
<1> HIDE DEF F
<1> QED BY <1>7, <1>9, <1>11, <1>12, <1>13, RowStep

-----------------------------------------------------------------------------
(* Share links.                                                            *)

\* The requests that have taken a download of l.
Reserved(l) == {v \in Visitors : visits[v].link = l /\ visits[v].step = "reserved"}

\* Every visitor under way has seen a link, and those that have a download are
\* counted with those that were served.
Linked == \A v \in Visitors : visits[v].step # "away" =>
  visits[v].link \in Links /\ links[visits[v].link] # None
Booked(l) ==
  /\ IsFiniteSet(Reserved(l)) /\ links[l].count <= MaxDownloads
  /\ served[l] + Cardinality(Reserved(l)) <= links[l].count
Counts ==
  /\ Linked
  /\ \A l \in Links : links[l] = None => served[l] = 0
  /\ Capped => \A l \in Links : links[l] # None => Booked(l)

Visiting == [link: Links \cup {None}, path: File \cup {None}, step: {"away", "read", "reserved"}]
Sharers == /\ visits' \in [Visitors -> Visiting]
           /\ links' \in [Links -> Link \cup {None}] /\ served' \in [Links -> Nat]

LEMMA CapFact == Capped => MaxDownloads \in Nat
BY LibraryAssumption DEF Capped

LEMMA BookedStep ==
  ASSUME NEW l \in Links, Booked(l), links'[l].count = links[l].count,
         served'[l] = served[l], Reserved(l)' = Reserved(l)
  PROVE  Booked(l)'
BY DEF Booked

\* Visitors come and are refused, and links are made and revoked.
LEMMA LinkSteps ==
  ASSUME Shape, Counts,
         \/ \E l \in Links, f \in File : CreateShare(l, f)
         \/ \E l \in Links : RevokeShare(l)
         \/ \E v \in Visitors, l \in Links : Visit(v, l)
         \/ \E v \in Visitors : Refuse(v)
  PROVE  Sharers /\ Counts'
<1> USE DEF Shape, TypeOK, Visiting
<1>1. Away \in Visiting /\ Away.step = "away" BY DEF Away
<1>2. ASSUME NEW l \in Links, NEW f \in File, CreateShare(l, f) PROVE Sharers /\ Counts'
  <2> DEFINE x == [file |-> row[f].id, count |-> 0]
  <2>1. x \in Link /\ x.count = 0 BY DEF Link, Row
  <2>2. links' = [links EXCEPT ![l] = x] /\ links[l] = None /\ UNCHANGED <<visits, served>>
    BY <1>2 DEF CreateShare
  <2> HIDE DEF x
  <2>3. /\ links' \in [Links -> Link \cup {None}] /\ links'[l] = x
        /\ \A m \in Links \ {l} : links'[m] = links[m]
    BY <2>1, <2>2
  <2>4. Linked' BY <2>1, <2>2, <2>3, Apart DEF Counts, Linked
  <2>5. Reserved(l) = {} BY <2>2 DEF Reserved, Counts, Linked
  <2>6. ASSUME Capped PROVE Booked(l)'
    <3>1. Reserved(l)' = {} BY <2>2, <2>5 DEF Reserved
    <3> QED BY <2>1, <2>2, <2>3, <2>6, <3>1, FS_EmptySet, CapFact DEF Booked, Counts
  <2>7. ASSUME Capped, NEW m \in Links, m # l, links'[m] # None PROVE Booked(m)'
    BY <2>2, <2>3, <2>7, BookedStep DEF Counts, Reserved
  <2> QED BY <2>1, <2>2, <2>3, <2>4, <2>6, <2>7, Apart DEF Counts, Sharers
<1>3. ASSUME NEW l \in Links, RevokeShare(l) PROVE Sharers /\ Counts'
  <2> DEFINE x == [links[l] EXCEPT !.file = None]
  <2>1. x \in Link /\ x.count = links[l].count BY <1>3 DEF RevokeShare, Link, Bytes
  <2>2. links' = [links EXCEPT ![l] = x] /\ links[l] # None /\ UNCHANGED <<visits, served>>
    BY <1>3 DEF RevokeShare
  <2> HIDE DEF x
  <2>3. /\ links' \in [Links -> Link \cup {None}]
        /\ \A m \in Links : /\ links'[m] = None <=> links[m] = None
                            /\ links[m] # None => links'[m].count = links[m].count
    BY <2>1, <2>2, Apart
  <2>4. Linked' BY <2>2, <2>3 DEF Counts, Linked
  <2>5. ASSUME Capped, NEW m \in Links, links'[m] # None PROVE Booked(m)'
    BY <2>2, <2>3, <2>5, BookedStep DEF Counts, Reserved
  <2> QED BY <2>2, <2>3, <2>4, <2>5 DEF Counts, Sharers
\* A visitor who has no download goes where he has none.
<1>4. ASSUME NEW v \in Visitors, NEW x \in Visiting, visits' = [visits EXCEPT ![v] = x],
             visits[v].step # "reserved", x.step # "reserved",
             x.step # "away" => x.link \in Links /\ links[x.link] # None,
             UNCHANGED <<links, served>>
      PROVE  Sharers /\ Counts'
  <2>1. /\ visits' \in [Visitors -> Visiting] /\ visits'[v] = x
        /\ \A u \in Visitors \ {v} : visits'[u] = visits[u]
    BY <1>4
  <2>2. Linked' BY <1>4, <2>1 DEF Counts, Linked
  <2>3. \A l : Reserved(l)' = Reserved(l) BY <1>4, <2>1 DEF Reserved
  <2>4. ASSUME Capped, NEW m \in Links, links'[m] # None PROVE Booked(m)'
    BY <1>4, <2>3, <2>4, BookedStep DEF Counts
  <2> QED BY <1>4, <2>1, <2>2, <2>4 DEF Counts, Sharers
<1>5. ASSUME NEW v \in Visitors, NEW l \in Links, Visit(v, l) PROVE Sharers /\ Counts'
  <2>1. PICK f \in File : visits' = [visits EXCEPT ![v] = [link |-> l, path |-> f, step |-> "read"]]
    BY <1>5 DEF Visit, PathOf
  <2> DEFINE x == [link |-> l, path |-> f, step |-> "read"]
  <2>2. x \in Visiting /\ x.step = "read" /\ x.link = l OBVIOUS
  <2>3. visits[v].step = "away" /\ links[l] # None /\ UNCHANGED <<links, served>>
    BY <1>1, <1>5 DEF Visit
  <2>4. visits' = [visits EXCEPT ![v] = x] BY <2>1
  <2> HIDE DEF x
  <2> QED BY <1>4, <2>2, <2>3, <2>4
<1>6. ASSUME NEW v \in Visitors, Refuse(v) PROVE Sharers /\ Counts'
  BY <1>1, <1>4, <1>6 DEF Refuse
<1> QED BY <1>2, <1>3, <1>5, <1>6

LEMMA ReserveStep ==
  ASSUME Shape, Counts, NEW v \in Visitors, Reserve(v)
  PROVE  Sharers /\ Counts'
<1> USE DEF Shape, TypeOK, Visiting
<1>0. PICK l \in Links : l = visits[v].link /\ links[l] # None /\ links[l] \in Link
  BY DEF Reserve, Counts, Linked
<1> DEFINE x == [visits[v] EXCEPT !.step = "reserved"]
           y == [links[l] EXCEPT !.count = @ + 1]
<1>1. visits[v].step = "read" BY DEF Reserve
<1>2. x \in Visiting /\ x.step = "reserved" /\ x.link = l BY <1>0
<1>3. y \in Link /\ y.count = links[l].count + 1 BY <1>0 DEF Link
<1>4. /\ visits' = [visits EXCEPT ![v] = x] /\ UNCHANGED served
      /\ Capped => links' = [links EXCEPT ![l] = y] /\ links[l].count < MaxDownloads
      /\ ~ Capped => links' = links
  <2>1. visits' = [visits EXCEPT ![v] = x] /\ UNCHANGED served BY DEF Reserve
  <2>2. ASSUME Capped PROVE links' = [links EXCEPT ![l] = y] /\ links[l].count < MaxDownloads
    BY <1>0, <2>2 DEF Reserve
  <2>3. ASSUME ~ Capped PROVE links' = links BY <2>3 DEF Reserve
  <2> QED BY <2>1, <2>2, <2>3
<1> HIDE DEF x, y
<1>5. /\ visits' \in [Visitors -> Visiting] /\ visits'[v] = x
      /\ \A u \in Visitors \ {v} : visits'[u] = visits[u]
  BY <1>2, <1>4
<1>6. /\ links' \in [Links -> Link \cup {None}]
      /\ Capped => links'[l] = y
      /\ \A m \in Links \ {l} : links'[m] = links[m]
      /\ \A m \in Links : links'[m] = None <=> links[m] = None
  <2>1. CASE Capped BY <1>0, <1>3, <1>4, <2>1, Apart
  <2>2. CASE ~ Capped BY <1>4, <2>2
  <2> QED BY <2>1, <2>2
<1>7. Linked' BY <1>0, <1>2, <1>5, <1>6 DEF Counts, Linked
<1>8. ASSUME Capped PROVE Booked(l)'
  <2>1. Booked(l) /\ v \notin Reserved(l) BY <1>0, <1>1, <1>8 DEF Counts, Reserved
  <2>2. Reserved(l)' = Reserved(l) \cup {v} BY <1>2, <1>5 DEF Reserved
  <2>3. /\ IsFiniteSet(Reserved(l)') /\ Cardinality(Reserved(l)) \in Nat
        /\ Cardinality(Reserved(l)') = Cardinality(Reserved(l)) + 1
    BY <2>1, <2>2, FS_AddElement, FS_CardinalityType DEF Booked
  <2>4. links[l].count \in Nat /\ served[l] \in Nat BY <1>0 DEF Link
  <2>5. links'[l].count = links[l].count + 1 /\ served'[l] = served[l]
        /\ links[l].count < MaxDownloads /\ MaxDownloads \in Nat
    BY <1>3, <1>4, <1>6, <1>8, CapFact
  <2>6. served[l] + Cardinality(Reserved(l)) <= links[l].count BY <2>1 DEF Booked
  <2> QED BY <2>3, <2>4, <2>5, <2>6 DEF Booked
<1>9. ASSUME Capped, NEW m \in Links, m # l, links'[m] # None PROVE Booked(m)'
  <2>1. Reserved(m)' = Reserved(m) BY <1>0, <1>2, <1>5, <1>9 DEF Reserved
  <2> QED BY <1>4, <1>6, <1>9, <2>1, BookedStep DEF Counts
<1>10. \A m \in Links : links'[m] = None => served'[m] = 0 BY <1>4, <1>6 DEF Counts
<1> QED BY <1>4, <1>5, <1>6, <1>7, <1>8, <1>9, <1>10 DEF Counts, Sharers

LEMMA SendStep ==
  ASSUME Shape, Counts, NEW v \in Visitors, Send(v)
  PROVE  Sharers /\ Counts'
<1> USE DEF Shape, TypeOK, Visiting
<1>0. PICK l \in Links : l = visits[v].link /\ links[l] # None /\ links[l] \in Link
  BY DEF Send, Counts, Linked
<1>1. visits[v].step = "reserved" BY DEF Send
<1>2. Away \in Visiting /\ Away.step = "away" BY DEF Away
<1>3. /\ visits' = [visits EXCEPT ![v] = Away] /\ UNCHANGED links
      /\ (Capped /\ served' = [served EXCEPT ![l] = @ + 1]) \/ UNCHANGED served
  BY <1>0 DEF Send
<1>4. /\ visits' \in [Visitors -> Visiting] /\ visits'[v] = Away
      /\ \A u \in Visitors \ {v} : visits'[u] = visits[u]
  BY <1>2, <1>3
<1>5. /\ served' \in [Links -> Nat] /\ served'[l] \in {served[l], served[l] + 1}
      /\ \A m \in Links \ {l} : served'[m] = served[m]
  <2>1. CASE UNCHANGED served BY <2>1
  <2>2. CASE served' = [served EXCEPT ![l] = @ + 1]
    <3>1. served[l] + 1 \in Nat BY <1>0
    <3> QED BY <1>0, <2>2, <3>1
  <2> QED BY <1>3, <2>1, <2>2
<1>6. Linked' BY <1>2, <1>3, <1>4 DEF Counts, Linked
<1>7. ASSUME Capped PROVE Booked(l)'
  <2>1. Booked(l) /\ v \in Reserved(l) BY <1>0, <1>1, <1>7 DEF Counts, Reserved
  <2>2. Reserved(l)' = Reserved(l) \ {v} BY <1>2, <1>4 DEF Reserved
  <2>3. /\ IsFiniteSet(Reserved(l)') /\ Cardinality(Reserved(l)) \in Nat
        /\ Cardinality(Reserved(l)') = Cardinality(Reserved(l)) - 1
        /\ Cardinality(Reserved(l)') \in Nat
    BY <2>1, <2>2, FS_RemoveElement, FS_CardinalityType DEF Booked
  <2>4. links[l].count \in Nat /\ served[l] \in Nat BY <1>0 DEF Link
  <2> QED BY <1>3, <1>5, <2>1, <2>3, <2>4, <1>7, CapFact DEF Booked
<1>8. ASSUME Capped, NEW m \in Links, m # l, links'[m] # None PROVE Booked(m)'
  <2>1. Reserved(m)' = Reserved(m) BY <1>0, <1>2, <1>4, <1>8 DEF Reserved
  <2> QED BY <1>3, <1>5, <1>8, <2>1, BookedStep DEF Counts
<1>9. \A m \in Links : links'[m] = None => served'[m] = 0
  BY <1>0, <1>3, <1>5 DEF Counts
<1> QED BY <1>0, <1>3, <1>4, <1>5, <1>6, <1>7, <1>8, <1>9 DEF Counts, Sharers

-----------------------------------------------------------------------------
(* The theorems.                                                           *)

Inv == Tree /\ Counts

\* A step that leaves every path and its row alone keeps what is said of them.
LEMMA StillTree ==
  ASSUME Tree, Shape', UNCHANGED <<disk, row, fired, reqs, observed>>
  PROVE  Tree'
BY DEF Tree, Leftovers, Renames, Paths, Spoilt, Ends, Moved, Quiet, Awaits, Renamed,
       Agrees, Onto, Removes, At, observed

LEMMA StillCounts ==
  ASSUME Counts, UNCHANGED sharing
  PROVE  Counts'
BY DEF Counts, Linked, Booked, Reserved, sharing

LEMMA MakeDirTree ==
  ASSUME Tree, NEW d \in Dir, MakeDir(d) PROVE Tree' /\ UNCHANGED sharing
<1>1. UNCHANGED <<disk, bin, row, fired, reqs, sharing, observed>> BY DEF MakeDir
<1>2. dirs' \subseteq Dir BY DEF MakeDir, Tree, Shape, TypeOK
<1>3. used' \in [writes: 0 .. MaxWrites, requests: Nat, faults: Nat]
  BY DEF MakeDir, Tree, Shape, TypeOK
<1>4. Shape'
  BY <1>1, <1>2, <1>3 DEF Tree, Shape, TypeOK, Requests, sharing, observed
<1> QED BY <1>1, <1>4, StillTree

LEMMA SharingInv ==
  ASSUME Inv, Sharing PROVE Inv'
<1>1. Sharers /\ Counts'
  BY LinkSteps, ReserveStep, SendStep DEF Inv, Tree, Sharing
<1>2. UNCHANGED <<tree, row, fired, reqs, used, observed>>
  BY DEF Sharing, CreateShare, RevokeShare, Visit, Reserve, Refuse, Send
<1>3. Shape'
  BY <1>1, <1>2 DEF Inv, Tree, Shape, TypeOK, Requests, Sharers, Visiting, tree, observed
<1>4. Tree' BY <1>2, <1>3, StillTree DEF Inv, tree
<1> QED BY <1>1, <1>4 DEF Inv

\* What the requests do leaves the links alone.
LEMMA RequestSharing ==
  ASSUME NEW a \in Actors, Request(a) \/ Progress(a) PROVE UNCHANGED sharing
BY DEF Request, StartPut, StartDelete, StartMove, RenameFolder, Progress, Land, PutFails,
       Clear, Cleared, Look, ChildFails, CopyChild, MoveChild, RenamePath, Done

LEMMA InitInv == Init => Inv
<1> SUFFICES ASSUME Init PROVE Inv OBVIOUS
<1>1. PICK f \in File, g \in File :
       /\ f # g
       /\ disk = [h \in File |-> CASE h = f -> 1 [] h = g -> 2 [] OTHER -> None]
       /\ dirs = {f[1], g[1]}
       /\ row = [h \in File |-> IF disk[h] = None THEN NoRow
                               ELSE [id |-> disk[h], status |-> "active", sum |-> disk[h]]]
  BY DEF Init
<1>2. used = [writes |-> 2, requests |-> 0, faults |-> 0] /\ fired = {}
      /\ bin = [h \in File |-> None] /\ reqs = [a \in Actors |-> Idle]
      /\ links = [l \in Links |-> None] /\ visits = [v \in Visitors |-> Away]
      /\ served = [l \in Links |-> 0] /\ forgone = {} /\ strayed = {} /\ collided = {}
  BY DEF Init
<1>3. disk \in [File -> Bytes] /\ 1 \in Serial /\ 2 \in Serial
  BY <1>1, <1>2, LibraryAssumption DEF Bytes, Serial
<1>4. row \in [File -> Row]
  <2>1. NoRow \in Row BY DEF NoRow, Row, Bytes
  <2>2. \A h \in File : disk[h] # None =>
          [id |-> disk[h], status |-> "active", sum |-> disk[h]] \in Row
    BY <1>3 DEF Row
  <2> QED BY <1>1, <2>1, <2>2
<1>5. Shape
  <2>1. dirs \subseteq Dir BY <1>1, Apart
  <2>2. Away \in [link: Links \cup {None}, path: File \cup {None}, step: {"away", "read", "reserved"}]
    BY DEF Away
  <2>3. used \in [writes: 0 .. MaxWrites, requests: Nat, faults: Nat]
    BY <1>2, LibraryAssumption
  <2> QED BY <1>2, <1>3, <1>4, <2>1, <2>2, <2>3, IdleOK
      DEF Shape, TypeOK, Requests, Asked, Bytes
<1>6. Removes(Idle) = None /\ Idle.step = "idle" BY DEF Removes, Idle
<1>7. Leftovers /\ Renames BY <1>2, <1>6, Apart DEF Leftovers, Renames, At
<1>8. Paths BY <1>1, <1>2 DEF Paths, Quiet, Agrees, NoRow
<1>9. \A l : Reserved(l) = {} BY <1>2 DEF Reserved, Away
<1>10. Counts BY <1>2, <1>9 DEF Counts, Linked, Away
<1> QED BY <1>5, <1>7, <1>8, <1>10 DEF Inv, Tree

LEMMA NextInv == Inv /\ [Next]_vars => Inv'
<1> SUFFICES ASSUME Inv, [Next]_vars PROVE Inv' OBVIOUS
<1>1. ASSUME NEW a \in Actors, Request(a) \/ Progress(a) PROVE Inv'
  <2>1. Tree'
    BY <1>1, RequestTree, LandTree, FailTree, ClearTree, ClearedTree, LookTree, CopyTree,
       MoveTree, RenameTree, DoneTree DEF Inv, Progress
  <2> QED BY <1>1, <2>1, RequestSharing, StillCounts DEF Inv
<1>2. ASSUME NEW d \in Dir, MakeDir(d) PROVE Inv'
  BY <1>2, MakeDirTree, StillCounts DEF Inv
<1>3. ASSUME NEW s \in fired, Execute(s) PROVE Inv'
  <2>1. UNCHANGED sharing BY <1>3 DEF Execute
  <2> QED BY <1>3, <2>1, ExecuteTree, StillCounts DEF Inv
<1>4. CASE UNCHANGED vars
  <2>1. Shape' BY <1>4 DEF Inv, Tree, Shape, TypeOK, Requests, vars, tree, sharing, observed
  <2> QED BY <1>4, <2>1, StillTree, StillCounts DEF Inv, vars, tree
<1> QED BY <1>1, <1>2, <1>3, <1>4, SharingInv DEF Next

LEMMA Invariance == Spec => []Inv
BY InitInv, NextInv, PTL DEF Spec

\* Every variable keeps its type, and every request the fields its step needs:
\* a file to write, a source and a destination of one kind that differ, and
\* children of the source to copy or to move.
THEOREM TypeCorrect == Spec => []TypeOK
<1>1. Inv => TypeOK BY DEF Inv, Tree, Shape
<1> QED BY <1>1, Invariance, PTL

\* A capped link is served at most as often as its cap, whatever visits of it
\* overlap and whenever it is revoked.
THEOREM CapIsHeld == Spec => []CapHolds
<1>1. Inv => CapHolds
  <2> SUFFICES ASSUME Inv, Capped, NEW l \in Links PROVE served[l] <= MaxDownloads
    BY DEF CapHolds
  <2>1. served[l] \in Nat /\ MaxDownloads \in Nat
    BY CapFact DEF Inv, Tree, Shape, TypeOK
  <2>2. CASE links[l] = None BY <2>1, <2>2 DEF Inv, Counts
  <2>3. CASE links[l] # None
    <3>1. Booked(l) BY <2>3 DEF Inv, Counts
    <3>2. links[l].count \in Nat
      BY <2>3 DEF Inv, Tree, Shape, TypeOK, Link
    <3>3. Cardinality(Reserved(l)) \in Nat BY <3>1, FS_CardinalityType DEF Booked
    <3> QED BY <2>1, <3>1, <3>2, <3>3 DEF Booked
  <2> QED BY <2>2, <2>3
<1> QED BY <1>1, Invariance, PTL

\* Once nothing is under way the index says of each path what is there, save
\* where two requests met, a statement failed or a rename found another's row:
\* until then each path is in the hands of a rename whose statement is the next
\* step, or waits for exactly one statement that will set it right.
THEOREM IndexKept == Spec => []IndexAgrees
<1>1. Inv => IndexAgrees
  <2> SUFFICES ASSUME Inv, AtRest, NEW f \in File \ (strayed \cup collided) PROVE Agrees(f)
    BY DEF IndexAgrees
  <2>1. ~ Awaits(f) BY DEF AtRest, Awaits
  <2>2. ~ Renamed(f) BY DEF AtRest, Renamed, At
  <2> QED BY <2>1, <2>2 DEF Inv, Tree, Paths, Spoilt
<1> QED BY <1>1, Invariance, PTL

-----------------------------------------------------------------------------
(* No bytes are lost.                                                      *)

\* A step keeps NothingLost if what leaves its place is elsewhere or given up.
LEMMA LossStep ==
  ASSUME Shape, NothingLost, forgone \subseteq forgone',
         \A f \in File : disk[f] \in forgone' \cup {None}
                           \/ \E g \in File : disk[f] \in {disk'[g], bin'[g]},
         \A f \in File : bin[f] \in forgone' \cup {None}
                           \/ \E g \in File : bin[f] \in {disk'[g], bin'[g]},
         \/ used'.writes = used.writes
         \/ /\ used'.writes = used.writes + 1
            /\ \E g \in File : disk'[g] = used.writes + 1
  PROVE  NothingLost'
<1>1. used.writes \in Nat BY LibraryAssumption DEF Shape, TypeOK
<1>2. ASSUME NEW no \in 1 .. used.writes, no \notin forgone'
      PROVE  \E f \in File : no \in {disk'[f], bin'[f]}
  <2>1. PICK f \in File : no \in {disk[f], bin[f]} BY <1>2 DEF NothingLost
  <2>2. no # None BY <1>1, Apart
  <2> QED BY <1>2, <2>1, <2>2
<1> QED BY <1>1, <1>2 DEF NothingLost

\* Nothing moves, or nothing is written.
LEMMA StillLoss ==
  ASSUME Shape, NothingLost, UNCHANGED <<disk, bin, forgone>>, used'.writes = used.writes
  PROVE  NothingLost'
BY LossStep

LEMMA WrittenLoss ==
  ASSUME Shape, NothingLost, NEW a \in Actors, NEW f \in File, Written(a, f), bin' = bin
  PROVE  NothingLost'
<1>1. \A g \in File : disk[g] \in forgone' \cup {None} \/ disk[g] = disk'[g]
  BY WrittenFact
<1> QED BY <1>1, WrittenFact, LossStep

LEMMA ClearLoss ==
  ASSUME Shape, NothingLost, NEW a \in Actors, Clear(a) PROVE NothingLost'
<1>1. PICK f \in reqs[a].todo :
        \/ disk[f] # None /\ Trash(a, f) /\ UNCHANGED used
        \/ disk[f] # None /\ Fault /\ Unlink(f) /\ UNCHANGED bin
        \/ disk[f] = None /\ UNCHANGED <<disk, bin, used, forgone>>
  BY DEF Clear
<1>2. f \in File BY ReqFields DEF Asked
<1>3. CASE disk[f] # None /\ Trash(a, f) /\ UNCHANGED used
  <2>1. /\ bin'[f] = disk[f] /\ bin[f] \in forgone' \cup {None} /\ forgone \subseteq forgone'
        /\ \A g \in File \ {f} : disk'[g] = disk[g] /\ bin'[g] = bin[g]
    BY <1>2, <1>3 DEF Trash, Shape, TypeOK
  <2> QED BY <1>2, <1>3, <2>1, LossStep
<1>4. CASE disk[f] # None /\ Fault /\ Unlink(f) /\ UNCHANGED bin
  <2>1. /\ disk[f] \in forgone' /\ forgone \subseteq forgone' /\ bin' = bin
        /\ \A g \in File \ {f} : disk'[g] = disk[g]
    BY <1>2, <1>4 DEF Unlink, Shape, TypeOK
  <2> QED BY <1>2, <1>4, <2>1, FaultFact, LossStep
<1>5. CASE disk[f] = None /\ UNCHANGED <<disk, bin, used, forgone>> BY <1>5, StillLoss
<1> QED BY <1>1, <1>3, <1>4, <1>5

LEMMA MoveLoss ==
  ASSUME Shape, NothingLost, NEW a \in Actors, MoveChild(a) PROVE NothingLost'
<1>1. reqs[a].step = "each" BY DEF MoveChild, At
<1>2. PICK f \in reqs[a].todo :
        LET h == Onto(f, reqs[a].src, reqs[a].dst) IN
        disk' = [disk EXCEPT ![f] = None, ![h] = disk[f]] /\ Forgo(a, h, disk[f])
  BY DEF MoveChild
<1>3. reqs[a] \in Asked /\ Pair(reqs[a]) /\ f \in Under(reqs[a].src) /\ f \in File
  BY <1>1, ReqFields DEF ReqOK, Under
<1>4. PICK g \in File : g = Onto(f, reqs[a].src, reqs[a].dst) /\ g # f BY <1>3, OntoFact
<1>5. /\ disk'[g] = disk[f] /\ disk[g] \in forgone' \cup {None} /\ forgone \subseteq forgone'
      /\ \A h \in File \ {f, g} : disk'[h] = disk[h]
  BY <1>2, <1>3, <1>4 DEF Forgo, Shape, TypeOK
<1>6. UNCHANGED <<bin, used>> BY DEF MoveChild
<1> QED BY <1>3, <1>5, <1>6, LossStep

\* The directory is removed with nothing in it that was not given up.
LEMMA RemoveLoss ==
  ASSUME Tree, NothingLost, NEW a \in Actors, NEW d \in Dir, NEW step \in {"idle", "look"},
         RemoveDir(a, d, step), UNCHANGED <<bin, forgone, used>>,
         \A f \in File : f[1] = d /\ disk[f] # None => disk[f] \in forgone
  PROVE  NothingLost'
<1>1. \A f \in File : disk'[f] = disk[f] \/ disk[f] \in forgone \cup {None}
  BY DEF RemoveDir
<1> QED BY <1>1, LossStep DEF Tree

LEMMA DirLoss ==
  ASSUME Tree, NothingLost, NEW a \in Actors, Cleared(a) \/ Done(a) PROVE NothingLost'
<1>1. UNCHANGED <<bin, row, fired, sharing, used, forgone, collided>> BY DEF Cleared, Done
<1>2. CASE disk' = disk BY <1>1, <1>2, StillLoss DEF Tree
<1>3. ASSUME disk' # disk, Cleared(a) PROVE NothingLost'
  <2>1. /\ reqs[a].step = "clear" /\ reqs[a].todo = {} /\ Clearing(a) \in Dir
        /\ \/ RemoveDir(a, Clearing(a), "idle")
           \/ RemoveDir(a, Clearing(a), "look") /\ reqs[a].op # "delete"
    BY <1>3 DEF Cleared, At
  <2>2. Removes(reqs[a]) = Clearing(a) BY <2>1 DEF Removes, Clearing
  <2>3. reqs[a].op # "delete" => reqs[a].op \in {"move", "copy"}
    BY <2>1, ReqFields DEF ReqOK, Tree
  <2> QED BY <1>1, <2>1, <2>2, <2>3, RemoveTree, RemoveLoss
<1>4. ASSUME disk' # disk, Done(a) PROVE NothingLost'
  <2>1. /\ reqs[a].step = "each" /\ reqs[a].todo = {} /\ reqs[a].op = "move"
        /\ reqs[a].src \in Dir /\ RemoveDir(a, reqs[a].src, "idle")
    BY <1>4 DEF Done, At
  <2>2. Removes(reqs[a]) = reqs[a].src BY <2>1 DEF Removes
  <2> QED BY <1>1, <2>1, <2>2, RemoveTree, RemoveLoss
<1> QED BY <1>2, <1>3, <1>4

LEMMA NextLoss == Inv /\ NothingLost /\ [Next]_vars => NothingLost'
<1> SUFFICES ASSUME Inv, NothingLost, [Next]_vars PROVE NothingLost' OBVIOUS
<1> USE DEF Inv, Tree
<1>1. ASSUME NEW a \in Actors, Request(a) PROVE NothingLost'
  <2>1. UNCHANGED <<disk, bin, observed>> /\ used'.writes = used.writes
    BY <1>1 DEF Request, StartPut, StartDelete, StartMove, RenameFolder, Begin, tree,
       Shape, TypeOK
  <2> QED BY <2>1, StillLoss DEF observed
<1>2. ASSUME NEW a \in Actors, Land(a) PROVE NothingLost'
  <2>1. reqs[a].src \in File BY <1>2, ReqFields DEF Land, At, ReqOK
  <2> QED BY <1>2, <2>1, WrittenLoss DEF Land
<1>3. ASSUME NEW a \in Actors, CopyChild(a) PROVE NothingLost'
  <2>1. PICK f \in reqs[a].todo : Written(a, Onto(f, reqs[a].src, reqs[a].dst))
    BY <1>3 DEF CopyChild
  <2>2. Onto(f, reqs[a].src, reqs[a].dst) \in File
    BY <1>3, ReqFields, OntoFact DEF CopyChild, At, ReqOK
  <2> QED BY <1>3, <2>1, <2>2, WrittenLoss DEF CopyChild
<1>4. ASSUME NEW a \in Actors,
             PutFails(a) \/ ChildFails(a) \/ Look(a) \/ RenamePath(a)
      PROVE  NothingLost'
  <2>1. UNCHANGED <<disk, bin, forgone>> /\ (used' = used \/ Fault)
    BY <1>4 DEF PutFails, ChildFails, Look, RenamePath, tree, observed
  <2> QED BY <2>1, FaultFact, StillLoss
<1>5. ASSUME NEW a \in Actors, Progress(a) PROVE NothingLost'
  BY <1>2, <1>3, <1>4, <1>5, ClearLoss, DirLoss, MoveLoss DEF Progress
<1>6. ASSUME NEW d \in Dir, MakeDir(d) PROVE NothingLost'
  <2>1. UNCHANGED <<disk, bin, forgone>> /\ used'.writes = used.writes
    BY <1>6 DEF MakeDir, observed, Shape, TypeOK
  <2> QED BY <2>1, StillLoss
<1>7. ASSUME NEW s \in fired, Execute(s) PROVE NothingLost'
  <2>1. UNCHANGED <<disk, bin, forgone>> /\ (used' = used \/ Fault)
    BY <1>7 DEF Execute, tree
  <2> QED BY <2>1, FaultFact, StillLoss
<1>8. ASSUME Sharing \/ UNCHANGED vars PROVE NothingLost'
  <2>1. UNCHANGED <<disk, bin, forgone, used>>
    BY <1>8 DEF Sharing, CreateShare, RevokeShare, Visit, Reserve, Refuse, Send, vars, tree,
       observed
  <2> QED BY <2>1, StillLoss
<1> QED BY <1>1, <1>5, <1>6, <1>7, <1>8 DEF Next

\* No bytes go but those a later write or deletion of their path was to
\* replace, and those that came to a path another request had in hand. A
\* directory that is removed at the end of a request holds no others, for what
\* the request had not listed there came while it was under way.
THEOREM NothingIsLost == Spec => []NothingLost
<1>1. Init => NothingLost
  <2> SUFFICES ASSUME Init PROVE NothingLost OBVIOUS
  <2>1. PICK f \in File, g \in File :
          f # g /\ disk = [h \in File |-> CASE h = f -> 1 [] h = g -> 2 [] OTHER -> None]
    BY DEF Init
  <2>2. used.writes = 2 /\ disk[f] = 1 /\ disk[g] = 2 BY <2>1 DEF Init
  <2> QED BY <2>2 DEF NothingLost
<1> QED BY <1>1, NextLoss, Invariance, PTL DEF Spec
=============================================================================
