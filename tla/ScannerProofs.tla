---------------------------- MODULE ScannerProofs ----------------------------
(* Theorems about Scanner for any tree of directories, any volumes, writers,  *)
(* scans and attempts: what a scan may mark missing, what its recorded        *)
(* progress says, and what a complete pass leaves in the index.               *)
(*                                                                            *)
(* A scan that resumes compares whole path strings, while the walk goes       *)
(* directory by directory. Where the two orders differ, it may skip what      *)
(* nobody has seen; so the theorems are about libraries in which they agree,  *)
(* or about the first attempt of a scan, which skips nothing.                 *)
EXTENDS Scanner, WellFoundedInduction, TLAPS

\* No name is a prefix of a sibling directory's in a way that parts the orders
\* ("a.txt" beside "a/x": scanner.js walk() and the comparison with the resume path).
OrdersAgree ==
  \A q, r \in Rels : StringRank[q] <= StringRank[r] => WalkRank[q] <= WalkRank[r]

Trusted == OrdersAgree \/ job.tries <= 1

-----------------------------------------------------------------------------
(* The inductive invariant.                                                *)

Row == [status : {"none", "active", "missing", "trashed"},
        ver : 0..MaxVersion, vol : 0..NVols, scan : 0..MaxScans]
Writer == [op : {"none", "upload", "put", "delete"}, rel : Rels \cup {None},
           ver : 0..MaxVersion, vol : 0..NVols]
ScanRec == [pc : {"idle", "walk", "look", "mark", "finalize", "lost"},
            only : 0..NVols, resume : [vol : 0..NVols, last : Rels \cup {None}],
            vol : 0..NVols, todo : SUBSET Entries, skip : Rels \cup {None},
            last : Rels \cup {None}, cur : Rels \cup {None}, ver : 0..MaxVersion,
            drifted : BOOLEAN]
Place == [vol : 0..NVols, last : Rels \cup {None}]

WriterOK(w) ==
  /\ w.op # "none" => w.rel \in Rels
  /\ w.op \in {"upload", "put"} => w.vol \in Vols

Running == scan.pc \in {"walk", "look", "mark", "finalize"}
AtFile == scan.pc \in {"look", "mark"}

\* What the scan has in hand belongs to its volume, and its volume to the scan.
Placed ==
  /\ \A w \in Writers : WriterOK(writers[w])
  /\ scan.pc # "idle" => job.id > 0 /\ job.tries > 0
  /\ \A r \in Rels : rows[r].scan <= job.id
  /\ Running => scan.vol \in Vols /\ scan.only \in {0, scan.vol}
  /\ AtFile => /\ scan.cur \in Rels /\ scan.cur \in scan.todo /\ scan.ver # 0
               /\ \A f \in scan.todo : WalkRank[scan.cur] <= WalkRank[f]

Seen(r) == rows[r].scan = job.id

(* The walk of a volume.                                                   *)

\* What the walk of the volume must come across.
Lasting(e) == e \in Dirs \/ <<scan.vol, e>> \in kept

\* S is what the walk of the volume has done with.
Walked(S) ==
  /\ (S = {} /\ scan.todo = {Root} /\ scan.last = None) \/ Root \in S
  /\ \A e \in Entries \ {Root} : Parent[e] \in S /\ Lasting(e) => e \in S \cup scan.todo
  /\ \A e \in S, f \in scan.todo : WalkRank[e] < WalkRank[f]
  /\ \A r \in S \cap Rels : Lasting(r) => Seen(r)
  /\ scan.last # None => scan.last \in S

\* The scan job has seen what is kept on a volume, up to a path or all of it.
SeenUpTo(place) == place.last # None =>
  \A r \in Rels : <<place.vol, r>> \in kept /\ StringRank[r] <= StringRank[place.last] => Seen(r)
SeenOn(v) == \A r \in Rels : <<v, r>> \in kept => Seen(r)

Progress ==
  /\ OrdersAgree /\ scan.pc # "idle" => SeenUpTo(job.progress)
  /\ job.tries <= 1 => scan.resume = Nowhere /\ scan.skip = None
  /\ Trusted /\ Running =>
       /\ SeenUpTo(scan.resume)
       /\ scan.skip \in {None, scan.resume.last} /\ (scan.skip # None => scan.resume.vol = scan.vol)
       /\ scan.only = 0 => \A v \in Vols : v < scan.vol => SeenOn(v)
       /\ scan.pc # "finalize" => \E S \in SUBSET Entries : Walked(S)
       /\ scan.pc = "finalize" => SeenOn(scan.vol) /\ (scan.only = 0 => scan.vol = NVols)

(* The index of the paths nobody writes.                                   *)

Tells(row, r) == row.status = "active" /\ row.vol \in Vols /\ row.ver # 0 /\ disk[row.vol][r] = row.ver

Index ==
  /\ \A c \in kept : disk[c[1]][c[2]] # 0
  /\ \A r \in calm : \A w \in Writers : writers[w].rel # r
  /\ \A r \in calm, v \in Vols : disk[v][r] # 0 => <<v, r>> \in kept
  /\ \A r \in calm : Seen(r) => Tells(rows[r], r)
  /\ AtFile /\ scan.cur \in calm => disk[scan.vol][scan.cur] = scan.ver
  /\ scan.pc = "mark" /\ scan.cur \in calm => scan.drifted = Drifted(rows[scan.cur])

Inv == STypeOK /\ Placed /\ Progress /\ Index
-----------------------------------------------------------------------------
(* Facts about the constants, and about walks in general.                  *)

LEMMA Facts ==
  /\ NVols \in Nat /\ NVols > 0 /\ MaxVersion \in Nat /\ MaxVersion > 0
  /\ MaxScans \in Nat /\ MaxAttempts \in Nat /\ MaxAttempts > 0 /\ MaxCancels \in Nat
  /\ Root \in Dirs /\ None \notin Rels /\ None \notin Dirs /\ Rels \cap Dirs = {}
  /\ Entries = Rels \cup Dirs
  /\ \A e \in Entries \ {Root} : Parent[e] \in Dirs /\ WalkRank[Parent[e]] < WalkRank[e]
  /\ \A e \in Entries : WalkRank[e] \in Nat
  /\ \A r \in Rels : StringRank[r] \in Nat
  /\ \A d, e \in Entries : WalkRank[d] = WalkRank[e] => d = e
  /\ \A v : v \in Vols <=> v \in Nat /\ 1 <= v /\ v <= NVols
BY ScannerAssumption DEF Entries, Vols

\* Some entry of a set comes first in the walk.
LEMMA First ==
  ASSUME NEW X \in SUBSET Entries, X # {}
  PROVE  \E e \in X : \A f \in X : WalkRank[e] <= WalkRank[f]
<1> DEFINE T == {WalkRank[e] : e \in X}
           R == OpToRel(<, Nat)
<1>1. T \subseteq Nat /\ T # {} BY Facts
<1>2. IsWellFoundedOn(R, Nat) BY NatLessThanWellFounded
<1>3. \A x, y \in Nat : y < x => <<y, x>> \in R BY DEF OpToRel
<1> HIDE DEF R, T
<1>4. PICK x \in T : \A y \in T : <<y, x>> \notin R BY <1>1, <1>2, WFMin
<1>5. \A y \in T : x <= y
  <2> SUFFICES ASSUME NEW y \in T, ~(x <= y) PROVE FALSE OBVIOUS
  <2>1. x \in Nat /\ y \in Nat /\ y < x BY <1>1
  <2> QED BY <1>3, <1>4, <2>1
<1> QED BY <1>5 DEF T

\* What the walk has not done with, it will come across: something on the way to
\* it is still to do.
LEMMA Frontier ==
  ASSUME STypeOK, NEW S \in SUBSET Entries, Walked(S), NEW e \in Entries, Lasting(e), e \notin S
  PROVE  \E f \in scan.todo : WalkRank[f] <= WalkRank[e]
<1> DEFINE X == {g \in Entries \ S : Lasting(g) /\ \A f \in scan.todo : WalkRank[g] < WalkRank[f]}
<1> SUFFICES ASSUME \A f \in scan.todo : ~(WalkRank[f] <= WalkRank[e]) PROVE FALSE OBVIOUS
<1>0. \A f \in scan.todo : f \in Entries /\ WalkRank[f] \in Nat BY Facts DEF STypeOK
<1>1. e \in X BY <1>0, Facts
<1>2. PICK g \in X : \A h \in X : WalkRank[g] <= WalkRank[h] BY <1>1, First
<1>3. g # Root BY <1>0, <1>2 DEF Walked
<1>4. Parent[g] \in Entries /\ Lasting(Parent[g]) /\ WalkRank[Parent[g]] < WalkRank[g]
  BY <1>3, Facts DEF Lasting
<1>5. CASE Parent[g] \in S BY <1>2, <1>3, <1>4, <1>5, Facts DEF Walked
<1>6. CASE Parent[g] \notin S
  <2>1. Parent[g] \notin X BY <1>2, <1>4, Facts
  <2>2. PICK f \in scan.todo : ~(WalkRank[Parent[g]] < WalkRank[f]) BY <1>4, <1>6, <2>1
  <2>3. WalkRank[g] < WalkRank[f] BY <1>2
  <2> QED BY <1>0, <1>4, <2>2, <2>3, Facts
<1> QED BY <1>5, <1>6
-----------------------------------------------------------------------------
(* Writes.                                                                 *)

\* What the scan has seen stays seen, and it need not see more.
LEMMA ProgressKept ==
  ASSUME Progress, UNCHANGED <<job, scan>>, kept' \subseteq kept,
         \A r \in Rels : Seen(r) => Seen(r)'
  PROVE  Progress'
<1>1. \A v : SeenOn(v) => SeenOn(v)' BY DEF SeenOn
<1>2. SeenUpTo(job.progress) => SeenUpTo(job.progress)' BY DEF SeenUpTo
<1>3. SeenUpTo(scan.resume) => SeenUpTo(scan.resume)' BY DEF SeenUpTo
<1>4. ASSUME NEW S \in SUBSET Entries, Walked(S) PROVE Walked(S)'
  <2>1. \A e : Lasting(e)' => Lasting(e) BY DEF Lasting
  <2> QED BY <1>4, <2>1 DEF Walked
<1>5. (\E S \in SUBSET Entries : Walked(S)) => (\E S \in SUBSET Entries : Walked(S)')
  BY <1>4
<1>6. SeenOn(scan.vol) => SeenOn(scan.vol)' BY DEF SeenOn
<1> QED BY <1>1, <1>2, <1>3, <1>5, <1>6 DEF Progress, Trusted, Running

\* A write of r by w changes the disk, the index and the history at r only.
LEMMA WriteTouches ==
  ASSUME Inv, NEW w \in Writers, NEW r \in Rels, UNCHANGED <<job, scan, cancels>>,
         disk' \in [Vols -> [Rels -> 0..MaxVersion]], newest' \in [Rels -> 0..MaxVersion],
         rows' \in [Rels -> Row], rows'[r].scan = rows[r].scan,
         NEW n \in Writer, WriterOK(n), n.rel \in {r, None}, writers' = [writers EXCEPT ![w] = n],
         kept' \subseteq kept, \A c \in kept' : disk'[c[1]][c[2]] # 0, calm' = calm \ {r},
         \A q \in Rels \ {r} : /\ rows'[q] = rows[q]
                               /\ \A v \in Vols : /\ disk'[v][q] = disk[v][q]
                                                  /\ <<v, q>> \in kept => <<v, q>> \in kept'
  PROVE  Inv'
<1>1. /\ writers' \in [Writers -> Writer] /\ writers'[w] = n
      /\ \A x \in Writers \ {w} : writers'[x] = writers[x]
  BY DEF Inv, STypeOK, Writer
<1>2. STypeOK' BY <1>1 DEF Inv, STypeOK, Row, Writer
<1>3. \A q \in Rels : rows'[q].scan = rows[q].scan OBVIOUS
<1>4. Placed'
  <2>1. \A x \in Writers : WriterOK(writers'[x])
    <3> SUFFICES ASSUME NEW x \in Writers PROVE WriterOK(writers'[x]) OBVIOUS
    <3>1. CASE x = w BY <1>1, <3>1
    <3>2. CASE x # w
      <4>1. writers'[x] = writers[x] /\ WriterOK(writers[x]) BY <1>1, <3>2 DEF Inv, Placed
      <4> QED BY <4>1
    <3> QED BY <3>1, <3>2
  <2> QED BY <1>3, <2>1 DEF Inv, Placed, Running, AtFile
<1>5. Progress'
  <2>1. \A q \in Rels : Seen(q) => Seen(q)' BY <1>3 DEF Seen
  <2> QED BY <2>1, ProgressKept DEF Inv
<1>6. Index'
  <2>1. \A q \in calm', x \in Writers : writers'[x].rel # q
    BY <1>1, Facts DEF Inv, Index, STypeOK
  <2>2. \A q \in calm' : q \in Rels \ {r} /\ q \in calm BY DEF Inv, STypeOK
  <2>3. ASSUME NEW q \in calm', NEW v \in Vols, disk'[v][q] # 0 PROVE <<v, q>> \in kept'
    <3>1. disk'[v][q] = disk[v][q] /\ q \in calm BY <2>2
    <3>2. <<v, q>> \in kept BY <2>3, <3>1 DEF Inv, Index
    <3> QED BY <2>2, <3>2
  <2>4. ASSUME NEW q \in calm', Seen(q)' PROVE Tells(rows[q], q)'
    <3>1. Seen(q) /\ q \in calm BY <1>3, <2>2, <2>4 DEF Seen
    <3>2. Tells(rows[q], q) BY <3>1 DEF Inv, Index
    <3> QED BY <2>2, <3>2 DEF Tells
  <2>5. AtFile' /\ scan'.cur \in calm' => disk'[scan'.vol][scan'.cur] = scan'.ver
    <3> SUFFICES ASSUME AtFile, scan.cur \in calm' PROVE disk'[scan.vol][scan.cur] = scan.ver
      BY DEF AtFile
    <3>1. scan.vol \in Vols BY DEF Inv, Placed, Running, AtFile
    <3> QED BY <2>2, <3>1 DEF Inv, Index
  <2>6. scan'.pc = "mark" /\ scan'.cur \in calm' => scan'.drifted = Drifted(rows[scan.cur])'
    <3> SUFFICES ASSUME scan.pc = "mark", scan.cur \in calm'
                 PROVE  scan.drifted = Drifted(rows[scan.cur])'
      OBVIOUS
    <3>1. rows'[scan.cur] = rows[scan.cur] BY <2>2
    <3> QED BY <2>2, <3>1 DEF Inv, Index, Drifted
  <2> QED BY <2>1, <2>3, <2>4, <2>5, <2>6 DEF Index
<1> QED BY <1>2, <1>4, <1>5, <1>6 DEF Inv
LEMMA DiskSet ==
  ASSUME STypeOK, NEW v, NEW r \in Rels, NEW x \in 0..MaxVersion,
         disk' = [disk EXCEPT ![v][r] = x]
  PROVE  /\ disk' \in [Vols -> [Rels -> 0..MaxVersion]]
         /\ \A u \in Vols, q \in Rels : disk'[u][q] = IF u = v /\ q = r THEN x ELSE disk[u][q]
BY DEF STypeOK

\* What is kept of other paths than r stays.
LEMMA KeptElsewhere ==
  ASSUME Inv, NEW r \in Rels, kept' = StillKept,
         \A u \in Vols, q \in Rels \ {r} : disk'[u][q] = disk[u][q]
  PROVE  /\ kept' \subseteq kept /\ \A c \in kept' : disk'[c[1]][c[2]] # 0
         /\ \A u \in Vols, q \in Rels \ {r} : <<u, q>> \in kept => <<u, q>> \in kept'
<1>1. \A c \in kept : disk[c[1]][c[2]] # 0 BY DEF Inv, Index
<1>2. kept' = {c \in kept : disk'[c[1]][c[2]] # 0} BY DEF StillKept
<1>3. ASSUME NEW u \in Vols, NEW q \in Rels \ {r}, <<u, q>> \in kept PROVE <<u, q>> \in kept'
  <2>1. disk[u][q] # 0 BY <1>1, <1>3
  <2> QED BY <1>2, <1>3, <2>1
<1> QED BY <1>2, <1>3

LEMMA NewWriter ==
  /\ IdleWriter \in Writer /\ WriterOK(IdleWriter) /\ IdleWriter.rel = None /\ IdleWriter.op = "none"
  /\ \A r \in Rels, v \in Vols :
       /\ [IdleWriter EXCEPT !.op = "upload", !.rel = r, !.vol = v] \in Writer
       /\ WriterOK([IdleWriter EXCEPT !.op = "upload", !.rel = r, !.vol = v])
       /\ [IdleWriter EXCEPT !.op = "upload", !.rel = r, !.vol = v].rel = r
  /\ \A r \in Rels :
       /\ [IdleWriter EXCEPT !.op = "delete", !.rel = r] \in Writer
       /\ WriterOK([IdleWriter EXCEPT !.op = "delete", !.rel = r])
       /\ [IdleWriter EXCEPT !.op = "delete", !.rel = r].rel = r
<1>1. 0 \in 0..MaxVersion /\ 0 \in 0..NVols BY Facts
<1>2. \A v \in Vols : v \in 0..NVols BY Facts
<1>3. IdleWriter \in Writer /\ IdleWriter.rel = None /\ IdleWriter.op = "none"
  BY <1>1 DEF IdleWriter, Writer
<1>4. WriterOK(IdleWriter) BY <1>3 DEF WriterOK
<1>5. ASSUME NEW r \in Rels, NEW v \in Vols
      PROVE  LET n == [IdleWriter EXCEPT !.op = "upload", !.rel = r, !.vol = v]
             IN  n \in Writer /\ WriterOK(n) /\ n.rel = r
  <2> DEFINE n == [IdleWriter EXCEPT !.op = "upload", !.rel = r, !.vol = v]
  <2>1. n \in Writer /\ n.rel = r /\ n.vol = v BY <1>2, <1>3 DEF Writer
  <2> HIDE DEF n
  <2>2. WriterOK(n) BY <2>1 DEF WriterOK
  <2> QED BY <2>1, <2>2 DEF n
<1>6. ASSUME NEW r \in Rels
      PROVE  LET n == [IdleWriter EXCEPT !.op = "delete", !.rel = r]
             IN  n \in Writer /\ WriterOK(n) /\ n.rel = r
  <2> DEFINE n == [IdleWriter EXCEPT !.op = "delete", !.rel = r]
  <2>1. n \in Writer /\ n.rel = r /\ n.op = "delete" BY <1>3 DEF Writer
  <2> HIDE DEF n
  <2>2. WriterOK(n) BY <2>1 DEF WriterOK
  <2> QED BY <2>1, <2>2 DEF n
<1> QED BY <1>3, <1>4, <1>5, <1>6

LEMMA PutStartsStep ==
  ASSUME Inv, NEW w \in Writers, NEW r \in Rels, PutStarts(w, r) PROVE Inv'
<1>1. PICK v \in Vols :
        writers' = [writers EXCEPT ![w] = [IdleWriter EXCEPT !.op = "upload", !.rel = r, !.vol = v]]
  BY DEF PutStarts
<1> DEFINE n == [IdleWriter EXCEPT !.op = "upload", !.rel = r, !.vol = v]
<1>2. n \in Writer /\ WriterOK(n) /\ n.rel \in {r, None} /\ writers' = [writers EXCEPT ![w] = n]
  BY <1>1, NewWriter
<1> HIDE DEF n
<1>3. /\ disk' \in [Vols -> [Rels -> 0..MaxVersion]]
      /\ \A u \in Vols, q \in Rels \ {r} : disk'[u][q] = disk[u][q]
  <2>1. disk' = [disk EXCEPT ![Holder(r)][r] = 0] \/ disk' = disk BY DEF PutStarts
  <2>2. 0 \in 0..MaxVersion BY Facts
  <2> QED BY <2>1, <2>2, DiskSet DEF Inv, STypeOK
<1>4. /\ kept' \subseteq kept /\ \A c \in kept' : disk'[c[1]][c[2]] # 0
      /\ \A u \in Vols, q \in Rels \ {r} : <<u, q>> \in kept => <<u, q>> \in kept'
  <2>1. kept' = StillKept BY DEF PutStarts
  <2> QED BY <1>3, <2>1, KeptElsewhere
<1>5. calm' = calm \ {r} /\ UNCHANGED <<newest, rows, job, scan, cancels>> BY DEF PutStarts
<1>6. newest' \in [Rels -> 0..MaxVersion] /\ rows' \in [Rels -> Row] /\ rows'[r].scan = rows[r].scan
  BY <1>5 DEF Inv, STypeOK, Row
<1>7. \A q \in Rels \ {r} : /\ rows'[q] = rows[q]
                            /\ \A u \in Vols : /\ disk'[u][q] = disk[u][q]
                                               /\ <<u, q>> \in kept => <<u, q>> \in kept'
  BY <1>3, <1>4, <1>5
<1> QED BY <1>2, <1>3, <1>4, <1>5, <1>6, <1>7, WriteTouches

LEMMA DeleteStep ==
  ASSUME Inv, NEW w \in Writers, NEW r \in Rels, Delete(w, r) PROVE Inv'
<1> DEFINE n == [IdleWriter EXCEPT !.op = "delete", !.rel = r]
<1>1. n \in Writer /\ WriterOK(n) /\ n.rel \in {r, None} /\ writers' = [writers EXCEPT ![w] = n]
  BY NewWriter DEF Delete
<1> HIDE DEF n
<1>2. /\ disk' \in [Vols -> [Rels -> 0..MaxVersion]]
      /\ \A u \in Vols, q \in Rels \ {r} : disk'[u][q] = disk[u][q]
  <2>1. disk' = [disk EXCEPT ![Holder(r)][r] = 0] BY DEF Delete
  <2>2. 0 \in 0..MaxVersion BY Facts
  <2> QED BY <2>1, <2>2, DiskSet DEF Inv
<1>3. /\ kept' \subseteq kept /\ \A c \in kept' : disk'[c[1]][c[2]] # 0
      /\ \A u \in Vols, q \in Rels \ {r} : <<u, q>> \in kept => <<u, q>> \in kept'
  <2>1. kept' = StillKept BY DEF Delete
  <2> QED BY <1>2, <2>1, KeptElsewhere
<1>4. calm' = calm \ {r} /\ UNCHANGED <<newest, rows, job, scan, cancels>> BY DEF Delete
<1>5. newest' \in [Rels -> 0..MaxVersion] /\ rows' \in [Rels -> Row] /\ rows'[r].scan = rows[r].scan
  BY <1>4 DEF Inv, STypeOK, Row
<1>6. \A q \in Rels \ {r} : /\ rows'[q] = rows[q]
                            /\ \A u \in Vols : /\ disk'[u][q] = disk[u][q]
                                               /\ <<u, q>> \in kept => <<u, q>> \in kept'
  BY <1>2, <1>3, <1>4
<1> QED BY <1>1, <1>2, <1>3, <1>4, <1>5, <1>6, WriteTouches

\* A writer that is under way has its path.
LEMMA UnderWay ==
  ASSUME Inv, NEW w \in Writers, writers[w].op \in {"upload", "put", "delete"}
  PROVE  /\ writers[w] \in Writer /\ WriterOK(writers[w]) /\ writers[w].rel \in Rels
         /\ (writers[w].op # "delete" => writers[w].vol \in Vols)
<1>1. writers[w] \in Writer /\ WriterOK(writers[w]) BY DEF Inv, STypeOK, Placed, Writer
<1> QED BY <1>1 DEF WriterOK, Writer

LEMMA PutLandsStep ==
  ASSUME Inv, NEW w \in Writers, PutLands(w) PROVE Inv'
<1>1. writers[w].op = "upload" /\ newest[writers[w].rel] < MaxVersion BY DEF PutLands
<1>2. /\ writers[w] \in Writer /\ writers[w].rel \in Rels /\ writers[w].vol \in Vols
  BY <1>1, UnderWay
<1>3. PICK r \in Rels : r = writers[w].rel BY <1>2
<1> DEFINE x == newest[r] + 1
           n == [writers[w] EXCEPT !.op = "put", !.ver = x]
<1>4. x \in 1..MaxVersion BY <1>1, <1>3, Facts DEF Inv, STypeOK
<1>5. newest' = [newest EXCEPT ![r] = x] BY <1>3 DEF PutLands, Inv, STypeOK
<1>6. newest' \in [Rels -> 0..MaxVersion] /\ newest'[r] = x BY <1>4, <1>5 DEF Inv, STypeOK
<1>7. /\ disk' = [disk EXCEPT ![writers[w].vol][r] = x] /\ writers' = [writers EXCEPT ![w] = n]
      /\ calm' = calm \ {r} /\ UNCHANGED <<rows, job, scan, cancels, kept>>
  BY <1>3, <1>6 DEF PutLands
<1>8. n \in Writer /\ n.op = "put" /\ n.rel = r /\ n.vol = writers[w].vol
  <2>1. x \in 0..MaxVersion BY <1>4, Facts
  <2> HIDE DEF x
  <2> QED BY <1>2, <1>3, <2>1 DEF Writer
<1>9. WriterOK(n) BY <1>2, <1>3, <1>8 DEF WriterOK
<1> HIDE DEF x, n
<1>10. /\ disk' \in [Vols -> [Rels -> 0..MaxVersion]]
       /\ \A u \in Vols, q \in Rels : disk'[u][q] = disk[u][q] \/ disk'[u][q] = x
       /\ \A u \in Vols, q \in Rels \ {r} : disk'[u][q] = disk[u][q]
  <2>1. x \in 0..MaxVersion BY <1>4, Facts
  <2>2. STypeOK BY DEF Inv
  <2>3. /\ disk' \in [Vols -> [Rels -> 0..MaxVersion]]
        /\ \A u \in Vols, q \in Rels :
             disk'[u][q] = IF u = writers[w].vol /\ q = r THEN x ELSE disk[u][q]
    BY ONLY <1>7, <2>1, <2>2, r \in Rels, DiskSet
  <2> QED BY <2>3
<1>11. \A c \in kept' : disk'[c[1]][c[2]] # 0
  <2>1. \A c \in kept : disk[c[1]][c[2]] # 0 /\ c[1] \in Vols /\ c[2] \in Rels
    BY DEF Inv, Index, STypeOK
  <2> QED BY <1>4, <1>7, <1>10, <2>1
<1>12. rows' \in [Rels -> Row] /\ rows'[r].scan = rows[r].scan
  BY <1>7 DEF Inv, STypeOK, Row
<1>13. \A q \in Rels \ {r} : /\ rows'[q] = rows[q]
                             /\ \A u \in Vols : /\ disk'[u][q] = disk[u][q]
                                                /\ <<u, q>> \in kept => <<u, q>> \in kept'
  BY <1>7, <1>10
<1> QED BY <1>6, <1>7, <1>8, <1>9, <1>10, <1>11, <1>12, <1>13, WriteTouches

LEMMA PutFailsStep ==
  ASSUME Inv, NEW w \in Writers, PutFails(w) PROVE Inv'
<1>1. writers[w].op \in {"upload", "put"} BY DEF PutFails
<1>2. PICK r \in Rels : r = writers[w].rel BY <1>1, UnderWay
<1>3. /\ disk' = [disk EXCEPT ![writers[w].vol][r] = 0] \/ disk' = disk
      /\ writers' = [writers EXCEPT ![w] = IdleWriter] /\ kept' = StillKept /\ calm' = calm \ {r}
      /\ UNCHANGED <<newest, rows, job, scan, cancels>>
  BY <1>2 DEF PutFails
<1>4. /\ disk' \in [Vols -> [Rels -> 0..MaxVersion]]
      /\ \A u \in Vols, q \in Rels \ {r} : disk'[u][q] = disk[u][q]
  <2>1. 0 \in 0..MaxVersion BY Facts
  <2> QED BY <1>3, <2>1, DiskSet DEF Inv, STypeOK
<1>5. /\ kept' \subseteq kept /\ \A c \in kept' : disk'[c[1]][c[2]] # 0
      /\ \A u \in Vols, q \in Rels \ {r} : <<u, q>> \in kept => <<u, q>> \in kept'
  BY <1>3, <1>4, KeptElsewhere
<1>6. newest' \in [Rels -> 0..MaxVersion] /\ rows' \in [Rels -> Row] /\ rows'[r].scan = rows[r].scan
  BY <1>3 DEF Inv, STypeOK, Row
<1>7. \A q \in Rels \ {r} : /\ rows'[q] = rows[q]
                            /\ \A u \in Vols : /\ disk'[u][q] = disk[u][q]
                                               /\ <<u, q>> \in kept => <<u, q>> \in kept'
  BY <1>3, <1>4, <1>5
<1>8. IdleWriter \in Writer /\ WriterOK(IdleWriter) /\ IdleWriter.rel \in {r, None} BY NewWriter
<1> QED BY <1>3, <1>4, <1>5, <1>6, <1>7, <1>8, WriteTouches

LEMMA RecordStep ==
  ASSUME Inv, NEW w \in Writers, Record(w) PROVE Inv'
<1>1. writers[w].op \in {"put", "delete"} BY DEF Record
<1>2. PICK r \in Rels : r = writers[w].rel BY <1>1, UnderWay
<1> DEFINE row == IF writers[w].op = "put" THEN Upserted(rows[r], writers[w].ver, writers[w].vol, 0)
                  ELSE IF rows[r] = NoRow THEN rows[r] ELSE [rows[r] EXCEPT !.status = "trashed"]
<1>3. /\ rows' = [rows EXCEPT ![r] = row]
      /\ writers' = [writers EXCEPT ![w] = IdleWriter] /\ calm' = calm \ {r}
      /\ UNCHANGED <<disk, newest, job, scan, cancels, kept>>
  BY <1>2 DEF Record, Inv, STypeOK
<1>4. row \in Row /\ row.scan = rows[r].scan
  <2>1. rows[r] \in Row /\ writers[w] \in Writer BY UnderWay, <1>1 DEF Inv, STypeOK, Row
  <2> QED BY <2>1 DEF Row, Writer, Upserted
<1> HIDE DEF row
<1>5. /\ rows' \in [Rels -> Row] /\ rows'[r].scan = rows[r].scan
      /\ \A q \in Rels \ {r} : rows'[q] = rows[q]
  BY <1>3, <1>4 DEF Inv, STypeOK, Row
<1>6. /\ disk' \in [Vols -> [Rels -> 0..MaxVersion]] /\ newest' \in [Rels -> 0..MaxVersion]
      /\ kept' \subseteq kept /\ \A c \in kept' : disk'[c[1]][c[2]] # 0
  BY <1>3 DEF Inv, STypeOK, Index
<1>7. \A q \in Rels \ {r} : /\ rows'[q] = rows[q]
                            /\ \A u \in Vols : /\ disk'[u][q] = disk[u][q]
                                               /\ <<u, q>> \in kept => <<u, q>> \in kept'
  BY <1>3, <1>5
<1>8. IdleWriter \in Writer /\ WriterOK(IdleWriter) /\ IdleWriter.rel \in {r, None} BY NewWriter
<1> QED BY <1>3, <1>5, <1>6, <1>7, <1>8, WriteTouches
-----------------------------------------------------------------------------
(* Steps of the walk.                                                      *)

\* While it walks, a trusted attempt has walked some set of entries.
LEMMA HasWalked ==
  ASSUME Inv, Trusted, scan.pc \in {"walk", "look", "mark"}
  PROVE  \E S \in SUBSET Entries : Walked(S)
BY DEF Inv, Progress, Running

\* A step inside a volume keeps the invariant of the scan's progress if it tells
\* what it has walked then, and that what it records is true.
LEMMA WalkKeepsProgress ==
  ASSUME Inv, scan.pc \in {"walk", "look", "mark"}, scan'.pc \in {"walk", "look", "mark"},
         scan'.vol = scan.vol, scan'.only = scan.only, scan'.resume = scan.resume,
         scan'.skip \in {None, scan.skip}, job'.id = job.id, job'.tries = job.tries, kept' = kept,
         \A r \in Rels : Seen(r) => Seen(r)',
         OrdersAgree => SeenUpTo(job.progress)',
         Trusted => \E S \in SUBSET Entries : Walked(S)'
  PROVE  Progress'
<1>1. Trusted' <=> Trusted BY DEF Trusted
<1>2. \A v : SeenOn(v) => SeenOn(v)' BY DEF SeenOn
<1>3. SeenUpTo(scan.resume) => SeenUpTo(scan.resume)' BY DEF SeenUpTo
<1>4. Running BY DEF Running
<1>5. job.tries <= 1 => scan.resume = Nowhere /\ scan.skip = None BY DEF Inv, Progress
<1>6. Trusted => /\ SeenUpTo(scan.resume)
                 /\ scan.skip \in {None, scan.resume.last}
                 /\ scan.skip # None => scan.resume.vol = scan.vol
                 /\ scan.only = 0 => \A v \in Vols : v < scan.vol => SeenOn(v)
  BY <1>4 DEF Inv, Progress
<1>7. job'.tries <= 1 => scan'.resume = Nowhere /\ scan'.skip = None BY <1>5
<1>8. Trusted' => /\ SeenUpTo(scan.resume)'
                  /\ scan'.skip \in {None, scan'.resume.last}
                  /\ scan'.skip # None => scan'.resume.vol = scan'.vol
                  /\ scan'.only = 0 => \A v \in Vols : v < scan'.vol => SeenOn(v)'
                  /\ \E S \in SUBSET Entries : Walked(S)'
  BY <1>1, <1>2, <1>3, <1>6
<1>9. scan'.pc # "finalize" OBVIOUS
<1> QED BY <1>7, <1>8, <1>9 DEF Progress

\* A step that leaves the index and the disk alone, and has no file in hand after it.
LEMMA IndexKept ==
  ASSUME Index, UNCHANGED <<disk, rows, writers, kept, calm>>, job'.id = job.id,
         scan'.pc \notin {"look", "mark"}
  PROVE  Index'
<1>1. \A r \in calm : Seen(r)' => Tells(rows[r], r)' BY DEF Index, Seen, Tells
<1> QED BY <1>1 DEF Index, AtFile

\* The walk is past a file: it was the next one, and this job has seen it if it is
\* one that lasts.
LEMMA PastFile ==
  ASSUME STypeOK, NEW S \in SUBSET Entries, Walked(S), NEW r \in Rels, r \in scan.todo,
         \A f \in scan.todo : WalkRank[r] <= WalkRank[f],
         scan'.todo = scan.todo \ {r}, scan'.vol = scan.vol, scan'.last \in {scan.last, r},
         kept' = kept, Lasting(r) => Seen(r)', \A q \in Rels : Seen(q) => Seen(q)'
  PROVE  \E T \in SUBSET Entries : Walked(T)'
<1> DEFINE T == S \cup {r}
<1>0. T \in SUBSET Entries BY Facts
<1>1. Root \in S BY Facts DEF Walked
<1>2. \A e : Lasting(e)' <=> Lasting(e) BY DEF Lasting
<1>3. \A e \in Entries \ {Root} : Parent[e] \in T /\ Lasting(e) => e \in T \cup scan'.todo
  <2> SUFFICES ASSUME NEW e \in Entries \ {Root}, Parent[e] \in T, Lasting(e)
               PROVE  e \in T \cup scan'.todo
    OBVIOUS
  <2>1. Parent[e] \in S BY Facts
  <2> QED BY <2>1 DEF Walked
<1>4. \A e \in T, f \in scan'.todo : WalkRank[e] < WalkRank[f]
  <2> SUFFICES ASSUME NEW e \in T, NEW f \in scan'.todo PROVE WalkRank[e] < WalkRank[f] OBVIOUS
  <2>1. CASE e \in S BY <2>1 DEF Walked
  <2>2. CASE e = r
    <3>1. f \in Entries /\ r \in Entries /\ f # r /\ WalkRank[r] <= WalkRank[f] BY Facts DEF STypeOK
    <3>2. WalkRank[f] \in Nat /\ WalkRank[r] \in Nat /\ WalkRank[f] # WalkRank[r] BY <3>1, Facts
    <3> QED BY <2>2, <3>1, <3>2
  <2> QED BY <2>1, <2>2
<1>5. \A q \in T \cap Rels : Lasting(q) => Seen(q)' BY DEF Walked
<1>6. scan'.last # None => scan'.last \in T BY DEF Walked
<1>7. Walked(T)'
  BY <1>1, <1>2, <1>3, <1>4, <1>5, <1>6 DEF Walked
<1> QED BY <1>0, <1>7

LEMMA ScanTyped ==
  ASSUME Inv
  PROVE  /\ scan \in ScanRec /\ job.id \in 0..MaxScans /\ job.tries \in 0..MaxAttempts
         /\ job.progress \in Place /\ scan.resume \in Place /\ scan.todo \subseteq Entries
         /\ job \in [id : 0..MaxScans, tries : 0..MaxAttempts, progress : Place]
BY DEF Inv, STypeOK, ScanRec, Place

LEMMA OpenDirStep == ASSUME Inv, NEW d \in Dirs, OpenDir(d) PROVE Inv'
<1> DEFINE X == (scan.todo \ {d}) \cup
                  {e \in Entries \ {Root} : Parent[e] = d /\ (e \in Rels => disk[scan.vol][e] # 0)}
           n == [scan EXCEPT !.todo = X]
<1>1. X \subseteq Entries BY ScanTyped
<1>2. /\ scan.pc = "walk" /\ d \in scan.todo /\ \A f \in scan.todo : WalkRank[d] <= WalkRank[f]
      /\ scan' = n /\ UNCHANGED <<disk, newest, rows, writers, job, cancels, kept, calm>>
  BY DEF OpenDir, Due
<1>3. PICK Y \in SUBSET Entries : Y = X BY <1>1
<1>4. /\ scan' = [scan EXCEPT !.todo = Y] BY <1>2, <1>3
<1>5. /\ scan' \in ScanRec /\ scan'.pc = "walk" /\ scan'.todo = Y /\ scan'.vol = scan.vol
      /\ scan'.only = scan.only /\ scan'.resume = scan.resume /\ scan'.skip = scan.skip
      /\ scan'.last = scan.last
  BY <1>2, <1>4, ScanTyped DEF ScanRec
<1>6. STypeOK' BY <1>2, <1>5 DEF Inv, STypeOK, ScanRec
<1>7. Placed' BY <1>2, <1>5 DEF Inv, Placed, Running, AtFile
<1>8. Index' BY <1>2, <1>5, IndexKept DEF Inv
<1>9. ASSUME Trusted PROVE \E S \in SUBSET Entries : Walked(S)'
  <2>1. PICK S \in SUBSET Entries : Walked(S) BY <1>2, <1>9, HasWalked
  <2> DEFINE T == S \cup {d}
  <2>2. T \in SUBSET Entries BY Facts
  <2>3. \A e : Lasting(e)' <=> Lasting(e) BY <1>2, <1>5 DEF Lasting
  <2>4. Root \in T BY <1>2, <2>1 DEF Walked
  <2>5. ASSUME NEW e \in Entries \ {Root}, Parent[e] \in T, Lasting(e) PROVE e \in T \cup Y
    <3>1. CASE Parent[e] = d
      <4>1. e \in Rels => disk[scan.vol][e] # 0
        <5> SUFFICES ASSUME e \in Rels PROVE disk[scan.vol][e] # 0 OBVIOUS
        <5>1. <<scan.vol, e>> \in kept BY <2>5, Facts DEF Lasting
        <5>2. \A c \in kept : disk[c[1]][c[2]] # 0 BY DEF Inv, Index
        <5> QED BY <5>1, <5>2
      <4> QED BY <1>3, <3>1, <4>1
    <3>2. CASE Parent[e] \in S
      <4>1. e \in S \cup scan.todo BY <2>1, <2>5, <3>2 DEF Walked
      <4> QED BY <1>3, <4>1
    <3> QED BY <2>5, <3>1, <3>2
  <2>6. ASSUME NEW e \in T, NEW f \in Y PROVE WalkRank[e] < WalkRank[f]
    <3>1. d \in Entries /\ e \in Entries /\ f \in Entries BY Facts
    <3>2. WalkRank[d] \in Nat /\ WalkRank[e] \in Nat /\ WalkRank[f] \in Nat BY <3>1, Facts
    <3>3. WalkRank[e] <= WalkRank[d] BY <1>2, <2>1, <3>2 DEF Walked
    <3>4. CASE f \in scan.todo /\ f # d
      <4>1. e \in S => WalkRank[e] < WalkRank[f] BY <2>1, <3>4 DEF Walked
      <4>2. WalkRank[d] <= WalkRank[f] /\ WalkRank[d] # WalkRank[f] BY <1>2, <3>1, <3>4, Facts
      <4> QED BY <3>2, <4>1, <4>2
    <3>5. CASE f \in Entries \ {Root} /\ Parent[f] = d
      <4>1. WalkRank[d] < WalkRank[f] BY <3>5, Facts
      <4> QED BY <3>2, <3>3, <4>1
    <3> QED BY <1>3, <3>4, <3>5
  <2>7. \A q \in T \cap Rels : Lasting(q) => Seen(q)' BY <1>2, <2>1, Facts DEF Walked, Seen
  <2>8. scan'.last # None => scan'.last \in T BY <1>5, <2>1 DEF Walked
  <2>9. Walked(T)' BY <1>5, <2>3, <2>4, <2>5, <2>6, <2>7, <2>8 DEF Walked
  <2> QED BY <2>2, <2>9
<1>10. \A r \in Rels : Seen(r) => Seen(r)' BY <1>2 DEF Seen
<1>11. OrdersAgree => SeenUpTo(job.progress)'
  <2>1. OrdersAgree => SeenUpTo(job.progress) BY <1>2 DEF Inv, Progress
  <2> QED BY <1>2, <1>10, <2>1 DEF SeenUpTo
<1>12. Progress' BY <1>2, <1>5, <1>9, <1>10, <1>11, WalkKeepsProgress
<1> QED BY <1>6, <1>7, <1>8, <1>12 DEF Inv
\* What is before a place the walk has been at, and lasts, has been seen.
LEMMA BehindIsSeen ==
  ASSUME STypeOK, NEW S \in SUBSET Entries, Walked(S), OrdersAgree PROVE SeenUpTo(Reached)
<1> SUFFICES ASSUME scan.last # None, NEW r \in Rels, <<scan.vol, r>> \in kept,
                    StringRank[r] <= StringRank[scan.last]
             PROVE  Seen(r)
  BY DEF SeenUpTo, Reached
<1>1. scan.last \in S /\ scan.last \in Rels /\ Lasting(r) /\ r \in Entries
  BY Facts DEF Walked, STypeOK, Lasting
<1>2. WalkRank[r] <= WalkRank[scan.last] BY <1>1 DEF OrdersAgree
<1>3. r \in S
  <2> SUFFICES ASSUME r \notin S PROVE FALSE OBVIOUS
  <2>1. PICK f \in scan.todo : WalkRank[f] <= WalkRank[r] BY <1>1, Frontier
  <2>2. WalkRank[scan.last] < WalkRank[f] BY <1>1 DEF Walked
  <2>3. WalkRank[f] \in Nat /\ WalkRank[r] \in Nat /\ WalkRank[scan.last] \in Nat
    BY <1>1, Facts DEF STypeOK
  <2> QED BY <1>2, <2>1, <2>2, <2>3
<1> QED BY <1>1, <1>3 DEF Walked

\* A heartbeat records where the walk is.
LEMMA RecordsReached ==
  ASSUME Inv, OrdersAgree, scan.pc \in {"walk", "look", "mark"},
         job' = [job EXCEPT !.progress = Reached] \/ job' = job,
         kept' = kept, \A r \in Rels : Seen(r) => Seen(r)'
  PROVE  SeenUpTo(job.progress)'
<1>1. PICK S \in SUBSET Entries : Walked(S) BY HasWalked DEF Trusted
<1>2. SeenUpTo(Reached) BY <1>1, BehindIsSeen DEF Inv
<1>3. CASE job' = [job EXCEPT !.progress = Reached]
  <2>1. job'.progress = Reached BY <1>3, ScanTyped
  <2>2. PICK p : p = Reached OBVIOUS
  <2>3. SeenUpTo(p)' BY <1>2, <2>2 DEF SeenUpTo
  <2> QED BY <2>1, <2>2, <2>3 DEF SeenUpTo
<1>4. CASE job' = job
  <2>1. SeenUpTo(job.progress) BY DEF Inv, Progress
  <2> QED BY <1>4, <2>1 DEF SeenUpTo
<1> QED BY <1>3, <1>4

LEMMA HeartbeatJob ==
  ASSUME Inv, job' = [job EXCEPT !.progress = Reached] \/ job' = job
  PROVE  /\ job' \in [id : 0..MaxScans, tries : 0..MaxAttempts, progress : Place]
         /\ job'.id = job.id /\ job'.tries = job.tries
<1>1. Reached \in Place BY ScanTyped DEF Reached, Place, ScanRec
<1> HIDE DEF Reached
<1> QED BY <1>1, ScanTyped

\* The walk passes over the file r, which is next: what the invariant asks of the rest.
LEMMA PassesOver ==
  ASSUME Inv, NEW r \in Rels, Due(r), UNCHANGED <<disk, newest, rows, writers, kept, calm, cancels>>,
         job' = [job EXCEPT !.progress = Reached] \/ job' = job,
         NEW k \in {None, scan.skip}, scan' = [scan EXCEPT !.skip = k, !.todo = @ \ {r}],
         Trusted /\ Lasting(r) => Seen(r)
  PROVE  Inv'
<1>1. scan.pc = "walk" /\ r \in scan.todo /\ \A f \in scan.todo : WalkRank[r] <= WalkRank[f]
  BY DEF Due
<1>2. PICK Y \in SUBSET Entries : Y = scan.todo \ {r} BY ScanTyped
<1>3. k \in Rels \cup {None} BY ScanTyped DEF ScanRec
<1>4. /\ scan' \in ScanRec /\ scan'.pc = "walk" /\ scan'.todo = Y /\ scan'.vol = scan.vol
      /\ scan'.only = scan.only /\ scan'.resume = scan.resume /\ scan'.skip = k
      /\ scan'.last = scan.last
  <2>1. scan' = [scan EXCEPT !.skip = k, !.todo = Y] BY <1>2
  <2> QED BY <1>1, <1>3, <2>1, ScanTyped DEF ScanRec
<1>5. /\ job' \in [id : 0..MaxScans, tries : 0..MaxAttempts, progress : Place]
      /\ job'.id = job.id /\ job'.tries = job.tries
  BY HeartbeatJob
<1>6. STypeOK' BY <1>4, <1>5 DEF Inv, STypeOK, ScanRec, Place
<1>7. Placed' BY <1>1, <1>4, <1>5 DEF Inv, Placed, Running, AtFile
<1>8. Index' BY <1>4, <1>5, IndexKept DEF Inv
<1>9. \A q \in Rels : Seen(q) => Seen(q)' BY <1>5 DEF Seen
<1>10. ASSUME Trusted PROVE \E T \in SUBSET Entries : Walked(T)'
  <2>1. PICK S \in SUBSET Entries : Walked(S) BY <1>1, <1>10, HasWalked
  <2>2. Lasting(r) => Seen(r)' BY <1>9, <1>10
  <2>3. STypeOK BY DEF Inv
  <2>4. scan'.todo = scan.todo \ {r} /\ scan'.last \in {scan.last, r} BY <1>2, <1>4
  <2> QED BY <1>1, <1>4, <1>9, <2>1, <2>2, <2>3, <2>4, PastFile
<1>11. OrdersAgree => SeenUpTo(job.progress)' BY <1>1, <1>9, RecordsReached
<1>12. Progress' BY <1>1, <1>4, <1>5, <1>9, <1>10, <1>11, WalkKeepsProgress
<1> QED BY <1>6, <1>7, <1>8, <1>12 DEF Inv

LEMMA SkipStep == ASSUME Inv, NEW r \in Rels, Skip(r) PROVE Inv'
<1>1. Due(r) /\ Skipped(r) /\ UNCHANGED <<disk, newest, rows, writers, kept, calm, cancels, job>>
  BY DEF Skip
<1>2. scan' = [scan EXCEPT !.skip = scan.skip, !.todo = @ \ {r}]
  BY ScanTyped DEF Skip, ScanRec
<1>3. ASSUME Trusted, Lasting(r) PROVE Seen(r)
  <2>1. /\ SeenUpTo(scan.resume) /\ scan.skip = scan.resume.last /\ scan.resume.vol = scan.vol
        /\ scan.skip # None
    BY <1>1, <1>3 DEF Inv, Progress, Running, Due, Skipped
  <2>2. <<scan.vol, r>> \in kept BY <1>3, Facts DEF Lasting
  <2> QED BY <1>1, <2>1, <2>2 DEF SeenUpTo, Skipped
<1> QED BY <1>1, <1>2, <1>3, PassesOver

LEMMA CancelledStep == ASSUME Inv, NEW r \in Rels, Cancelled(r) PROVE Inv'
<1>1. /\ scan' = NoScan /\ cancels' = cancels + 1 /\ cancels < MaxCancels
      /\ UNCHANGED <<disk, newest, rows, writers, kept, calm, job>>
  BY DEF Cancelled
<1>2. NoScan \in ScanRec /\ NoScan.pc = "idle" /\ NoScan.resume = Nowhere /\ NoScan.skip = None
  BY Facts DEF NoScan, ScanRec, Nowhere
<1>3. STypeOK' BY <1>1, <1>2, Facts DEF Inv, STypeOK, ScanRec
<1>4. Placed' BY <1>1, <1>2 DEF Inv, Placed, Running, AtFile
<1>5. Progress' BY <1>1, <1>2 DEF Progress, Running
<1>6. Index' BY <1>1, <1>2, IndexKept DEF Inv
<1> QED BY <1>3, <1>4, <1>5, <1>6 DEF Inv
LEMMA StatStep == ASSUME Inv, NEW r \in Rels, Stat(r) PROVE Inv'
<1>1. /\ Due(r) /\ UNCHANGED <<disk, newest, rows, writers, kept, calm, cancels>>
      /\ job' = [job EXCEPT !.progress = Reached] \/ job' = job
  BY DEF Stat, Heartbeat
<1>2. CASE disk[scan.vol][r] = 0
  <2>1. scan' = [scan EXCEPT !.skip = None, !.todo = @ \ {r}] BY <1>2 DEF Stat
  <2>2. ~ Lasting(r)
    <3> SUFFICES ASSUME Lasting(r) PROVE FALSE OBVIOUS
    <3>1. <<scan.vol, r>> \in kept BY Facts DEF Lasting
    <3>2. \A c \in kept : disk[c[1]][c[2]] # 0 BY DEF Inv, Index
    <3> QED BY <1>2, <3>1, <3>2
  <2>3. None \in {None, scan.skip} OBVIOUS
  <2> QED BY <1>1, <2>1, <2>2, <2>3, PassesOver
<1>3. CASE disk[scan.vol][r] # 0
  <2>1. scan.pc = "walk" /\ r \in scan.todo /\ \A f \in scan.todo : WalkRank[r] <= WalkRank[f]
    BY <1>1 DEF Due
  <2>2. PICK x : x = disk[scan.vol][r] OBVIOUS
  <2>3. scan' = [scan EXCEPT !.skip = None, !.pc = "look", !.cur = r, !.ver = x]
    BY <1>3, <2>2 DEF Stat
  <2>4. scan.vol \in Vols BY <2>1 DEF Inv, Placed, Running
  <2>5. x \in 0..MaxVersion /\ x # 0 BY <1>3, <2>2, <2>4 DEF Inv, STypeOK
  <2>6. /\ scan' \in ScanRec /\ scan'.pc = "look" /\ scan'.todo = scan.todo /\ scan'.vol = scan.vol
        /\ scan'.only = scan.only /\ scan'.resume = scan.resume /\ scan'.skip = None
        /\ scan'.last = scan.last /\ scan'.cur = r /\ scan'.ver = x
    BY <2>3, <2>5, ScanTyped DEF ScanRec
  <2>7. /\ job' \in [id : 0..MaxScans, tries : 0..MaxAttempts, progress : Place]
        /\ job'.id = job.id /\ job'.tries = job.tries
    BY <1>1, HeartbeatJob
  <2>8. STypeOK' BY <1>1, <2>6, <2>7 DEF Inv, STypeOK, ScanRec, Place
  <2>9. Placed'
    <3>1. /\ \A w \in Writers : WriterOK(writers[w])
          /\ job.id > 0 /\ job.tries > 0 /\ \A q \in Rels : rows[q].scan <= job.id
          /\ scan.vol \in Vols /\ scan.only \in {0, scan.vol}
      BY <2>1 DEF Inv, Placed, Running
    <3> QED BY <1>1, <2>1, <2>5, <2>6, <2>7, <3>1 DEF Placed, Running, AtFile
  <2>10. \A q \in Rels : Seen(q) => Seen(q)' BY <1>1, <2>7 DEF Seen
  <2>11. Index'
    <3>1. \A q \in calm : Seen(q)' => Tells(rows[q], q)'
      BY <1>1, <2>7 DEF Inv, Index, Seen, Tells
    <3>2. disk'[scan'.vol][scan'.cur] = scan'.ver BY <1>1, <2>2, <2>6
    <3> QED BY <1>1, <2>6, <3>1, <3>2 DEF Inv, Index, AtFile
  <2>12. ASSUME Trusted PROVE \E S \in SUBSET Entries : Walked(S)'
    <3>1. PICK S \in SUBSET Entries : Walked(S) BY <2>1, <2>12, HasWalked
    <3>2. \A e : Lasting(e)' <=> Lasting(e) BY <1>1, <2>6 DEF Lasting
    <3>3. Walked(S)' BY <2>6, <2>10, <3>1, <3>2 DEF Walked
    <3> QED BY <3>3
  <2>13. OrdersAgree => SeenUpTo(job.progress)' BY <1>1, <2>1, <2>10, RecordsReached
  <2>14. Progress' BY <1>1, <2>1, <2>6, <2>7, <2>10, <2>12, <2>13, WalkKeepsProgress
  <2> QED BY <2>8, <2>9, <2>11, <2>14 DEF Inv
<1> QED BY <1>2, <1>3

LEMMA LookStep == ASSUME Inv, Look PROVE Inv'
<1>1. /\ scan.pc = "look" /\ UNCHANGED <<disk, newest, rows, writers, job, kept, calm, cancels>>
      /\ scan' = [scan EXCEPT !.pc = "mark", !.drifted = Drifted(rows[scan.cur])]
  BY DEF Look
<1>2. PICK b \in BOOLEAN : b = Drifted(rows[scan.cur]) BY DEF Drifted
<1>3. /\ scan' \in ScanRec /\ scan'.pc = "mark" /\ scan'.todo = scan.todo /\ scan'.vol = scan.vol
      /\ scan'.only = scan.only /\ scan'.resume = scan.resume /\ scan'.skip = scan.skip
      /\ scan'.last = scan.last /\ scan'.cur = scan.cur /\ scan'.ver = scan.ver /\ scan'.drifted = b
  <2>1. scan' = [scan EXCEPT !.pc = "mark", !.drifted = b] BY <1>1, <1>2
  <2> QED BY <2>1, ScanTyped DEF ScanRec
<1>4. STypeOK' BY <1>1, <1>3 DEF Inv, STypeOK, ScanRec
<1>5. Placed' BY <1>1, <1>3 DEF Inv, Placed, Running, AtFile
<1>6. \A q \in Rels : Seen(q) => Seen(q)' BY <1>1 DEF Seen
<1>7. Index'
  <2>1. \A q \in calm : Seen(q)' => Tells(rows[q], q)' BY <1>1 DEF Inv, Index, Seen, Tells
  <2>2. scan.cur \in calm => disk[scan.vol][scan.cur] = scan.ver BY <1>1 DEF Inv, Index, AtFile
  <2>3. Drifted(rows[scan.cur])' = b BY <1>1, <1>2, <1>3 DEF Drifted
  <2> QED BY <1>1, <1>3, <2>1, <2>2, <2>3 DEF Inv, Index, AtFile
<1>8. ASSUME Trusted PROVE \E S \in SUBSET Entries : Walked(S)'
  <2>1. PICK S \in SUBSET Entries : Walked(S) BY <1>1, <1>8, HasWalked
  <2>2. \A e : Lasting(e)' <=> Lasting(e) BY <1>1, <1>3 DEF Lasting
  <2>3. Walked(S)' BY <1>3, <1>6, <2>1, <2>2 DEF Walked
  <2> QED BY <2>3
<1>9. OrdersAgree => SeenUpTo(job.progress)' BY <1>1, <1>6, RecordsReached
<1>10. Progress' BY <1>1, <1>3, <1>6, <1>8, <1>9, WalkKeepsProgress
<1> QED BY <1>4, <1>5, <1>7, <1>10 DEF Inv

LEMMA MarkStep == ASSUME Inv, Mark PROVE Inv'
<1>1. /\ scan.pc = "mark" /\ UNCHANGED <<disk, newest, writers, job, kept, calm, cancels>>
      /\ scan' = Passed
  BY DEF Mark
<1>2. /\ scan.cur \in Rels /\ scan.cur \in scan.todo /\ scan.ver # 0
      /\ \A f \in scan.todo : WalkRank[scan.cur] <= WalkRank[f]
      /\ job.id > 0 /\ job.tries > 0 /\ scan.vol \in Vols /\ scan.only \in {0, scan.vol}
  BY <1>1 DEF Inv, Placed, Running, AtFile
<1>3. PICK r \in Rels : r = scan.cur BY <1>2
<1>4. PICK Y \in SUBSET Entries : Y = scan.todo \ {r} BY ScanTyped
<1>5. /\ scan' \in ScanRec /\ scan'.pc = "walk" /\ scan'.todo = Y /\ scan'.vol = scan.vol
      /\ scan'.only = scan.only /\ scan'.resume = scan.resume /\ scan'.skip = scan.skip
      /\ scan'.last = r
  <2>1. scan' = [scan EXCEPT !.pc = "walk", !.todo = Y, !.last = r, !.cur = None, !.ver = 0,
                             !.drifted = FALSE]
    BY <1>1, <1>3, <1>4 DEF Passed
  <2>2. 0 \in 0..MaxVersion BY Facts
  <2> QED BY <2>1, <2>2, ScanTyped DEF ScanRec
<1> DEFINE row == IF scan.drifted THEN Upserted(rows[r], scan.ver, scan.vol, job.id)
                  ELSE [rows[r] EXCEPT !.scan = job.id]
<1>6. rows' = [rows EXCEPT ![r] = row] BY <1>3 DEF Mark, Inv, STypeOK
<1>7. /\ row \in Row /\ row.scan = job.id
      /\ scan.drifted => row.status = "active" /\ row.ver = scan.ver /\ row.vol = scan.vol
      /\ ~ scan.drifted => row.status = rows[r].status /\ row.ver = rows[r].ver /\ row.vol = rows[r].vol
  <2>1. rows[r] \in Row BY DEF Inv, STypeOK, Row
  <2>2. scan.ver \in 0..MaxVersion /\ scan.vol \in 0..NVols /\ job.id \in 0..MaxScans
    BY ScanTyped DEF ScanRec
  <2> QED BY <1>2, <2>1, <2>2 DEF Row, Upserted
<1> HIDE DEF row
<1>8. /\ rows' \in [Rels -> Row] /\ rows'[r] = row
      /\ \A q \in Rels \ {r} : rows'[q] = rows[q]
  BY <1>6, <1>7 DEF Inv, STypeOK, Row
<1>9. STypeOK' BY <1>1, <1>5, <1>8 DEF Inv, STypeOK, ScanRec, Row
<1>10. \A q \in Rels : (Seen(q) => Seen(q)') /\ rows'[q].scan <= job.id
  <2>1. \A q \in Rels : rows[q].scan <= job.id BY DEF Inv, Placed
  <2>2. job.id <= job.id BY ScanTyped
  <2> QED BY <1>1, <1>7, <1>8, <2>1, <2>2 DEF Seen
<1>11. Placed'
  <2>1. \A w \in Writers : WriterOK(writers[w]) BY DEF Inv, Placed
  <2> QED BY <1>1, <1>2, <1>5, <1>10, <2>1 DEF Placed, Running, AtFile
<1>12. Index'
  <2>1. ASSUME NEW q \in calm, Seen(q)' PROVE Tells(rows[q], q)'
    <3>1. q \in Rels BY DEF Inv, STypeOK
    <3>2. CASE q # r
      <4>1. rows'[q] = rows[q] /\ Seen(q) BY <1>1, <1>8, <2>1, <3>1, <3>2 DEF Seen
      <4>2. Tells(rows[q], q) BY <4>1 DEF Inv, Index
      <4> QED BY <1>1, <4>1, <4>2 DEF Tells
    <3>3. CASE q = r
      <4>1. disk[scan.vol][r] = scan.ver /\ scan.drifted = Drifted(rows[r])
        BY <1>1, <1>3, <2>1, <3>3 DEF Inv, Index, AtFile
      <4>2. row.status = "active" /\ row.ver = scan.ver /\ row.vol = scan.vol
        BY <1>7, <4>1 DEF Drifted
      <4>3. disk'[scan.vol][r] = scan.ver BY <1>1, <4>1
      <4> QED BY <1>2, <1>8, <3>3, <4>2, <4>3 DEF Tells
    <3> QED BY <3>2, <3>3
  <2> QED BY <1>1, <1>5, <2>1 DEF Inv, Index, AtFile
<1>13. ASSUME Trusted PROVE \E T \in SUBSET Entries : Walked(T)'
  <2>1. PICK S \in SUBSET Entries : Walked(S) BY <1>1, <1>13, HasWalked
  <2>2. Seen(r)' BY <1>1, <1>7, <1>8 DEF Seen
  <2>3. STypeOK BY DEF Inv
  <2>4. /\ r \in scan.todo /\ \A f \in scan.todo : WalkRank[r] <= WalkRank[f]
        /\ scan'.todo = scan.todo \ {r} /\ scan'.last \in {scan.last, r}
        /\ scan'.vol = scan.vol /\ kept' = kept
    BY <1>1, <1>2, <1>3, <1>4, <1>5
  <2> QED BY <1>10, <2>1, <2>2, <2>3, <2>4, PastFile
<1>14. OrdersAgree => SeenUpTo(job.progress)' BY <1>1, <1>10, RecordsReached
<1>15. Progress' BY <1>1, <1>5, <1>10, <1>13, <1>14, WalkKeepsProgress
<1> QED BY <1>9, <1>11, <1>12, <1>15 DEF Inv
-----------------------------------------------------------------------------
(* Where a walk starts and ends.                                           *)

LEMMA EnterIs ==
  ASSUME NEW s \in ScanRec, NEW v \in Vols
  PROVE  /\ Enter(s, v) \in ScanRec /\ Enter(s, v).pc = "walk" /\ Enter(s, v).vol = v
         /\ Enter(s, v).only = s.only /\ Enter(s, v).resume = s.resume
         /\ Enter(s, v).todo = {Root} /\ Enter(s, v).last = None
         /\ Enter(s, v).skip \in {None, s.resume.last}
         /\ Enter(s, v).skip # None => s.resume.vol = v /\ Enter(s, v).skip = s.resume.last
<1>1. PICK k : k = IF s.resume.vol = v THEN s.resume.last ELSE None OBVIOUS
<1>2. k \in {None, s.resume.last} /\ (k # None => s.resume.vol = v) BY <1>1
<1>3. s.resume.last \in Rels \cup {None} BY DEF ScanRec
<1>4. {Root} \in SUBSET Entries /\ v \in 0..NVols BY Facts
<1>5. Enter(s, v) = [s EXCEPT !.pc = "walk", !.vol = v, !.todo = {Root}, !.last = None, !.skip = k]
  BY <1>1 DEF Enter
<1> QED BY <1>2, <1>3, <1>4, <1>5 DEF ScanRec

LEMMA NoScanIs ==
  /\ NoScan \in ScanRec /\ NoScan.pc = "idle" /\ NoScan.resume = Nowhere /\ NoScan.skip = None
  /\ Nowhere \in Place /\ Nowhere.last = None
BY Facts DEF NoScan, ScanRec, Nowhere, Place

LEMMA BeginIs ==
  ASSUME NEW only \in 0..NVols, NEW p \in Place
  PROVE  /\ Begin(only, p) \in ScanRec /\ Begin(only, p).pc = "walk"
         /\ Begin(only, p).only = only /\ Begin(only, p).resume = p
         /\ Begin(only, p).todo = {Root} /\ Begin(only, p).last = None
         /\ Begin(only, p).skip \in {None, p.last}
         /\ Begin(only, p).skip # None => p.vol = Begin(only, p).vol
         /\ Begin(only, p).vol \in Vols /\ only \in {0, Begin(only, p).vol}
         /\ only = 0 => Begin(only, p).vol = 1
<1> DEFINE s == [NoScan EXCEPT !.only = only, !.resume = p]
<1>1. PICK v : v = IF only = 0 THEN 1 ELSE only OBVIOUS
<1>2. v \in Vols /\ (only = 0 => v = 1) /\ only \in {0, v} BY <1>1, Facts
<1>3. s \in ScanRec /\ s.only = only /\ s.resume = p BY NoScanIs DEF ScanRec, Place
<1>4. Begin(only, p) = Enter(s, v) BY <1>1 DEF Begin
<1> HIDE DEF s
<1> QED BY <1>2, <1>3, <1>4, EnterIs

\* Nothing of a volume is walked when its walk starts.
LEMMA NothingWalked ==
  ASSUME scan'.todo = {Root}, scan'.last = None PROVE \E S \in SUBSET Entries : Walked(S)'
<1>1. Walked({})' BY DEF Walked
<1>2. {} \in SUBSET Entries OBVIOUS
<1>3. PICK S \in SUBSET Entries : S = {} BY <1>2
<1> QED BY <1>1, <1>3 DEF Walked

LEMMA ScanStartsStep == ASSUME Inv, NEW only \in 0..NVols, ScanStarts(only) PROVE Inv'
<1>1. /\ scan.pc = "idle" /\ job.id < MaxScans
      /\ job' = [id |-> job.id + 1, tries |-> 1, progress |-> Nowhere]
      /\ scan' = Begin(only, Nowhere)
      /\ kept' = {c \in Vols \X Rels : disk[c[1]][c[2]] # 0}
      /\ calm' = {r \in Rels : \A w \in Writers : writers[w].rel # r}
      /\ UNCHANGED <<disk, newest, rows, writers, cancels>>
  BY DEF ScanStarts
<1>2. /\ scan' \in ScanRec /\ scan'.pc = "walk" /\ scan'.only = only /\ scan'.resume = Nowhere
      /\ scan'.todo = {Root} /\ scan'.last = None /\ scan'.skip \in {None, Nowhere.last}
      /\ scan'.vol \in Vols /\ only \in {0, scan'.vol} /\ (only = 0 => scan'.vol = 1)
  BY <1>1, NoScanIs, BeginIs
<1>3. scan'.skip = None BY <1>2, NoScanIs
<1>4. /\ job' \in [id : 0..MaxScans, tries : 0..MaxAttempts, progress : Place]
      /\ job'.id = job.id + 1 /\ job'.tries = 1 /\ job'.progress.last = None
  <2>1. job.id + 1 \in 0..MaxScans /\ 1 \in 0..MaxAttempts BY <1>1, ScanTyped, Facts
  <2> QED BY <1>1, <2>1, NoScanIs
<1>5. STypeOK' BY <1>1, <1>2, <1>4 DEF Inv, STypeOK, ScanRec, Place
<1>6. \A r \in Rels : ~ Seen(r)' /\ rows'[r].scan <= job'.id
  <2> SUFFICES ASSUME NEW r \in Rels PROVE ~ Seen(r)' /\ rows'[r].scan <= job'.id OBVIOUS
  <2>1. rows[r].scan <= job.id /\ rows[r].scan \in Nat /\ job.id \in Nat
    BY ScanTyped, Facts DEF Inv, Placed, STypeOK
  <2> QED BY <1>1, <1>4, <2>1 DEF Seen
<1>7. Placed'
  <2>1. job'.id > 0 /\ job'.tries > 0 BY <1>4, ScanTyped
  <2>2. \A w \in Writers : WriterOK(writers[w]) BY DEF Inv, Placed
  <2> QED BY <1>1, <1>2, <1>6, <2>1, <2>2 DEF Placed, Running, AtFile
<1>8. Progress'
  <2>1. SeenUpTo(job.progress)' BY <1>4 DEF SeenUpTo
  <2>2. SeenUpTo(scan.resume)' BY <1>2, NoScanIs DEF SeenUpTo
  <2>3. \E S \in SUBSET Entries : Walked(S)' BY <1>2, NothingWalked
  <2>4. scan'.only = 0 => \A v \in Vols : v < scan'.vol => SeenOn(v)'
    BY <1>2, Facts
  <2> QED BY <1>2, <1>3, <2>1, <2>2, <2>3, <2>4 DEF Progress
<1>9. Index'
  <2>1. \A c \in kept' : disk'[c[1]][c[2]] # 0 BY <1>1
  <2>2. \A r \in calm', w \in Writers : writers'[w].rel # r BY <1>1
  <2>3. \A r \in calm', v \in Vols : disk'[v][r] # 0 => <<v, r>> \in kept' BY <1>1
  <2>4. \A r \in calm' : ~ Seen(r)' BY <1>1, <1>6
  <2> QED BY <1>2, <2>1, <2>2, <2>3, <2>4 DEF Index, AtFile
<1> QED BY <1>5, <1>7, <1>8, <1>9 DEF Inv

LEMMA CrashStep == ASSUME Inv, Crash PROVE Inv'
<1>1. /\ scan.pc \notin {"idle", "lost"} /\ scan' = [NoScan EXCEPT !.pc = "lost", !.only = scan.only]
      /\ UNCHANGED <<disk, newest, rows, writers, job, cancels, kept, calm>>
  BY DEF Crash
<1>2. /\ scan' \in ScanRec /\ scan'.pc = "lost" /\ scan'.resume = Nowhere /\ scan'.skip = None
  <2>1. scan.only \in 0..NVols BY ScanTyped DEF ScanRec
  <2> QED BY <1>1, <2>1, NoScanIs DEF ScanRec
<1>3. STypeOK' BY <1>1, <1>2 DEF Inv, STypeOK, ScanRec
<1>4. Placed' BY <1>1, <1>2 DEF Inv, Placed, Running, AtFile
<1>5. Progress'
  <2>1. OrdersAgree => SeenUpTo(job.progress) BY <1>1 DEF Inv, Progress
  <2>2. OrdersAgree => SeenUpTo(job.progress)' BY <1>1, <2>1 DEF SeenUpTo, Seen
  <2> QED BY <1>1, <1>2, <2>2 DEF Progress, Running
<1>6. Index' BY <1>1, <1>2, IndexKept DEF Inv
<1> QED BY <1>3, <1>4, <1>5, <1>6 DEF Inv

LEMMA ReclaimedStep == ASSUME Inv, Reclaimed PROVE Inv'
<1>1. scan.pc = "lost" /\ UNCHANGED <<disk, newest, rows, writers, cancels, kept, calm>>
  BY DEF Reclaimed
<1>2. CASE job.tries < MaxAttempts /\ job' = [job EXCEPT !.tries = @ + 1]
           /\ scan' = Begin(scan.only, IF job.progress.last = None THEN Nowhere ELSE job.progress)
  <2>1. PICK p \in Place : p = IF job.progress.last = None THEN Nowhere ELSE job.progress
    BY ScanTyped, NoScanIs
  <2>2. PICK only \in 0..NVols : only = scan.only BY ScanTyped DEF ScanRec
  <2>3. scan' = Begin(only, p) BY <1>2, <2>1, <2>2
  <2>4. /\ scan' \in ScanRec /\ scan'.pc = "walk" /\ scan'.only = only /\ scan'.resume = p
        /\ scan'.todo = {Root} /\ scan'.last = None /\ scan'.skip \in {None, p.last}
        /\ scan'.skip # None => p.vol = scan'.vol
        /\ scan'.vol \in Vols /\ only \in {0, scan'.vol} /\ (only = 0 => scan'.vol = 1)
    BY <2>3, BeginIs
  <2>5. /\ job' \in [id : 0..MaxScans, tries : 0..MaxAttempts, progress : Place]
        /\ job'.id = job.id /\ job'.tries = job.tries + 1 /\ job'.progress = job.progress
    <3>1. job.tries + 1 \in 0..MaxAttempts BY <1>2, ScanTyped, Facts
    <3> QED BY <1>2, <3>1, ScanTyped
  <2>6. job.id > 0 /\ job.tries > 0 BY <1>1 DEF Inv, Placed
  <2>7. job'.tries > 1 BY <2>5, <2>6, ScanTyped
  <2>8. STypeOK' BY <1>1, <2>4, <2>5 DEF Inv, STypeOK, ScanRec, Place
  <2>9. Placed'
    <3>1. job'.id > 0 /\ job'.tries > 0 BY <2>5, <2>6, ScanTyped
    <3>2. /\ \A w \in Writers : WriterOK(writers[w])
          /\ \A r \in Rels : rows[r].scan <= job.id
      BY DEF Inv, Placed
    <3> QED BY <1>1, <2>4, <2>5, <3>1, <3>2 DEF Placed, Running, AtFile
  <2>10. Progress'
    <3>1. OrdersAgree => SeenUpTo(job.progress) BY <1>1 DEF Inv, Progress
    <3>2. OrdersAgree => SeenUpTo(job.progress)' BY <1>1, <2>5, <3>1 DEF SeenUpTo, Seen
    <3>3. OrdersAgree => SeenUpTo(p)
      BY <2>1, <3>1, NoScanIs DEF SeenUpTo
    <3>4. OrdersAgree => SeenUpTo(scan.resume)' BY <1>1, <2>4, <2>5, <3>3 DEF SeenUpTo, Seen
    <3>5. \E S \in SUBSET Entries : Walked(S)' BY <2>4, NothingWalked
    <3>6. scan'.only = 0 => \A v \in Vols : v < scan'.vol => SeenOn(v)' BY <2>4, Facts
    <3>7. Trusted' => OrdersAgree
      <4>1. job'.tries \in Nat BY <2>5, Facts
      <4> QED BY <2>7, <4>1 DEF Trusted
    <3>8. ~ (job'.tries <= 1)
      <4>1. job'.tries \in Nat BY <2>5, Facts
      <4> QED BY <2>7, <4>1
    <3> QED BY <2>4, <3>2, <3>4, <3>5, <3>6, <3>7, <3>8 DEF Progress
  <2>11. Index' BY <1>1, <2>4, <2>5, IndexKept DEF Inv
  <2> QED BY <2>8, <2>9, <2>10, <2>11 DEF Inv
<1>3. CASE scan' = NoScan /\ UNCHANGED job
  <2>1. STypeOK' BY <1>1, <1>3, NoScanIs DEF Inv, STypeOK, ScanRec
  <2>2. Placed' BY <1>1, <1>3, NoScanIs DEF Inv, Placed, Running, AtFile
  <2>3. Progress' BY <1>1, <1>3, NoScanIs DEF Progress, Running
  <2>4. Index' BY <1>1, <1>3, NoScanIs, IndexKept DEF Inv
  <2> QED BY <2>1, <2>2, <2>3, <2>4 DEF Inv
<1> QED BY <1>2, <1>3 DEF Reclaimed
LEMMA VolumeDoneStep == ASSUME Inv, VolumeDone PROVE Inv'
<1>1. /\ scan.pc = "walk" /\ scan.todo = {} /\ job' = [job EXCEPT !.progress = Reached]
      /\ UNCHANGED <<disk, newest, rows, writers, cancels, kept, calm>>
  BY DEF VolumeDone
<1>2. /\ job' \in [id : 0..MaxScans, tries : 0..MaxAttempts, progress : Place]
      /\ job'.id = job.id /\ job'.tries = job.tries
  BY <1>1, HeartbeatJob
<1>3. /\ \A w \in Writers : WriterOK(writers[w])
      /\ job.id > 0 /\ job.tries > 0 /\ \A q \in Rels : rows[q].scan <= job.id
      /\ scan.vol \in Vols /\ scan.only \in {0, scan.vol}
  BY <1>1 DEF Inv, Placed, Running
<1>4. Trusted => SeenOn(scan.vol)
  <2> SUFFICES ASSUME Trusted, NEW r \in Rels, <<scan.vol, r>> \in kept PROVE Seen(r) BY DEF SeenOn
  <2>1. PICK S \in SUBSET Entries : Walked(S) BY <1>1, HasWalked
  <2>2. r \in Entries /\ Lasting(r) BY Facts DEF Lasting
  <2>3. r \in S BY <1>1, <2>1, <2>2, Frontier DEF Inv
  <2> QED BY <2>1, <2>2, <2>3 DEF Walked
<1>5. \A q \in Rels : Seen(q) => Seen(q)' BY <1>1, <1>2 DEF Seen
<1>6. \A v : SeenOn(v) => SeenOn(v)' BY <1>1, <1>5 DEF SeenOn
<1>7. OrdersAgree => SeenUpTo(job.progress)' BY <1>1, <1>5, RecordsReached
<1>8. Trusted' <=> Trusted BY <1>2 DEF Trusted
<1>9. Trusted => SeenUpTo(scan.resume) /\ (scan.only = 0 => \A v \in Vols : v < scan.vol => SeenOn(v))
  BY <1>1 DEF Inv, Progress, Running
<1>10. job.tries <= 1 => scan.resume = Nowhere /\ scan.skip = None BY DEF Inv, Progress
<1>11. \A r \in Rels : rows'[r].scan <= job'.id BY <1>1, <1>2, <1>3
<1>12. CASE LastVolume /\ scan' = [scan EXCEPT !.pc = "finalize"]
  <2>1. /\ scan' \in ScanRec /\ scan'.pc = "finalize" /\ scan'.vol = scan.vol
        /\ scan'.only = scan.only /\ scan'.resume = scan.resume /\ scan'.skip = scan.skip
    BY <1>12, ScanTyped DEF ScanRec
  <2>2. STypeOK' BY <1>1, <1>2, <2>1 DEF Inv, STypeOK, ScanRec, Place
  <2>3. Placed' BY <1>1, <1>2, <1>3, <1>11, <2>1 DEF Placed, Running, AtFile
  <2>4. Progress'
    <3>1. SeenUpTo(scan.resume) => SeenUpTo(scan.resume)' BY <1>1, <1>5, <2>1 DEF SeenUpTo
    <3>2. scan.only = 0 => scan.vol = NVols BY <1>12 DEF LastVolume
    <3>3. Trusted => /\ scan.skip \in {None, scan.resume.last}
                     /\ scan.skip # None => scan.resume.vol = scan.vol
      BY <1>1 DEF Inv, Progress, Running
    <3>4. SeenOn(scan.vol) => SeenOn(scan.vol)' BY <1>6, <2>1 DEF SeenOn
    <3> QED BY <1>2, <1>4, <1>6, <1>7, <1>8, <1>9, <1>10, <2>1, <3>1, <3>2, <3>3, <3>4 DEF Progress
  <2>5. Index' BY <1>1, <1>2, <2>1, IndexKept DEF Inv
  <2> QED BY <2>2, <2>3, <2>4, <2>5 DEF Inv
<1>13. CASE ~ LastVolume /\ scan' = Enter(scan, scan.vol + 1)
  <2>1. PICK u \in Vols : u = scan.vol + 1 /\ scan.only = 0
    <3>1. scan.only = 0 /\ scan.vol # NVols BY <1>13 DEF LastVolume
    <3> QED BY <1>3, <3>1, Facts
  <2>2. scan' = Enter(scan, u) /\ scan \in ScanRec BY <1>13, <2>1, ScanTyped
  <2>3. /\ scan' \in ScanRec /\ scan'.pc = "walk" /\ scan'.vol = u /\ scan'.only = 0
        /\ scan'.resume = scan.resume /\ scan'.todo = {Root} /\ scan'.last = None
        /\ scan'.skip \in {None, scan.resume.last}
        /\ scan'.skip # None => scan.resume.vol = u /\ scan'.skip = scan.resume.last
    BY <2>1, <2>2, EnterIs
  <2>4. STypeOK' BY <1>1, <1>2, <2>3 DEF Inv, STypeOK, ScanRec, Place
  <2>5. Placed' BY <1>1, <1>2, <1>3, <1>11, <2>1, <2>3 DEF Placed, Running, AtFile
  <2>6. Progress'
    <3>1. SeenUpTo(scan.resume) => SeenUpTo(scan.resume)' BY <1>1, <1>5, <2>3 DEF SeenUpTo
    <3>2. \E S \in SUBSET Entries : Walked(S)' BY <2>3, NothingWalked
    <3>3. ASSUME Trusted, NEW v \in Vols, v < u PROVE SeenOn(v)'
      <4>1. v < scan.vol \/ v = scan.vol BY <1>3, <2>1, <3>3, Facts
      <4>2. SeenOn(v) BY <1>4, <1>9, <2>1, <3>3, <4>1
      <4> QED BY <1>6, <4>2
    <3>4. job'.tries <= 1 => scan'.resume = Nowhere /\ scan'.skip = None
      BY <1>2, <1>10, <2>3, NoScanIs
    <3>5. scan'.resume.vol = scan.resume.vol /\ scan'.resume.last = scan.resume.last BY <2>3
    <3> QED BY <1>7, <1>8, <1>9, <2>3, <3>1, <3>2, <3>3, <3>4, <3>5 DEF Progress
  <2>7. Index' BY <1>1, <1>2, <2>3, IndexKept DEF Inv
  <2> QED BY <2>4, <2>5, <2>6, <2>7 DEF Inv
<1> QED BY <1>12, <1>13 DEF VolumeDone

LEMMA FinalizeStep == ASSUME Inv, Finalize PROVE Inv'
<1>1. /\ scan.pc = "finalize" /\ scan' = NoScan
      /\ UNCHANGED <<disk, newest, writers, job, kept, calm, cancels>>
  BY DEF Finalize
<1>2. /\ rows' \in [Rels -> Row]
      /\ \A r \in Rels : rows'[r].scan = rows[r].scan /\ (Seen(r) => rows'[r] = rows[r])
  <2>1. rows \in [Rels -> Row] BY DEF Inv, STypeOK, Row
  <2>2. CASE scan.only # 0 BY <2>1, <2>2 DEF Finalize
  <2>3. CASE scan.only = 0
    <3>1. rows' = [r \in Rels |-> IF rows[r].status = "active" /\ rows[r].scan # job.id
                                  THEN [rows[r] EXCEPT !.status = "missing"] ELSE rows[r]]
      BY <2>3 DEF Finalize
    <3>2. ASSUME NEW r \in Rels
          PROVE  [rows[r] EXCEPT !.status = "missing"] \in Row
                 /\ [rows[r] EXCEPT !.status = "missing"].scan = rows[r].scan
      BY <2>1 DEF Row
    <3> QED BY <2>1, <3>1, <3>2 DEF Seen
  <2> QED BY <2>2, <2>3
<1>3. STypeOK' BY <1>1, <1>2, NoScanIs DEF Inv, STypeOK, ScanRec, Row
<1>4. Placed' BY <1>1, <1>2, NoScanIs DEF Inv, Placed, Running, AtFile
<1>5. Progress' BY <1>1, NoScanIs DEF Progress, Running
<1>6. Index'
  <2>1. ASSUME NEW r \in calm, Seen(r)' PROVE Tells(rows[r], r)'
    <3>1. r \in Rels BY DEF Inv, STypeOK
    <3>2. Seen(r) /\ rows'[r] = rows[r] BY <1>1, <1>2, <2>1, <3>1 DEF Seen
    <3>3. Tells(rows[r], r) BY <3>2 DEF Inv, Index
    <3> QED BY <1>1, <3>2, <3>3 DEF Tells
  <2> QED BY <1>1, <2>1, NoScanIs DEF Inv, Index, AtFile
<1> QED BY <1>3, <1>4, <1>5, <1>6 DEF Inv

LEMMA InitInv == ASSUME Init PROVE Inv
<1>1. /\ 0..1 \subseteq 0..MaxVersion /\ 0 \in 0..MaxVersion /\ 1 \in 0..MaxVersion
      /\ 0 \in 0..NVols /\ 1 \in 0..NVols /\ 0 \in 0..MaxScans /\ 0 \in 0..MaxAttempts
      /\ 0 \in 0..MaxCancels
  BY Facts
<1>2. disk \in [Vols -> [Rels -> 0..MaxVersion]]
  BY <1>1 DEF Init
<1>3. rows \in [Rels -> Row] /\ \A r \in Rels : rows[r].scan = 0
  <2>1. NoRow \in Row /\ NoRow.scan = 0 BY <1>1 DEF NoRow, Row
  <2>2. \A s \in {"active", "missing"} :
          LET row == [status |-> s, ver |-> 1, vol |-> 1, scan |-> 0]
          IN  row \in Row /\ row.scan = 0
    BY <1>1 DEF Row
  <2> QED BY <2>1, <2>2 DEF Init
<1>4. /\ job.id = 0 /\ job.tries = 0 /\ job.progress = Nowhere
      /\ job \in [id : 0..MaxScans, tries : 0..MaxAttempts, progress : Place]
  BY <1>1, NoScanIs DEF Init
<1>5. writers \in [Writers -> Writer] /\ \A w \in Writers : WriterOK(writers[w])
  BY NewWriter DEF Init
<1>6. STypeOK
  BY <1>1, <1>2, <1>3, <1>4, <1>5, NoScanIs DEF Init, STypeOK, Row, Writer, ScanRec, Place
<1>7. Placed BY <1>3, <1>4, <1>5, NoScanIs DEF Init, Placed, Running, AtFile
<1>8. Progress BY NoScanIs DEF Init, Progress, Running
<1>9. Index BY NoScanIs DEF Init, Index, AtFile
<1> QED BY <1>6, <1>7, <1>8, <1>9 DEF Inv

LEMMA Stutter == ASSUME Inv, UNCHANGED vars PROVE Inv'
<1>1. UNCHANGED <<disk, newest, rows, writers, job, scan, cancels, kept, calm>> BY DEF vars
<1>2. STypeOK' BY <1>1 DEF Inv, STypeOK
<1>3. Placed' BY <1>1 DEF Inv, Placed, Running, AtFile
<1>4. Progress' BY <1>1, ProgressKept DEF Inv, Seen
<1>5. Index'
  <2>1. \A r \in calm : Seen(r)' => Tells(rows[r], r)' BY <1>1 DEF Inv, Index, Seen, Tells
  <2>2. Drifted(rows[scan.cur])' = Drifted(rows[scan.cur]) BY <1>1 DEF Drifted
  <2> QED BY <1>1, <2>1, <2>2 DEF Inv, Index, AtFile
<1> QED BY <1>2, <1>3, <1>4, <1>5 DEF Inv

LEMMA NextInv == ASSUME Inv, [Next]_vars PROVE Inv'
<1>1. CASE Write
  BY <1>1, PutStartsStep, DeleteStep, PutLandsStep, PutFailsStep, RecordStep DEF Write
<1>2. CASE Walk
  BY <1>2, OpenDirStep, SkipStep, CancelledStep, StatStep, LookStep, MarkStep, VolumeDoneStep,
     FinalizeStep
  DEF Walk
<1>3. CASE Crash BY <1>3, CrashStep
<1>4. CASE Reclaimed BY <1>4, ReclaimedStep
<1>5. CASE \E only \in 0..NVols : ScanStarts(only) BY <1>5, ScanStartsStep
<1>6. CASE UNCHANGED vars BY <1>6, Stutter
<1> QED BY <1>1, <1>2, <1>3, <1>4, <1>5, <1>6 DEF Next

\* The scan, the writes beside it and the crashes keep the invariant.
THEOREM Invariance == Spec => []Inv
<1>1. Init => Inv BY InitInv
<1>2. Inv /\ [Next]_vars => Inv' BY NextInv
<1> QED BY <1>1, <1>2, PTL DEF Spec
\* Every run keeps the shape of the disk, the index, the job and the walk.
THEOREM TypeCorrect == Spec => []STypeOK
BY Invariance, PTL DEF Inv

\* "Everything up to X is done is a valid statement about a partial pass": whatever
\* was written, deleted, cancelled or lost in between, what the recorded progress
\* lets the next attempt skip has been marked by this job (scanner.js, the heartbeats).
THEOREM ProgressIsSound == ASSUME OrdersAgree PROVE Spec => []ProgressSound
<1>1. Inv => ProgressSound
  <2> SUFFICES ASSUME Inv PROVE ProgressSound OBVIOUS
  <2>1. scan.pc # "idle" => SeenUpTo(job.progress) BY DEF Inv, Progress
  <2> QED BY <2>1 DEF ProgressSound, SeenUpTo, Seen
<1> QED BY <1>1, Invariance, PTL
-----------------------------------------------------------------------------
(* What the final step does.                                               *)

\* When the final step is due, a trusted attempt has seen all that is kept.
LEMMA AllSeen ==
  ASSUME Inv, Trusted, scan.pc = "finalize", scan.only = 0, NEW v \in Vols, NEW r \in Rels,
         <<v, r>> \in kept
  PROVE  Seen(r)
<1>1. SeenOn(scan.vol) /\ scan.vol = NVols /\ \A u \in Vols : u < scan.vol => SeenOn(u)
  BY DEF Inv, Progress, Running
<1>2. v < NVols \/ v = NVols BY Facts
<1> QED BY <1>1, <1>2 DEF SeenOn

\* Only the final step of a full scan marks a file missing, and only one that this
\* scan job has not seen.
LEMMA MarksMissing ==
  ASSUME Inv, [Next]_vars, NEW r \in Rels, rows[r].status = "active", rows'[r].status = "missing"
  PROVE  scan.pc = "finalize" /\ scan.only = 0 /\ ~ Seen(r)
<1>1. rows \in [Rels -> Row] BY DEF Inv, STypeOK, Row
<1>2. rows' # rows OBVIOUS
<1>3. ASSUME NEW w \in Writers, Record(w) PROVE FALSE
  <2>1. PICK q \in Rels : q = writers[w].rel BY <1>3, UnderWay DEF Record
  <2> DEFINE row == IF writers[w].op = "put" THEN Upserted(rows[q], writers[w].ver, writers[w].vol, 0)
                    ELSE IF rows[q] = NoRow THEN rows[q] ELSE [rows[q] EXCEPT !.status = "trashed"]
  <2>2. rows' = [rows EXCEPT ![q] = row] BY <1>1, <1>3, <2>1 DEF Record
  <2>3. rows[q] \in Row BY <1>1
  <2>4. row.status # "missing"
    <3>1. CASE writers[w].op = "put" BY <3>1 DEF Upserted
    <3>2. CASE writers[w].op # "put" /\ rows[q] = NoRow BY <3>2 DEF NoRow
    <3>3. CASE writers[w].op # "put" /\ rows[q] # NoRow BY <2>3, <3>3 DEF Row
    <3> QED BY <3>1, <3>2, <3>3
  <2> HIDE DEF row
  <2> QED BY <1>1, <2>2, <2>4
<1>4. ASSUME Mark PROVE FALSE
  <2>1. PICK q \in Rels : q = scan.cur BY <1>4 DEF Mark, Inv, Placed, Running, AtFile
  <2> DEFINE row == IF scan.drifted THEN Upserted(rows[q], scan.ver, scan.vol, job.id)
                    ELSE [rows[q] EXCEPT !.scan = job.id]
  <2>2. rows' = [rows EXCEPT ![q] = row] BY <1>1, <1>4, <2>1 DEF Mark
  <2>3. rows[q] \in Row BY <1>1
  <2>4. row.status = rows[q].status \/ row.status = "active" BY <2>3 DEF Row, Upserted
  <2> HIDE DEF row
  <2> QED BY <1>1, <2>2, <2>4
<1>5. Finalize
  <2>1. UNCHANGED rows \/ Finalize \/ Mark \/ \E w \in Writers : Record(w)
    BY DEF Next, Write, Walk, PutStarts, Delete, PutLands, PutFails, OpenDir, Skip, Cancelled,
           Stat, Look, VolumeDone, Crash, Reclaimed, ScanStarts, vars
  <2> QED BY <1>2, <1>3, <1>4, <2>1
<1> QED BY <1>2, <1>5 DEF Finalize, Seen

LEMMA NotMarked ==
  ASSUME Inv, [Next]_vars, Trusted, NEW r \in Rels, rows[r].status = "active",
         rows'[r].status = "missing", NEW v \in Vols
  PROVE  <<v, r>> \notin kept
BY MarksMissing, AllSeen

\* "A partial scan never mass-marks files missing": a file with a copy that has been
\* there since the job first started is not marked missing, whatever is written beside
\* the scan, and however often it crashes and resumes.
THEOREM NeverFalse == ASSUME OrdersAgree PROVE Spec => NeverFalselyMissing
<1>1. Inv /\ [Next]_vars =>
        [\A r \in Rels : rows[r].status = "active" /\ rows'[r].status = "missing"
           => \A v \in Vols : <<v, r>> \notin kept]_vars
  BY NotMarked DEF Trusted
<1> QED BY <1>1, Invariance, PTL DEF Spec, NeverFalselyMissing

\* The same of a scan in its first attempt, in a library of any names: it skips nothing.
THEOREM FirstAttemptNeverFalse ==
  Spec => [][job.tries = 1 => \A r \in Rels :
               rows[r].status = "active" /\ rows'[r].status = "missing"
                 => \A v \in Vols : <<v, r>> \notin kept]_vars
<1>1. Inv /\ [Next]_vars =>
        [job.tries = 1 => \A r \in Rels :
           rows[r].status = "active" /\ rows'[r].status = "missing"
             => \A v \in Vols : <<v, r>> \notin kept]_vars
  <2>1. job.tries = 1 => Trusted BY DEF Trusted
  <2> QED BY <2>1, NotMarked
<1> QED BY <1>1, Invariance, PTL DEF Spec

\* What a complete pass leaves of a path nobody has written meanwhile.
LEMMA Settled ==
  ASSUME Inv, [Next]_vars, Trusted, Completes, NEW r \in calm
  PROVE  IF Present(r) THEN /\ rows'[r].status = "active"
                            /\ rows'[r].vol # 0 /\ disk[rows'[r].vol][r] = rows'[r].ver
         ELSE rows'[r].status # "active"
<1>1. r \in Rels BY DEF Inv, STypeOK
<1>2. Finalize
  <2>1. scan.pc = "finalize" /\ scan'.pc = "idle" /\ scan' # scan BY DEF Completes
  <2>2. ~ Crash BY <2>1 DEF Crash, NoScan
  <2> QED BY <2>1, <2>2
       DEF Next, Write, Walk, PutStarts, Delete, PutLands, PutFails, Record, OpenDir, Skip,
           Cancelled, Stat, Look, Mark, VolumeDone, Reclaimed, ScanStarts, Due, vars
<1>3. scan.pc = "finalize" /\ scan.only = 0 BY DEF Completes
<1>4. rows' = [q \in Rels |-> IF rows[q].status = "active" /\ rows[q].scan # job.id
                              THEN [rows[q] EXCEPT !.status = "missing"] ELSE rows[q]]
  BY <1>2, <1>3 DEF Finalize
<1>5. rows[r] \in Row BY <1>1 DEF Inv, STypeOK, Row
<1>6. CASE Present(r)
  <2>1. PICK v \in Vols : disk[v][r] # 0 BY <1>6 DEF Present
  <2>2. <<v, r>> \in kept BY <2>1 DEF Inv, Index
  <2>3. Seen(r) BY <1>1, <1>3, <2>2, AllSeen
  <2>4. Tells(rows[r], r) BY <2>3 DEF Inv, Index
  <2>5. rows'[r] = rows[r] BY <1>1, <1>4, <2>3 DEF Seen
  <2>6. rows[r].vol # 0 BY <2>4, Facts DEF Tells
  <2> QED BY <1>6, <2>4, <2>5, <2>6 DEF Tells
<1>7. CASE ~ Present(r)
  <2>1. ~ Seen(r)
    <3> SUFFICES ASSUME Seen(r) PROVE FALSE OBVIOUS
    <3>1. Tells(rows[r], r) BY DEF Inv, Index
    <3> QED BY <1>7, <3>1 DEF Tells, Present
  <2>2. CASE rows[r].status = "active"
    <3>1. rows'[r] = [rows[r] EXCEPT !.status = "missing"] BY <1>1, <1>4, <2>1, <2>2 DEF Seen
    <3> QED BY <1>5, <1>7, <3>1 DEF Row
  <2>3. CASE rows[r].status # "active" BY <1>1, <1>4, <1>7, <2>3
  <2> QED BY <2>2, <2>3
<1> QED BY <1>6, <1>7

\* A complete scan leaves the index right for every path nobody has written in the
\* meantime: active with the version and volume of a copy, or not active.
THEOREM ScanReconciles == ASSUME OrdersAgree PROVE Spec => Reconciled
<1>1. Inv /\ [Next]_vars =>
        [Completes => \A r \in calm :
           IF Present(r) THEN /\ rows'[r].status = "active"
                              /\ rows'[r].vol # 0 /\ disk[rows'[r].vol][r] = rows'[r].ver
           ELSE rows'[r].status # "active"]_vars
  BY Settled DEF Trusted
<1> QED BY <1>1, Invariance, PTL DEF Spec, Reconciled

\* The same of a scan that completes in its first attempt, in a library of any names.
THEOREM FirstAttemptReconciles ==
  Spec => [][job.tries = 1 /\ Completes => \A r \in calm :
               IF Present(r) THEN /\ rows'[r].status = "active"
                                  /\ rows'[r].vol # 0 /\ disk[rows'[r].vol][r] = rows'[r].ver
               ELSE rows'[r].status # "active"]_vars
<1>1. Inv /\ [Next]_vars =>
        [job.tries = 1 /\ Completes => \A r \in calm :
           IF Present(r) THEN /\ rows'[r].status = "active"
                              /\ rows'[r].vol # 0 /\ disk[rows'[r].vol][r] = rows'[r].ver
           ELSE rows'[r].status # "active"]_vars
  <2>1. job.tries = 1 => Trusted BY DEF Trusted
  <2> QED BY <2>1, Settled
<1> QED BY <1>1, Invariance, PTL DEF Spec
=============================================================================
