------------------------------ MODULE Scanner ------------------------------
(***************************************************************************)
(* The filesystem scan of src/scanner.js, which makes the `files' index of *)
(* src/fileindex.js complete, run as a job (src/jobtypes.js) while PUTs    *)
(* and DELETEs of src/handlers/write.js go on.                             *)
(*                                                                         *)
(* A scan walks every volume depth-first in sorted order, compares each    *)
(* file with its row in two statements, and after a complete pass marks    *)
(* the active rows it has not seen `missing'.  A crash loses the walk; the *)
(* job's next attempt resumes after the last path its progress records.    *)
(* The index lags behind the disk: a write records its row after it has    *)
(* answered.  What a stat tells of a file, size and mtime, is its version. *)
(***************************************************************************)
EXTENDS Integers, Sequences

CONSTANTS
  NVols,        \* storage volumes, number 1 is the default
  Rels,         \* paths of masters
  Dirs,         \* directories, the same on every volume
  Root,
  Parent,       \* the directory each path or directory is in
  WalkRank,     \* place of each path and directory in the sorted depth-first walk
  StringRank,   \* place of each path in the order of whole path strings
  Writers,      \* writes that may be under way at once
  None,
  MaxVersion,   \* bound: versions of a master
  MaxScans,     \* bound: scan jobs
  MaxAttempts,  \* config.jobsMaxAttempts
  MaxCancels    \* bound: scans cancelled

Vols == 1..NVols
Entries == Rels \cup Dirs

ASSUME ScannerAssumption ==
  /\ NVols \in Nat \ {0} /\ MaxVersion \in Nat \ {0}
  /\ MaxScans \in Nat /\ MaxAttempts \in Nat \ {0} /\ MaxCancels \in Nat
  /\ Root \in Dirs /\ Rels \cap Dirs = {} /\ None \notin Entries
  /\ Parent \in [Entries \ {Root} -> Dirs]
  /\ WalkRank \in [Entries -> Nat] /\ StringRank \in [Rels -> Nat]
  /\ \A d, e \in Entries : WalkRank[d] = WalkRank[e] => d = e
  /\ \A d, e \in Rels : StringRank[d] = StringRank[e] => d = e
  /\ \A e \in Entries \ {Root} : WalkRank[Parent[e]] < WalkRank[e]

VARIABLES
  disk,      \* disk[v][r]: the version of r on volume v, 0 if it is not there
  newest,    \* the last version of r ever written
  rows,      \* the index
  writers,   \* writes under way, or done on disk with their row to be recorded
  job,       \* the scan job: its id, attempts and recorded progress
  scan,      \* the walk in memory
  cancels,
  kept,      \* history: copies, of a path on a volume, there ever since the job
             \* first started
  calm       \* history: paths no write, nor its late record, touched since then

vars == <<disk, newest, rows, writers, job, scan, cancels, kept, calm>>

-----------------------------------------------------------------------------
Present(r) == \E v \in Vols : disk[v][r] # 0

\* resolveRead(): the first volume that has it.
Holder(r) == CHOOSE v \in Vols : disk[v][r] # 0 /\ \A u \in Vols : u < v => disk[u][r] = 0

NoRow == [status |-> "none", ver |-> 0, vol |-> 0, scan |-> 0]

\* upsert(): a NULL last_scan_id keeps the old one.
Upserted(row, ver, vol, id) ==
  [status |-> "active", ver |-> ver, vol |-> vol, scan |-> IF id = 0 THEN row.scan ELSE id]

IdleWriter == [op |-> "none", rel |-> None, ver |-> 0, vol |-> 0]

Nowhere == [vol |-> 0, last |-> None]

NoScan == [pc |-> "idle", only |-> 0, resume |-> Nowhere, vol |-> 0, todo |-> {},
           skip |-> None, last |-> None, cur |-> None, ver |-> 0, drifted |-> FALSE]

STypeOK ==
  /\ disk \in [Vols -> [Rels -> 0..MaxVersion]]
  /\ newest \in [Rels -> 0..MaxVersion]
  /\ rows \in [Rels -> [status : {"none", "active", "missing", "trashed"},
                        ver : 0..MaxVersion, vol : 0..NVols, scan : 0..MaxScans]]
  /\ writers \in [Writers -> [op : {"none", "upload", "put", "delete"}, rel : Rels \cup {None},
                              ver : 0..MaxVersion, vol : 0..NVols]]
  /\ job \in [id : 0..MaxScans, tries : 0..MaxAttempts,
              progress : [vol : 0..NVols, last : Rels \cup {None}]]
  /\ scan \in [pc : {"idle", "walk", "look", "mark", "finalize", "lost"},
               only : 0..NVols, resume : [vol : 0..NVols, last : Rels \cup {None}],
               vol : 0..NVols, todo : SUBSET Entries, skip : Rels \cup {None},
               last : Rels \cup {None}, cur : Rels \cup {None}, ver : 0..MaxVersion,
               drifted : BOOLEAN]
  /\ cancels \in 0..MaxCancels
  /\ kept \subseteq Vols \X Rels /\ calm \subseteq Rels

\* Masters copied in, mounted or lost; rows of some of them, not seen by a scan
\* that is still to come.
Init ==
  /\ disk \in [Vols -> [Rels -> 0..1]]
  /\ rows \in [Rels -> {NoRow} \cup
       {[status |-> s, ver |-> 1, vol |-> 1, scan |-> 0] : s \in {"active", "missing"}}]
  /\ newest = [r \in Rels |-> 1]
  /\ writers = [w \in Writers |-> IdleWriter]
  /\ job = [id |-> 0, tries |-> 0, progress |-> Nowhere]
  /\ scan = NoScan
  /\ cancels = 0 /\ kept = {} /\ calm = {}

-----------------------------------------------------------------------------
(* The write path, as far as the index sees it.                            *)

StillKept == {c \in kept : disk'[c[1]][c[2]] # 0}

\* placeWrite() picks the volume, the one that has the master if there is one.
\* retain() moves the outgoing bytes to the version store before the new ones
\* arrive; without a row, with versioning off, or if it fails, they stay.
PutStarts(w, r) ==
  /\ writers[w] = IdleWriter /\ newest[r] < MaxVersion
  /\ \E v \in Vols :
       /\ Present(r) => v = Holder(r)
       /\ writers' = [writers EXCEPT ![w] = [IdleWriter EXCEPT !.op = "upload",
                                                              !.rel = r, !.vol = v]]
  /\ \/ /\ Present(r) /\ rows[r] # NoRow
        /\ disk' = [disk EXCEPT ![Holder(r)][r] = 0]
     \/ UNCHANGED disk
  /\ kept' = StillKept /\ calm' = calm \ {r}
  /\ UNCHANGED <<newest, rows, job, scan, cancels>>

\* The rename of the uploaded file into place.
PutLands(w) ==
  /\ writers[w].op = "upload" /\ newest[writers[w].rel] < MaxVersion
  /\ LET r == writers[w].rel IN
     /\ newest' = [newest EXCEPT ![r] = @ + 1]
     /\ disk' = [disk EXCEPT ![writers[w].vol][r] = newest'[r]]
     /\ writers' = [writers EXCEPT ![w].op = "put", ![w].ver = newest'[r]]
     /\ calm' = calm \ {r}
  /\ UNCHANGED <<rows, job, scan, cancels, kept>>

\* The upload breaks off or is too large; or it has landed and is over quota.
PutFails(w) ==
  /\ \/ writers[w].op = "upload" /\ UNCHANGED disk
     \/ /\ writers[w].op = "put"
        /\ disk' = [disk EXCEPT ![writers[w].vol][writers[w].rel] = 0]
  /\ writers' = [writers EXCEPT ![w] = IdleWriter]
  /\ kept' = StillKept /\ calm' = calm \ {writers[w].rel}
  /\ UNCHANGED <<newest, rows, job, scan, cancels>>

\* The copy resolveRead() finds goes to the trash.
Delete(w, r) ==
  /\ writers[w] = IdleWriter /\ Present(r)
  /\ disk' = [disk EXCEPT ![Holder(r)][r] = 0]
  /\ writers' = [writers EXCEPT ![w] = [IdleWriter EXCEPT !.op = "delete", !.rel = r]]
  /\ kept' = StillKept /\ calm' = calm \ {r}
  /\ UNCHANGED <<newest, rows, job, scan, cancels>>

\* recordPut() or recordDelete(), which nobody waits for.
Record(w) ==
  /\ writers[w].op \in {"put", "delete"}
  /\ LET r == writers[w].rel IN
     /\ rows' = [rows EXCEPT ![r] =
          IF writers[w].op = "put" THEN Upserted(@, writers[w].ver, writers[w].vol, 0)
          ELSE IF @ = NoRow THEN @ ELSE [@ EXCEPT !.status = "trashed"]]
     /\ calm' = calm \ {r}
  /\ writers' = [writers EXCEPT ![w] = IdleWriter]
  /\ UNCHANGED <<disk, newest, job, scan, cancels, kept>>

-----------------------------------------------------------------------------
(* The scan job.                                                            *)

\* Where a volume's walk starts: resume applies to the volume it was recorded for.
Enter(s, v) == [s EXCEPT !.pc = "walk", !.vol = v, !.todo = {Root}, !.last = None,
                         !.skip = IF s.resume.vol = v THEN s.resume.last ELSE None]

Begin(only, resume) ==
  Enter([NoScan EXCEPT !.only = only, !.resume = resume], IF only = 0 THEN 1 ELSE only)

\* A scan of everything, or of one volume, is queued and started.
ScanStarts(only) ==
  /\ scan.pc = "idle" /\ job.id < MaxScans
  /\ job' = [id |-> job.id + 1, tries |-> 1, progress |-> Nowhere]
  /\ scan' = Begin(only, Nowhere)
  /\ kept' = {c \in Vols \X Rels : disk[c[1]][c[2]] # 0}
  /\ calm' = {r \in Rels : \A w \in Writers : writers[w].rel # r}
  /\ UNCHANGED <<disk, newest, rows, writers, cancels>>

\* The process dies during the scan.
Crash ==
  /\ scan.pc \notin {"idle", "lost"}
  /\ scan' = [NoScan EXCEPT !.pc = "lost", !.only = scan.only]
  /\ UNCHANGED <<disk, newest, rows, writers, job, cancels, kept, calm>>

\* The job is reclaimed: "a crashed scan resumes from its recorded progress", or
\* is failed for good.
Reclaimed ==
  /\ scan.pc = "lost"
  /\ \/ /\ job.tries < MaxAttempts
        /\ job' = [job EXCEPT !.tries = @ + 1]
        /\ scan' = Begin(scan.only, IF job.progress.last = None THEN Nowhere
                                    ELSE job.progress)
     \/ /\ job.tries = MaxAttempts
        /\ scan' = NoScan /\ UNCHANGED job
  /\ UNCHANGED <<disk, newest, rows, writers, cancels, kept, calm>>

-----------------------------------------------------------------------------
(* walk() and the loop over what it yields.                                 *)

\* The entry the walk comes to next.
Due(e) == /\ scan.pc = "walk" /\ e \in scan.todo
          /\ \A f \in scan.todo : WalkRank[e] <= WalkRank[f]

\* readdir: what the directory holds now.
OpenDir(d) ==
  /\ Due(d)
  /\ scan' = [scan EXCEPT !.todo = (@ \ {d}) \cup
       {e \in Entries \ {Root} :
          Parent[e] = d /\ (e \in Rels => disk[scan.vol][e] # 0)}]
  /\ UNCHANGED <<disk, newest, rows, writers, job, cancels, kept, calm>>

Skipped(r) == scan.skip # None /\ StringRank[r] <= StringRank[scan.skip]

Skip(r) ==
  /\ Due(r) /\ Skipped(r)
  /\ scan' = [scan EXCEPT !.todo = @ \ {r}]
  /\ UNCHANGED <<disk, newest, rows, writers, job, cancels, kept, calm>>

\* ctx.cancelled(): the scan returns what it has, without the final step.
Cancelled(r) ==
  /\ Due(r) /\ ~ Skipped(r) /\ cancels < MaxCancels
  /\ cancels' = cancels + 1
  /\ scan' = NoScan
  /\ UNCHANGED <<disk, newest, rows, writers, job, kept, calm>>

Reached == [vol |-> scan.vol, last |-> scan.last]

\* Mutant: progress names the path that is about to be done.
Heartbeat_Current(r) == job' = [job EXCEPT !.progress = [vol |-> scan.vol, last |-> r]]

\* The rate limiter's heartbeat, once per second's budget.
Heartbeat(r) == job' = [job EXCEPT !.progress = Reached]

\* The stat; a file that has gone meanwhile is passed over.
Stat(r) ==
  /\ Due(r) /\ ~ Skipped(r)
  /\ UNCHANGED job \/ Heartbeat(r)
  /\ scan' = IF disk[scan.vol][r] = 0
             THEN [scan EXCEPT !.skip = None, !.todo = @ \ {r}]
             ELSE [scan EXCEPT !.skip = None, !.pc = "look", !.cur = r,
                               !.ver = disk[scan.vol][r]]
  /\ UNCHANGED <<disk, newest, rows, writers, cancels, kept, calm>>

\* Mutant: a row that is not active looks unchanged.
Drifted_AnyStatus(row) == row.ver # scan.ver \/ row.vol # scan.vol

\* The row is missing, or says something else than the stat.
Drifted(row) == row.ver # scan.ver \/ row.vol # scan.vol \/ row.status # "active"

\* recordDiscovered(), the SELECT.
Look ==
  /\ scan.pc = "look"
  /\ scan' = [scan EXCEPT !.pc = "mark", !.drifted = Drifted(rows[scan.cur])]
  /\ UNCHANGED <<disk, newest, rows, writers, job, cancels, kept, calm>>

Passed == [scan EXCEPT !.pc = "walk", !.todo = @ \ {scan.cur}, !.last = scan.cur,
                       !.cur = None, !.ver = 0, !.drifted = FALSE]

\* Mutant: an unchanged row is not marked as seen.
Mark_OnlyDrifted ==
  /\ scan.pc = "mark"
  /\ rows' = [rows EXCEPT ![scan.cur] =
       IF scan.drifted THEN Upserted(@, scan.ver, scan.vol, job.id) ELSE @]
  /\ scan' = Passed
  /\ UNCHANGED <<disk, newest, writers, job, cancels, kept, calm>>

\* recordDiscovered(), the write: the whole row, or only that this scan saw it.
Mark ==
  /\ scan.pc = "mark"
  /\ rows' = [rows EXCEPT ![scan.cur] =
       IF scan.drifted THEN Upserted(@, scan.ver, scan.vol, job.id)
       ELSE [@ EXCEPT !.scan = job.id]]
  /\ scan' = Passed
  /\ UNCHANGED <<disk, newest, writers, job, cancels, kept, calm>>

LastVolume == scan.only # 0 \/ scan.vol = NVols

\* The heartbeat that ends a volume; then the next volume, or the final step.
VolumeDone ==
  /\ scan.pc = "walk" /\ scan.todo = {}
  /\ job' = [job EXCEPT !.progress = Reached]
  /\ scan' = IF LastVolume THEN [scan EXCEPT !.pc = "finalize"]
             ELSE Enter(scan, scan.vol + 1)
  /\ UNCHANGED <<disk, newest, rows, writers, cancels, kept, calm>>

\* "Vanished bytes.  ONLY after a complete pass over every volume."
Finalize ==
  /\ scan.pc = "finalize"
  /\ rows' = IF scan.only # 0 THEN rows
             ELSE [r \in Rels |->
                    IF rows[r].status = "active" /\ rows[r].scan # job.id
                    THEN [rows[r] EXCEPT !.status = "missing"] ELSE rows[r]]
  /\ scan' = NoScan
  /\ UNCHANGED <<disk, newest, writers, job, cancels, kept, calm>>

-----------------------------------------------------------------------------
Write == \E w \in Writers :
  \/ \E r \in Rels : PutStarts(w, r) \/ Delete(w, r)
  \/ PutLands(w) \/ PutFails(w) \/ Record(w)

Walk == \/ \E d \in Dirs : OpenDir(d)
        \/ \E r \in Rels : Skip(r) \/ Cancelled(r) \/ Stat(r)
        \/ Look \/ Mark \/ VolumeDone \/ Finalize

Next == Write \/ Walk \/ Crash \/ Reclaimed \/ \E only \in 0..NVols : ScanStarts(only)

Spec == Init /\ [][Next]_vars

-----------------------------------------------------------------------------
(* What a scan promises.                                                    *)

\* "A partial scan never mass-marks files missing": a path with a copy that has
\* been on its volume ever since the scan job first started is not marked missing
\* by it, in whatever attempt it ends and whatever is written or deleted beside it.
NeverFalselyMissing == [][\A r \in Rels :
  rows[r].status = "active" /\ rows'[r].status = "missing"
    => \A v \in Vols : <<v, r>> \notin kept]_vars

Completes == scan.pc = "finalize" /\ scan'.pc = "idle" /\ scan.only = 0

\* A complete scan leaves the index right for every path nobody has written in
\* the meantime: active, with the version and volume of a copy, if it is on disk,
\* not active if it is not; in particular a missing file found again is back.
Reconciled == [][Completes => \A r \in calm :
  IF Present(r) THEN /\ rows'[r].status = "active"
                     /\ rows'[r].vol # 0 /\ disk[rows'[r].vol][r] = rows'[r].ver
  ELSE rows'[r].status # "active"]_vars

\* "Everything up to X is done is a valid statement about a partial pass": what
\* the recorded progress lets a later attempt skip has been marked by this job.
ProgressSound == \A r \in Rels :
  /\ scan.pc # "idle" /\ job.progress.last # None
  /\ <<job.progress.vol, r>> \in kept
  /\ StringRank[r] <= StringRank[job.progress.last]
  => rows[r].scan = job.id
=============================================================================
