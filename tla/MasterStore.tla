---------------------------- MODULE MasterStore ----------------------------
(***************************************************************************)
(* One master of the file server: its bytes on the volumes, in the trash   *)
(* and in the version store, its row of `files', and the requests that     *)
(* move them about (src/src/handlers/write.js, masterops.js, versions.js,  *)
(* trash.js, storage.js).  A request is a sequence of steps, one for each  *)
(* file operation or statement that changes something, and requests        *)
(* interleave between steps.  Bytes are numbered by the upload that        *)
(* brought them.                                                           *)
(***************************************************************************)
EXTENDS Integers, FiniteSets, FiniteSetsExt

CONSTANTS
  NumVolumes,    \* volumes in the order they are searched, 1 the default
  ReadOnly,      \* those configured read-only
  Actors,        \* requests that may be under way at once
  Together,      \* the pairs {x, y} of operations that are let overlap
  RetainCount,   \* VERSION_RETAIN_COUNT
  None,
  MaxUploads,    \* bound: PUTs
  MaxVersionNo,  \* bound: version numbers
  MaxFaults,     \* bound: statements that fail
  MaxAborts      \* bound: uploads that fail or are rolled back

VARIABLES
  disk,    \* disk[v]: the bytes at the master's path on volume v
  part,    \* part[v]: the upload whose temporary file lies beside it
  mixed,   \* uploads whose file a second stream has written into
  trash,   \* the bytes in the trash under the hash of the path
  store,   \* store[n]: the bytes stored as version n
  kept,    \* the version numbers that have a row in file_versions
  row,     \* the row of `files'
  reqs,    \* the request each actor is serving
  used,    \* how much of each bound is spent
  landed,  \* observed: uploads that were put in place and not rolled back
  gone     \* observed: uploads that were given up on purpose

files == <<disk, part, mixed, trash, store>>
vars == <<disk, part, mixed, trash, store, kept, row, reqs, used, landed, gone>>

Volumes  == 1 .. NumVolumes
Writable == Volumes \ ReadOnly
Uploads  == 1 .. MaxUploads
Bytes    == Uploads \cup {None}
Numbers  == 1 .. MaxVersionNo

OpNames == {"put", "replica", "delete", "unreplica", "undelete", "purge", "empty",
            "revert", "drop"}
Steps == {"idle", "look", "number", "shelve", "insert", "trim", "open",
          "stream", "check", "record", "bin", "unrecord", "move", "revive",
          "empty", "unrow", "copy", "undrop"}

\* Versions are kept only where VERSION_RETAIN_COUNT is positive.
ASSUME MasterAssumption ==
  /\ NumVolumes \in Nat \ {0} /\ ReadOnly \subseteq 1 .. NumVolumes
  /\ RetainCount \in Nat \ {0} /\ MaxUploads \in Nat \ {0} /\ MaxVersionNo \in Nat
  /\ MaxFaults \in Nat /\ MaxAborts \in Nat /\ None \notin Nat /\ None \notin OpNames

Request == [op : OpNames \cup {None}, step : Steps, vol : Volumes \cup {None},
            src : Volumes \cup {None}, no : Numbers \cup {None},
            want : Numbers \cup {None}, id : Bytes, up : Bytes, file : Bytes]
Rest == [op |-> None, step |-> "idle", vol |-> None, src |-> None, no |-> None,
         want |-> None, id |-> None, up |-> None, file |-> None]

Row == [status : {"absent", "active", "trashed"}, id : Bytes,
        vol : Volumes \cup {None}, sum : Bytes]
NoRow == [status |-> "absent", id |-> None, vol |-> None, sum |-> None]

TypeOK ==
  /\ disk \in [Volumes -> Bytes] /\ part \in [Volumes -> Bytes]
  /\ mixed \subseteq Uploads /\ trash \in Bytes
  /\ store \in [Numbers -> Bytes] /\ kept \subseteq Numbers
  /\ row \in Row /\ reqs \in [Actors -> Request]
  /\ used \in [uploads : 0 .. MaxUploads, faults : 0 .. MaxFaults, aborts : 0 .. MaxAborts]
  /\ landed \subseteq Uploads /\ gone \subseteq Uploads

\* The path is free, or holds an indexed master on one of the volumes.
Init ==
  /\ \E v \in Volumes \cup {None} :
       /\ disk = [w \in Volumes |-> IF w = v THEN 1 ELSE None]
       /\ row = IF v = None THEN NoRow
                ELSE [status |-> "active", id |-> 1, vol |-> v, sum |-> 1]
       /\ landed = IF v = None THEN {} ELSE {1}
       /\ used = [uploads |-> Cardinality(landed), faults |-> 0, aborts |-> 0]
  /\ part = [v \in Volumes |-> None] /\ mixed = {} /\ trash = None
  /\ store = [n \in Numbers |-> None] /\ kept = {}
  /\ reqs = [a \in Actors |-> Rest]
  /\ gone = {}

-----------------------------------------------------------------------------
(* storage.js: where the master is read from and where it is written.      *)

Holding == {v \in Volumes : disk[v] # None}

\* resolveRead(): the first volume that has the file.
Found == IF Holding = {} THEN None ELSE Min(Holding)
Served == IF Found = None THEN None ELSE disk[Found]

\* Mutant: the policy chooses also where there is a copy already.
Places_ByPolicy == Writable

\* placeWrite(): in place if that volume can be written, else one the policy
\* chooses; none when every volume is read-only.
Places == IF Found \in Writable THEN {Found} ELSE Writable

At(a, s) == reqs[a].step = s
MayStart(a, op) ==
  /\ At(a, "idle")
  /\ \A b \in Actors : At(b, "idle") \/ {op, reqs[b].op} \in Together
Is(a, names) == reqs[a].op \in names
Goto(a, s) == reqs' = [reqs EXCEPT ![a].step = s]
End(a) == reqs' = [reqs EXCEPT ![a] = Rest]
Fault == used.faults < MaxFaults /\ used' = [used EXCEPT !.faults = @ + 1]
Abort == used.aborts < MaxAborts /\ used' = [used EXCEPT !.aborts = @ + 1]

\* What is still under way after retain(): the upload, or the copy of a
\* version back into place.
AfterRetain(a) == IF Is(a, {"put"}) THEN "open" ELSE "copy"

-----------------------------------------------------------------------------
(* PUT and the version store's part of it.                                 *)

StartPut(a, op) ==
  /\ MayStart(a, op) /\ op \in {"put", "replica"}
  /\ used.uploads < MaxUploads /\ \A n \in kept : n < MaxVersionNo
  /\ \E v \in Places :
       reqs' = [reqs EXCEPT ![a] = [Rest EXCEPT
         !.op = op, !.vol = v, !.up = used.uploads + 1,
         !.step = IF op = "put" THEN "look" ELSE "open"]]
  /\ used' = [used EXCEPT !.uploads = @ + 1]
  /\ UNCHANGED <<files, kept, row, landed, gone>>

\* Mutant: only the default volume is looked at.
Look_DefaultOnly(a) ==
  /\ At(a, "look")
  /\ IF disk[1] = None THEN Goto(a, AfterRetain(a))
     ELSE reqs' = [reqs EXCEPT ![a].src = 1, ![a].step = "number"]
  /\ UNCHANGED <<files, kept, row, used, landed, gone>>

\* The second look, for the copy that is about to be replaced.
Look(a) ==
  /\ At(a, "look")
  /\ reqs' = [reqs EXCEPT ![a].src = Found,
                          ![a].step = IF Found = None THEN AfterRetain(a) ELSE "number"]
  /\ UNCHANGED <<files, kept, row, used, landed, gone>>

\* Mutant: the number is counted, not the highest plus one.
Number_Counted(a) ==
  /\ At(a, "number") /\ disk[reqs[a].src] # None /\ row.status # "absent"
  /\ reqs' = [reqs EXCEPT ![a].no = Cardinality(kept) + 1, ![a].id = row.id,
                          ![a].step = "shelve"]
  /\ UNCHANGED <<files, kept, row, used, landed, gone>>

\* Mutant: the first number is 0.
Number_FromZero(a) ==
  /\ At(a, "number") /\ disk[reqs[a].src] # None /\ row.status # "absent"
  /\ reqs' = [reqs EXCEPT ![a].no = IF kept = {} THEN 0 ELSE Max(kept) + 1,
                          ![a].id = row.id, ![a].step = "shelve"]
  /\ UNCHANGED <<files, kept, row, used, landed, gone>>

\* retain(), up to the next version number. A file that is gone again or has
\* no row is not retained; nor is one whose row cannot be read.
Number(a) ==
  /\ At(a, "number")
  /\ \/ /\ disk[reqs[a].src] # None /\ row.status # "absent"
        /\ LET n == IF kept = {} THEN 1 ELSE Max(kept) + 1 IN
             /\ n \in Numbers
             /\ reqs' = [reqs EXCEPT ![a].no = n, ![a].id = row.id, ![a].step = "shelve"]
        /\ UNCHANGED used
     \/ /\ disk[reqs[a].src] = None \/ row.status = "absent"
        /\ Goto(a, AfterRetain(a)) /\ UNCHANGED used
     \/ Fault /\ Goto(a, AfterRetain(a))
  /\ UNCHANGED <<files, kept, row, landed, gone>>

\* moveFile() into the version store.
Shelve(a) ==
  /\ At(a, "shelve")
  /\ LET v == reqs[a].src IN
     IF disk[v] = None
     THEN Goto(a, AfterRetain(a)) /\ UNCHANGED files
     ELSE /\ store' = [store EXCEPT ![reqs[a].no] = disk[v]]
          /\ disk' = [disk EXCEPT ![v] = None]
          /\ Goto(a, "insert")
          /\ UNCHANGED <<part, mixed, trash>>
  /\ UNCHANGED <<kept, row, used, landed, gone>>

\* The row of the version: unique by number, and of a file that has one. It
\* is a new row: who chose the old one of that number has nothing to delete.
Insert(a) ==
  /\ At(a, "insert")
  /\ LET n == reqs[a].no IN
     \/ /\ n \notin kept /\ row.id = reqs[a].id
        /\ kept' = kept \cup {n}
        /\ reqs' = [b \in Actors |->
             IF b = a THEN [reqs[a] EXCEPT !.step = "trim"]
             ELSE IF At(b, "undrop") /\ reqs[b].want = n
             THEN [reqs[b] EXCEPT !.want = None] ELSE reqs[b]]
        /\ UNCHANGED used
     \/ /\ n \in kept \/ row.id # reqs[a].id
        /\ Goto(a, AfterRetain(a)) /\ UNCHANGED <<kept, used>>
     \/ Fault /\ Goto(a, AfterRetain(a)) /\ UNCHANGED kept
  /\ UNCHANGED <<files, row, landed, gone>>

\* Mutant: one version too many is spared.
Doomed_OneSpared == {n \in kept : Cardinality({m \in kept : m > n}) > RetainCount}

\* trim(): all but the newest RetainCount.
Doomed == {n \in kept : Cardinality({m \in kept : m > n}) >= RetainCount}

Unstored(ns) == [n \in Numbers |-> IF n \in ns THEN None ELSE store[n]]
StoredIn(ns) == {store[n] : n \in ns} \ {None}

Trim(a) ==
  /\ At(a, "trim")
  /\ store' = Unstored(Doomed) /\ kept' = kept \ Doomed
  /\ gone' = gone \cup StoredIn(Doomed)
  /\ Goto(a, AfterRetain(a))
  /\ UNCHANGED <<disk, part, mixed, trash, row, used, landed>>

TrimFails(a) ==
  /\ At(a, "trim") /\ Fault /\ Goto(a, AfterRetain(a))
  /\ UNCHANGED <<files, kept, row, landed, gone>>

\* The temporary file is named by the destination and the process: a second
\* upload that opens it while the first is writing shares it.
Open(a) ==
  /\ At(a, "open")
  /\ LET v == reqs[a].vol
         shared == \E b \in Actors : At(b, "stream") /\ reqs[b].vol = v
                                     /\ reqs[b].file = part[v]
         file == IF shared THEN part[v] ELSE reqs[a].up
     IN /\ part' = [part EXCEPT ![v] = file]
        /\ mixed' = IF shared THEN mixed \cup {file} ELSE mixed
        /\ reqs' = [reqs EXCEPT ![a].step = "stream", ![a].file = file]
  /\ UNCHANGED <<disk, trash, store, kept, row, used, landed, gone>>

\* The rename. What the destination held is overwritten: history if it was
\* retained, and otherwise given up.
Land(a) ==
  /\ At(a, "stream")
  /\ LET v == reqs[a].vol IN
     /\ part[v] # None
     /\ disk' = [disk EXCEPT ![v] = part[v]]
     /\ part' = [part EXCEPT ![v] = None]
     /\ landed' = landed \cup {part[v]}
     /\ gone' = IF Is(a, {"replica"}) \/ row.status = "absent"
                THEN gone \cup ({disk[v]} \ {None}) ELSE gone
  /\ Goto(a, "check")
  /\ UNCHANGED <<mixed, trash, store, kept, row, used>>

\* The client goes away, the body is over the limit, the disk is full, or the
\* temporary file is no longer there to rename: 413 or 500.
Break(a) ==
  /\ At(a, "stream")
  /\ \/ part[reqs[a].vol] = None /\ UNCHANGED used
     \/ Abort
  /\ part' = [part EXCEPT ![reqs[a].vol] = None]
  /\ End(a)
  /\ UNCHANGED <<disk, mixed, trash, store, kept, row, landed, gone>>

\* The quota check after the write: the master just written is removed again.
RollBack(a) ==
  /\ At(a, "check") /\ Is(a, {"put"}) /\ Abort
  /\ disk' = [disk EXCEPT ![reqs[a].vol] = None]
  /\ gone' = gone \cup ({disk[reqs[a].vol]} \ {None})
  /\ End(a)
  /\ UNCHANGED <<part, mixed, trash, store, kept, row, landed>>

Accept(a) ==
  /\ At(a, "check") /\ Goto(a, "record")
  /\ UNCHANGED <<files, kept, row, used, landed, gone>>

\* recordPut(), which nobody waits for; its failure is swallowed.
Record(a) ==
  /\ At(a, "record")
  /\ \/ /\ row' = [status |-> "active", vol |-> reqs[a].vol, sum |-> reqs[a].up,
                    id |-> IF row.status = "absent" THEN reqs[a].up ELSE row.id]
        /\ UNCHANGED used
     \/ Fault /\ UNCHANGED row
  /\ End(a)
  /\ UNCHANGED <<files, kept, landed, gone>>

-----------------------------------------------------------------------------
(* DELETE, from a client or from a peer, and the way back from the trash.   *)

\* Mutant: the file is looked for on the default volume only.
StartDelete_Default(a, op) ==
  /\ MayStart(a, op) /\ op \in {"delete", "unreplica"}
  /\ reqs' = [reqs EXCEPT ![a] = [Rest EXCEPT !.op = op, !.step = "bin", !.vol = 1]]
  /\ UNCHANGED <<files, kept, row, used, landed, gone>>

StartDelete(a, op) ==
  /\ MayStart(a, op) /\ op \in {"delete", "unreplica"}
  /\ reqs' = [reqs EXCEPT ![a] = [Rest EXCEPT
       !.op = op, !.step = "bin", !.vol = IF Found = None THEN 1 ELSE Found]]
  /\ UNCHANGED <<files, kept, row, used, landed, gone>>

\* moveToTrash(): one place per path, so an earlier deletion is superseded.
\* A peer's delete unlinks.
Bin(a) ==
  /\ At(a, "bin")
  /\ LET v == reqs[a].vol IN
     /\ disk' = [disk EXCEPT ![v] = None]
     /\ IF disk[v] = None THEN UNCHANGED <<trash, gone>>
        ELSE IF Is(a, {"delete"})
             THEN trash' = disk[v] /\ gone' = gone \cup ({trash} \ {None})
             ELSE gone' = gone \cup {disk[v]} /\ UNCHANGED trash
  /\ Goto(a, "unrecord")
  /\ UNCHANGED <<part, mixed, store, kept, row, used, landed>>

\* recordDelete(), not waited for either.
Unrecord(a) ==
  /\ At(a, "unrecord")
  /\ \/ /\ row' = [row EXCEPT !.status = IF @ = "absent" THEN @ ELSE "trashed"]
        /\ UNCHANGED used
     \/ Fault /\ UNCHANGED row
  /\ End(a)
  /\ UNCHANGED <<files, kept, landed, gone>>

\* trash.restore(): the row must be trashed and the bytes there.
StartUndelete(a) ==
  /\ MayStart(a, "undelete")
  /\ row.status = "trashed" /\ trash # None
  /\ \E v \in Places :
       reqs' = [reqs EXCEPT ![a] = [Rest EXCEPT
         !.op = "undelete", !.step = "move", !.vol = v, !.id = row.id]]
  /\ UNCHANGED <<files, kept, row, used, landed, gone>>

MoveBack(a) ==
  /\ At(a, "move")
  /\ IF trash = None THEN End(a) /\ UNCHANGED <<disk, trash>>
     ELSE /\ disk' = [disk EXCEPT ![reqs[a].vol] = trash]
          /\ trash' = None
          /\ Goto(a, "revive")
  /\ UNCHANGED <<part, mixed, store, kept, row, used, landed, gone>>

\* The row, by its id or path: active again, where the bytes now are. The
\* checksum stays what it was. An error is the caller's: nothing is undone.
Revive(a) ==
  /\ At(a, "revive")
  /\ \/ /\ row' = IF row.status = "absent" \/ (Is(a, {"undelete"}) /\ row.id # reqs[a].id)
                  THEN row
                  ELSE [row EXCEPT !.status = "active", !.vol = reqs[a].vol]
        /\ UNCHANGED used
     \/ Fault /\ UNCHANGED row
  /\ End(a)
  /\ UNCHANGED <<files, kept, landed, gone>>

-----------------------------------------------------------------------------
(* Giving up for good: purge of the master, removal of one version.        *)

\* purgeFile() names the path, whatever the state of its row; emptyTrash()
\* takes the path only if it finds it trashed, and looks twice.
Chosen(op) == op = "purge" \/ row.status = "trashed"

\* First every version ...
StartPurge(a, op) ==
  /\ MayStart(a, op) /\ op \in {"purge", "empty"}
  /\ IF Chosen(op)
     THEN store' = Unstored(kept) /\ gone' = gone \cup StoredIn(kept) /\ kept' = {}
     ELSE UNCHANGED <<store, gone, kept>>
  /\ reqs' = [reqs EXCEPT ![a] = [Rest EXCEPT !.op = op, !.step = "empty"]]
  /\ UNCHANGED <<disk, part, mixed, trash, row, used, landed>>

\* ... then the bytes in the trash ...
EmptyTrash(a) ==
  /\ At(a, "empty")
  /\ IF Chosen(reqs[a].op)
     THEN trash' = None /\ gone' = gone \cup ({trash} \ {None})
     ELSE UNCHANGED <<trash, gone>>
  /\ Goto(a, "unrow")
  /\ UNCHANGED <<disk, part, mixed, store, kept, row, used, landed>>

\* ... and the row, if it is still trashed; its versions' rows go with it.
Unrow(a) ==
  /\ At(a, "unrow")
  /\ IF row.status = "trashed" THEN row' = NoRow /\ kept' = {} ELSE UNCHANGED <<row, kept>>
  /\ End(a)
  /\ UNCHANGED <<files, used, landed, gone>>

\* versions.purge(): the bytes, then the row.
StartDrop(a) ==
  /\ MayStart(a, "drop")
  /\ \E n \in kept :
       /\ store' = Unstored({n}) /\ gone' = gone \cup StoredIn({n})
       /\ reqs' = [reqs EXCEPT ![a] = [Rest EXCEPT
            !.op = "drop", !.step = "undrop", !.want = n]]
  /\ UNCHANGED <<disk, part, mixed, trash, kept, row, used, landed>>

Undrop(a) ==
  /\ At(a, "undrop")
  /\ kept' = kept \ {reqs[a].want}
  /\ End(a)
  /\ UNCHANGED <<files, row, used, landed, gone>>

-----------------------------------------------------------------------------
(* versions.restore().                                                     *)

StartRevert(a) ==
  /\ MayStart(a, "revert")
  /\ \A n \in kept : n < MaxVersionNo
  /\ \E n \in kept, v \in Places :
       /\ store[n] # None
       /\ reqs' = [reqs EXCEPT ![a] = [Rest EXCEPT
            !.op = "revert", !.want = n, !.vol = v, !.step = "look"]]
  /\ UNCHANGED <<files, kept, row, used, landed, gone>>

\* copyFile(): the version stays, unless retain() has just trimmed it away.
Copy(a) ==
  /\ At(a, "copy")
  /\ LET n == reqs[a].want IN
     IF store[n] = None THEN End(a) /\ UNCHANGED disk
     ELSE disk' = [disk EXCEPT ![reqs[a].vol] = store[n]] /\ Goto(a, "revive")
  /\ UNCHANGED <<part, mixed, trash, store, kept, row, used, landed, gone>>

-----------------------------------------------------------------------------

Put(a) == \/ Look(a) \/ Number(a) \/ Shelve(a) \/ Insert(a) \/ Trim(a) \/ TrimFails(a)
          \/ Open(a) \/ Land(a) \/ Break(a) \/ RollBack(a) \/ Accept(a) \/ Record(a)
Delete(a) == Bin(a) \/ Unrecord(a) \/ StartUndelete(a) \/ MoveBack(a) \/ Revive(a)
Discard(a) == EmptyTrash(a) \/ Unrow(a) \/ StartDrop(a) \/ Undrop(a)
Start(a) == \E op \in OpNames :
  StartPut(a, op) \/ StartDelete(a, op) \/ StartPurge(a, op)

Next == \E a \in Actors :
  Start(a) \/ Put(a) \/ Delete(a) \/ Discard(a) \/ StartRevert(a) \/ Copy(a)

Spec == Init /\ [][Next]_vars

-----------------------------------------------------------------------------

\* The pairs of operations that may overlap without harm. A write, a restore
\* and a delete must not meet, and neither must two writes.
Uploading == {"put", "replica"}
Deleting  == {"delete", "unreplica"}
Safe ==
  {{x, "purge"} : x \in Uploading \cup {"empty", "purge"}}
    \cup {{x, "empty"} : x \in Uploading \cup {"empty"}}
    \cup {{x, "drop"} : x \in OpNames}
    \cup {{x, y} : x \in Deleting, y \in Deleting}
    \cup {{"undelete"}}

AtRest == \A a \in Actors : At(a, "idle")
Untroubled == used.faults = 0 /\ used.aborts = 0

\* What can be read or brought back: on a volume, in the trash, or a version
\* that has a row.
Held == {disk[v] : v \in Volumes} \cup {trash} \cup StoredIn(kept)

\* No request destroys bytes that were once the master: what was put in place
\* is on a volume, in the trash or a listed version until someone gives it up
\* (a purge, the retention limit, a peer's write or delete, the quota, or a
\* later deletion that takes its place in the trash).
Recoverable == AtRest /\ used.faults = 0 => landed \ gone \subseteq Held

\* A version that is listed keeps the bytes it was made of: its number is not
\* given to another copy while it has them.
VersionFrozen == [][\A n \in kept \cap kept' : store'[n] \in {store[n], None}]_vars

\* Retention is enforced "continuously rather than by a periodic job": between
\* requests no more versions are listed than are to be kept, and every one
\* listed can be opened.
VersionsKept == AtRest /\ used.faults = 0 =>
  Cardinality(kept) <= RetainCount /\ \A n \in kept : store[n] # None

\* A write finds the copy there is and replaces it in place: with no read-only
\* volume there is never a second one for a DELETE to uncover.
OneCopy == ReadOnly = {} => Cardinality(Holding) <= 1

\* "Either way it leaves the served volumes, so GETs 404": between requests a
\* trashed master is not served, and bytes that are served have an active row.
TrashedIsUnserved == AtRest /\ used.faults = 0 =>
  (Served # None => row.status = "active")

\* A master with an active row can be read, and whole, whatever became of the requests
\* that were to replace it: "Writes are atomic (temp file + rename)".
ActiveIsServed == AtRest /\ used.faults = 0 =>
  (row.status = "active" => Served \notin {None} \cup mixed)
=============================================================================
