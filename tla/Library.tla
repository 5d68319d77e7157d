------------------------------ MODULE Library -------------------------------
(***************************************************************************)
(* The tree of masters as WebDAV, the folder rename of the API and the     *)
(* share links see it (src/src/handlers/webdav.js, masterops.js,           *)
(* handlers/share.js, and the parts of storage.js, trash.js, fileindex.js  *)
(* and the API they call).                                                 *)
(*                                                                         *)
(* DELETE, MOVE and COPY of a collection are loops over a listing, with    *)
(* requests of others between any two steps, and a recursive removal at    *)
(* the end.  The index follows by statements of its own, some of them not  *)
(* waited for.  What one path goes through with volumes, versions and      *)
(* restores is MasterStore's subject: here is one volume and no versions.  *)
(*                                                                         *)
(* A rel is a directory d or a file <<d, n>> in one.  Bytes are numbered   *)
(* by the upload or the copy that wrote them.                              *)
(***************************************************************************)
EXTENDS Naturals, FiniteSets

CONSTANTS
  Dir, Name,         \* directories and names of files in them
  Actors,            \* requests that may be under way at once
  Links, Visitors,   \* share links, and requests for them
  MaxDownloads,      \* the cap of a link, or None
  None,
  MaxWrites,         \* bound: uploads and copies, two of them before the start
  MaxRequests,       \* bound: requests that change the tree
  MaxFaults          \* bound: statements and file operations that fail

File == Dir \X Name
Rel == File \cup Dir
Serial == 1 .. MaxWrites
Bytes == Serial \cup {None}
\* A link is to a file, or was revoked.
Link == [file: Bytes, count: Nat]

ASSUME LibraryAssumption ==
  /\ None \notin Rel \cup Nat \cup Link /\ File \cap Dir = {}
  /\ MaxDownloads \in Nat \cup {None} /\ MaxWrites \in Nat \ {0, 1}
  /\ MaxRequests \in Nat /\ MaxFaults \in Nat

VARIABLES
  disk,     \* disk[f]: the bytes at f, or None
  dirs,     \* the directories there are
  bin,      \* bin[f]: the bytes in the trash under the hash of f
  row,      \* row[f]: the row of `files' whose path is f
  fired,    \* statements on `files' nobody waits for, not executed yet
  reqs,     \* the request each actor is serving
  links,    \* links[l]: the row of `shares', or None
  visits,   \* the request for a link each visitor has under way
  used,     \* how much of each bound is spent
  served,   \* observed: how often each link's file was sent
  forgone,  \* observed: bytes that a later write or deletion was to replace
  strayed,  \* observed: paths where two requests met, or a statement failed
  collided  \* observed: paths of a rename that another row stood in the way of

tree == <<disk, dirs, bin>>
sharing == <<links, visits, served>>
observed == <<forgone, strayed, collided>>
vars == <<tree, row, fired, reqs, sharing, used, observed>>

Row == [id: Bytes, status: {"absent", "active", "trashed"}, sum: Bytes]
NoRow == [id |-> None, status |-> "absent", sum |-> None]
Idle == [op |-> None, src |-> None, dst |-> None, step |-> "idle", todo |-> {}, at |-> None]
Away == [link |-> None, path |-> None, step |-> "away"]

TypeOK ==
  /\ disk \in [File -> Bytes] /\ dirs \subseteq Dir /\ bin \in [File -> Bytes]
  /\ row \in [File -> Row]
  /\ fired \subseteq [op: {"put", "delete"}, path: File, no: Serial]
  /\ reqs \in [Actors -> [op: {"put", "delete", "move", "copy", None}, src: Rel \cup {None},
                          dst: Rel \cup {None}, todo: SUBSET File, at: File \cup {None},
                          step: {"idle", "stream", "clear", "look", "each", "rename"}]]
  /\ visits \in [Visitors -> [link: Links \cup {None}, path: File \cup {None},
                              step: {"away", "read", "reserved"}]]
  /\ links \in [Links -> Link \cup {None}] /\ served \in [Links -> Nat]
  /\ used \in [writes: 0 .. MaxWrites, requests: Nat, faults: Nat]
  /\ forgone \subseteq Serial /\ strayed \subseteq File /\ collided \subseteq File

\* The library has two indexed masters.
Init ==
  /\ \E f, g \in File :
       /\ f # g
       /\ disk = [h \in File |-> CASE h = f -> 1 [] h = g -> 2 [] OTHER -> None]
       /\ dirs = {f[1], g[1]}
       /\ row = [h \in File |-> IF disk[h] = None THEN NoRow
                               ELSE [id |-> disk[h], status |-> "active", sum |-> disk[h]]]
  /\ bin = [f \in File |-> None] /\ fired = {}
  /\ reqs = [a \in Actors |-> Idle]
  /\ links = [l \in Links |-> None] /\ visits = [v \in Visitors |-> Away]
  /\ used = [writes |-> 2, requests |-> 0, faults |-> 0]
  /\ served = [l \in Links |-> 0] /\ forgone = {} /\ strayed = {} /\ collided = {}

-----------------------------------------------------------------------------
(* storage.js: statPath() and listDir().                                   *)

Exists(r) == IF r \in Dir THEN r \in dirs ELSE disk[r] # None
\* The files listed under r: r itself if it is one.
Listed(r) == {f \in File : disk[f] # None /\ (f = r \/ f[1] = r)}
\* Where f goes when src goes to dst.
Onto(f, src, dst) == IF src \in Dir THEN <<dst, f[2]>> ELSE dst

At(a, s) == reqs[a].step = s
Goto(a, s) == reqs' = [reqs EXCEPT ![a].step = s]
End(a) == reqs' = [reqs EXCEPT ![a] = Idle]
Begin(a, r) ==
  /\ At(a, "idle") /\ used.requests < MaxRequests
  /\ reqs' = [reqs EXCEPT ![a] = r]
  /\ used' = [used EXCEPT !.requests = @ + 1]
Fault == used.faults < MaxFaults /\ used' = [used EXCEPT !.faults = @ + 1]

\* The files another request than a's is writing, deleting or replacing.
Taken(a) ==
  {f \in File : \E b \in Actors \ {a} :
     ~ At(b, "idle") /\ \E r \in {reqs[b].src, reqs[b].dst} : f = r \/ f[1] = r}
\* f changes in a's request while another is at it, or while its row is behind.
Meets(a, f) == f \in Taken(a) \/ \E s \in fired : s.path = f
Stray(a, fs) ==
  strayed' = IF \E f \in fs : Meets(a, f) \/ f \in strayed THEN strayed \cup fs ELSE strayed
\* Bytes that end at f by a step of a: those they replace were given up, and so
\* are they if another request is at f.
Forgo(a, f, no) ==
  forgone' = forgone \cup ({disk[f]} \ {None}) \cup (IF f \in Taken(a) THEN {no} ELSE {})

-----------------------------------------------------------------------------
(* PUT: masterops.writeStream().                                           *)

StartPut(a, f) ==
  /\ Begin(a, [Idle EXCEPT !.op = "put", !.src = f, !.step = "stream"])
  /\ dirs' = dirs \cup {f[1]}
  /\ UNCHANGED <<disk, bin, row, fired, sharing, observed>>

\* The new bytes are in place; purge, replication and the row follow.
Written(a, f) ==
  /\ used.writes < MaxWrites
  /\ used' = [used EXCEPT !.writes = @ + 1]
  /\ disk' = [disk EXCEPT ![f] = used.writes + 1]
  /\ fired' = fired \cup {[op |-> "put", path |-> f, no |-> used.writes + 1]}
  /\ Forgo(a, f, used.writes + 1) /\ Stray(a, {f})

Land(a) ==
  /\ At(a, "stream") /\ End(a)
  /\ Written(a, reqs[a].src)
  /\ UNCHANGED <<dirs, bin, row, sharing, collided>>

\* The client goes away: the temporary file is unlinked.
PutFails(a) ==
  /\ At(a, "stream") /\ End(a)
  /\ Fault
  /\ UNCHANGED <<tree, row, fired, sharing, observed>>

-----------------------------------------------------------------------------
(* DELETE, and the replacement of what is at the destination: deleteTree(). *)

StartDelete(a, r) ==
  /\ Exists(r)
  /\ Begin(a, [Idle EXCEPT !.op = "delete", !.src = r, !.step = "clear", !.todo = Listed(r)])
  /\ UNCHANGED <<tree, row, fired, sharing, observed>>

\* What the request is clearing.
Clearing(a) == IF reqs[a].op = "delete" THEN reqs[a].src ELSE reqs[a].dst

\* Mutant: the row of a replaced master is left for the upload that follows.
Trash_RowKept(a, f) ==
  /\ bin' = [bin EXCEPT ![f] = disk[f]]
  /\ disk' = [disk EXCEPT ![f] = None]
  /\ forgone' = forgone \cup ({bin[f]} \ {None})
  /\ fired' = IF reqs[a].op # "delete" THEN fired
              ELSE fired \cup {[op |-> "delete", path |-> f, no |-> disk[f]]}

\* deleteMaster(): the trash keeps one master a path.  The row is not waited for.
Trash(a, f) ==
  /\ bin' = [bin EXCEPT ![f] = disk[f]]
  /\ disk' = [disk EXCEPT ![f] = None]
  /\ forgone' = forgone \cup ({bin[f]} \ {None})
  /\ fired' = fired \cup {[op |-> "delete", path |-> f, no |-> disk[f]]}

\* moveToTrash() failed: the file is unlinked instead.
Unlink(f) ==
  /\ disk' = [disk EXCEPT ![f] = None]
  /\ forgone' = forgone \cup {disk[f]}
  /\ fired' = fired \cup {[op |-> "delete", path |-> f, no |-> disk[f]]}

\* One child of the listing; one that is gone is passed over.
Clear(a) ==
  /\ At(a, "clear")
  /\ \E f \in reqs[a].todo :
       /\ reqs' = [reqs EXCEPT ![a].todo = @ \ {f}]
       /\ \/ disk[f] # None /\ Trash(a, f) /\ Stray(a, {f}) /\ UNCHANGED used
          \/ disk[f] # None /\ Fault /\ Unlink(f) /\ Stray(a, {f}) /\ UNCHANGED bin
          \/ disk[f] = None /\ UNCHANGED <<disk, bin, fired, used, forgone, strayed>>
  /\ UNCHANGED <<dirs, row, sharing, collided>>

\* removeDir(d), whatever it holds by now, uploads in progress too: those fail.
RemoveDir(a, d, step) ==
  /\ dirs' = dirs \ {d}
  /\ disk' = [f \in File |-> IF f[1] = d THEN None ELSE disk[f]]
  /\ reqs' = [b \in Actors |->
       IF b = a THEN IF step = "idle" THEN Idle ELSE [reqs[a] EXCEPT !.step = step]
       ELSE IF At(b, "stream") /\ reqs[b].src[1] = d THEN Idle ELSE reqs[b]]
  /\ Stray(a, {f \in File : f[1] = d /\ disk[f] # None})

Cleared(a) ==
  /\ At(a, "clear") /\ reqs[a].todo = {}
  /\ LET next == IF reqs[a].op = "delete" THEN "idle" ELSE "look" IN
     IF Clearing(a) \in Dir THEN RemoveDir(a, Clearing(a), next)
     ELSE /\ IF next = "idle" THEN End(a) ELSE Goto(a, next)
          /\ UNCHANGED <<disk, dirs, strayed>>
  /\ UNCHANGED <<bin, row, fired, sharing, used, forgone, collided>>

-----------------------------------------------------------------------------
(* MOVE and COPY, of a file onto a file and of a directory onto a          *)
(* directory, and the folder rename of the API.                            *)

\* What is at the destination is cleared before the source is looked for.
StartMove(a, op, src, dst, overwrite) ==
  /\ src # dst /\ (src \in Dir) = (dst \in Dir)
  /\ Exists(dst) => overwrite
  /\ Begin(a, [Idle EXCEPT !.op = op, !.src = src, !.dst = dst, !.todo = Listed(dst),
                           !.step = IF Exists(dst) THEN "clear" ELSE "look"])
  /\ UNCHANGED <<tree, row, fired, sharing, observed>>

RenameFolder(a, from, to) ==
  /\ Exists(from) /\ ~ Exists(to) /\ from # to
  /\ Begin(a, [Idle EXCEPT !.op = "move", !.src = from, !.dst = to, !.step = "look"])
  /\ UNCHANGED <<tree, row, fired, sharing, observed>>

Look(a) ==
  /\ At(a, "look")
  /\ IF Exists(reqs[a].src)
     THEN /\ dirs' = dirs \cup ({reqs[a].dst} \cap Dir)
          /\ reqs' = [reqs EXCEPT ![a].step = "each", ![a].todo = Listed(reqs[a].src)]
     ELSE End(a) /\ UNCHANGED dirs
  /\ UNCHANGED <<disk, bin, row, fired, sharing, used, observed>>

\* Mutant: the loop goes on.
ChildFails_Skipped(a) ==
  /\ At(a, "each")
  /\ \E f \in reqs[a].todo :
       /\ Fault \/ (UNCHANGED used /\ disk[f] = None)
       /\ reqs' = [reqs EXCEPT ![a].todo = @ \ {f}]
  /\ UNCHANGED <<tree, row, fired, sharing, observed>>

\* A child that is gone by now, or whose volume is full: the loop ends there.
ChildFails(a) ==
  /\ At(a, "each")
  /\ reqs[a].todo # {}
  /\ Fault \/ (UNCHANGED used /\ \E f \in reqs[a].todo : disk[f] = None)
  /\ End(a)
  /\ UNCHANGED <<tree, row, fired, sharing, observed>>

CopyChild(a) ==
  /\ At(a, "each") /\ reqs[a].op = "copy"
  /\ \E f \in reqs[a].todo :
       LET g == Onto(f, reqs[a].src, reqs[a].dst) IN
       /\ disk[f] # None
       /\ Written(a, g)
       /\ dirs' = dirs \cup {g[1]}
       /\ reqs' = [reqs EXCEPT ![a].todo = @ \ {f}]
  /\ UNCHANGED <<bin, row, sharing, collided>>

\* The file is renamed onto whatever is there by now.
MoveChild(a) ==
  /\ At(a, "each") /\ reqs[a].op = "move"
  /\ \E f \in reqs[a].todo :
       LET g == Onto(f, reqs[a].src, reqs[a].dst) IN
       /\ disk[f] # None
       /\ disk' = [disk EXCEPT ![f] = None, ![g] = disk[f]]
       /\ dirs' = dirs \cup {g[1]}
       /\ Forgo(a, g, disk[f]) /\ Stray(a, {f, g})
       /\ reqs' = [reqs EXCEPT ![a].todo = @ \ {f}, ![a].at = f, ![a].step = "rename"]
  /\ UNCHANGED <<bin, row, fired, sharing, used, collided>>

\* renamePath(): one row a path, and a statement that fails is passed over.
RenamePath(a) ==
  /\ At(a, "rename")
  /\ LET f == reqs[a].at
         g == Onto(f, reqs[a].src, reqs[a].dst)
     IN \/ /\ row[f] = NoRow \/ row[g] = NoRow
           /\ row' = [row EXCEPT ![f] = NoRow, ![g] = IF row[f] = NoRow THEN @ ELSE row[f]]
           /\ collided' = IF {f, g} \cap collided = {} THEN collided ELSE collided \cup {f, g}
           /\ Stray(a, {f, g}) /\ UNCHANGED used
        \/ /\ row[f] # NoRow /\ row[g] # NoRow
           /\ collided' = collided \cup {f, g} /\ Stray(a, {f, g}) /\ UNCHANGED <<row, used>>
        \/ Fault /\ strayed' = strayed \cup {f, g} /\ UNCHANGED <<row, collided>>
  /\ reqs' = [reqs EXCEPT ![a].at = None, ![a].step = "each"]
  /\ UNCHANGED <<tree, fired, sharing, forgone>>

Done(a) ==
  /\ At(a, "each") /\ reqs[a].todo = {}
  /\ IF reqs[a].op = "move" /\ reqs[a].src \in Dir
     THEN RemoveDir(a, reqs[a].src, "idle")
     ELSE End(a) /\ UNCHANGED <<disk, dirs, strayed>>
  /\ UNCHANGED <<bin, row, fired, sharing, used, forgone, collided>>

MakeDir(d) ==
  /\ ~ Exists(d)
  /\ used.requests < MaxRequests /\ used' = [used EXCEPT !.requests = @ + 1]
  /\ dirs' = dirs \cup {d}
  /\ UNCHANGED <<disk, bin, row, fired, reqs, sharing, observed>>

-----------------------------------------------------------------------------
(* fileindex.js: recordPut() and recordDelete(), when their turn comes.    *)

Execute(s) ==
  /\ s \in fired
  /\ fired' = fired \ {s}
  /\ LET r == row[s.path] IN
     \/ /\ row' = [row EXCEPT ![s.path] =
             IF s.op = "put" THEN [id |-> IF r = NoRow THEN s.no ELSE r.id,
                                   status |-> "active", sum |-> s.no]
             ELSE IF r = NoRow THEN r ELSE [r EXCEPT !.status = "trashed"]]
        /\ UNCHANGED <<used, strayed>>
     \/ Fault /\ strayed' = strayed \cup {s.path} /\ UNCHANGED row
  /\ UNCHANGED <<tree, reqs, sharing, forgone, collided>>

-----------------------------------------------------------------------------
(* Share links: a link is to a row of `files', whatever path it has.       *)

PathOf(id) == {f \in File : row[f].id = id}
Capped == MaxDownloads # None
Spent(l) == Capped /\ links[l].count >= MaxDownloads

CreateShare(l, f) ==
  /\ links[l] = None /\ row[f].status = "active"
  /\ links' = [links EXCEPT ![l] = [file |-> row[f].id, count |-> 0]]
  /\ UNCHANGED <<tree, row, fired, reqs, visits, served, used, observed>>

\* The row goes; a visitor who has read it goes on with what was read.
RevokeShare(l) ==
  /\ links[l] # None /\ links[l].file # None
  /\ links' = [links EXCEPT ![l].file = None]
  /\ UNCHANGED <<tree, row, fired, reqs, visits, served, used, observed>>

\* The link and its file are read in one statement; then the password is checked.
Visit(v, l) ==
  /\ visits[v] = Away /\ links[l] # None /\ ~ Spent(l)
  /\ \E f \in PathOf(links[l].file) :
       /\ links[l].file # None /\ row[f].status # "trashed"
       /\ visits' = [visits EXCEPT ![v] = [link |-> l, path |-> f, step |-> "read"]]
  /\ UNCHANGED <<tree, row, fired, reqs, links, served, used, observed>>

\* Mutant: the slot is taken without looking at the count again.
Reserve_Unchecked(v) ==
  LET l == visits[v].link IN
  /\ visits[v].step = "read" /\ disk[visits[v].path] # None
  /\ links' = [links EXCEPT ![l].count = @ + 1]
  /\ visits' = [visits EXCEPT ![v].step = "reserved"]
  /\ UNCHANGED <<tree, row, fired, reqs, served, used, observed>>

\* The conditional UPDATE of a capped link; the count of an open one is not
\* kept here. Neither statement finds a link that was revoked.
Reserve(v) ==
  LET l == visits[v].link IN
  /\ visits[v].step = "read" /\ disk[visits[v].path] # None
  /\ Capped => links[l].file # None /\ links[l].count < MaxDownloads
  /\ links' = IF Capped THEN [links EXCEPT ![l].count = @ + 1] ELSE links
  /\ visits' = [visits EXCEPT ![v].step = "reserved"]
  /\ UNCHANGED <<tree, row, fired, reqs, served, used, observed>>

\* A wrong password, no file, no slot, or the statement failed.
Refuse(v) ==
  /\ visits[v].step = "read"
  /\ visits' = [visits EXCEPT ![v] = Away]
  /\ UNCHANGED <<tree, row, fired, reqs, links, served, used, observed>>

\* The file is sent, unless it is gone by now or only its head was asked for.
Send(v) ==
  LET l == visits[v].link IN
  /\ visits[v].step = "reserved"
  /\ \/ disk[visits[v].path] # None /\ Capped /\ served' = [served EXCEPT ![l] = @ + 1]
     \/ UNCHANGED served
  /\ visits' = [visits EXCEPT ![v] = Away]
  /\ UNCHANGED <<tree, row, fired, reqs, links, used, observed>>

-----------------------------------------------------------------------------

Request(a) ==
  \/ \E f \in File : StartPut(a, f)
  \/ \E r \in Rel : StartDelete(a, r)
  \/ \E op \in {"move", "copy"}, src, dst \in Rel, overwrite \in BOOLEAN :
       StartMove(a, op, src, dst, overwrite)
  \/ \E from, to \in Dir : RenameFolder(a, from, to)

Progress(a) ==
  \/ Land(a) \/ PutFails(a)
  \/ Clear(a) \/ Cleared(a)
  \/ Look(a) \/ ChildFails(a) \/ CopyChild(a) \/ MoveChild(a) \/ RenamePath(a) \/ Done(a)

Sharing ==
  \/ \E l \in Links, f \in File : CreateShare(l, f)
  \/ \E l \in Links : RevokeShare(l)
  \/ \E v \in Visitors, l \in Links : Visit(v, l)
  \/ \E v \in Visitors : Reserve(v) \/ Refuse(v) \/ Send(v)

Next ==
  \/ \E a \in Actors : Request(a) \/ Progress(a)
  \/ \E d \in Dir : MakeDir(d)
  \/ \E s \in fired : Execute(s)
  \/ Sharing

Spec == Init /\ [][Next]_vars

-----------------------------------------------------------------------------

\* No bytes are lost to a deletion, a move or a copy: whatever was uploaded is
\* at a path, or in the trash, or was replaced by a later write to its path or
\* by a later deletion of it, or it came to a path that another request was
\* deleting or writing at that moment. Nothing else that is in a directory may
\* go when the directory does (webdav.js deleteTree, masterops.js moveCopy).
NothingLost ==
  \A no \in 1 .. used.writes \ forgone : \E f \in File : no \in {disk[f], bin[f]}

\* Once nothing is under way, the index says of each path what is there: an
\* active row with the sum of the bytes, or none that is active. Left out are
\* paths where two requests met or a statement failed, and those where a rename
\* found the row of another file (fileindex.js, webdav.js, masterops.js).
AtRest == fired = {} /\ \A a \in Actors : At(a, "idle")
Agrees(f) == disk[f] = IF row[f].status = "active" THEN row[f].sum ELSE None
IndexAgrees == AtRest => \A f \in File \ (strayed \cup collided) : Agrees(f)

\* The same of every rename: "keeps the index path in sync" (masterops.js:85).
RenameKeepsIndex == AtRest => \A f \in File \ strayed : Agrees(f)

\* A capped link is served at most as often as its cap, however many ask at
\* once and whether or not it is revoked meanwhile (share.js).
CapHolds == Capped => \A l \in Links : served[l] <= MaxDownloads
=============================================================================
