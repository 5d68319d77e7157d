---------------------------- MODULE VariantCache ----------------------------
(***************************************************************************)
(* Resized variants and the LRU cache they live in: src/cache.js, the      *)
(* render path of src/resizer.js (src/mediavariant.js runs the same one),  *)
(* and the end of src/handlers/read.js that serves the result.             *)
(*                                                                         *)
(* One process, many requests: JavaScript between two awaits is one step,  *)
(* and a file-system call is two, the call and the continuation that acts  *)
(* on its result, with anything in between.  A master is its version: a    *)
(* write gives the file a new size and mtime, so a variant's name, which   *)
(* hashes path, size, mtime and options, is the pair of master and version *)
(* (one set of options; variants of a master weigh the same).              *)
(***************************************************************************)
EXTENDS Integers, Sequences

CONSTANTS
  Masters,      \* relative paths
  Reqs,         \* requests for a resized master being served at once
  Purgers,      \* writes of a master being completed at once
  Weight,       \* Masters -> bytes of one variant
  MaxBytes,     \* config.cacheMaxBytes
  LowBytes,     \* config.cacheLowBytes
  Boots,        \* TRUE: over boots and restarts; FALSE: the life of one process
                \* that found an empty cache
  None,         \* no name
  MaxVersion,   \* bound: versions a master may reach
  MaxDrift      \* bound: no more requests once `bytes' is this far from zero

Versions == 1..MaxVersion
Names    == Masters \X Versions

ASSUME CacheAssumption ==
  /\ Weight \in [Masters -> Nat \ {0}]
  /\ MaxBytes \in Nat /\ LowBytes \in 0..MaxBytes
  /\ Boots \in BOOLEAN
  /\ MaxVersion \in Nat \ {0} /\ MaxDrift \in Nat
  /\ None \notin Names

VARIABLES
  master,    \* the version of each master on disk
  disk,      \* what each cache file holds: the version it was made from, 0 if none
  lru,       \* the index: the names it holds, least recently used first
  bytes,     \* what the index believes the cache weighs
  warm,      \* init() has ended
  boot,      \* the files init() has still to look at, and those it found
  evict,     \* the eviction under way
  purges,    \* the purges under way
  reqs       \* the requests

vars == <<master, disk, lru, bytes, warm, boot, evict, purges, reqs>>

-----------------------------------------------------------------------------
Indexed == {lru[i] : i \in 1..Len(lru)}

Size(n) == Weight[n[1]]

\* Map.delete(): the name and its place, if it has one.
Without(seq, n) ==
  IF \E i \in 1..Len(seq) : seq[i] = n
  THEN LET at == CHOOSE i \in 1..Len(seq) : seq[i] = n
       IN SubSeq(seq, 1, at - 1) \o SubSeq(seq, at + 1, Len(seq))
  ELSE seq

\* touch(), add(): the most recently used.
Touched(n) == Append(Without(lru, n), n)

\* A file found on disk takes the place its mtime gives it.
Inserted(seq, n, i) == SubSeq(seq, 1, i) \o <<n>> \o SubSeq(seq, i + 1, Len(seq))

IdleEvict == [on |-> FALSE, todo |-> <<>>, cur |-> None, gone |-> FALSE]

\* The loop of evictIfNeeded() from its test on: stop, or unlink the next one.
EvictFrom(todo, total) ==
  IF todo = <<>> \/ total <= LowBytes THEN IdleEvict
  ELSE [on |-> TRUE, todo |-> Tail(todo), cur |-> Head(todo), gone |-> FALSE]

\* evictIfNeeded() called with this index and total.
EvictIfNeeded(index, total) ==
  IF evict.on \/ total <= MaxBytes THEN evict ELSE EvictFrom(index, total)

IdlePurge == [on |-> FALSE, rel |-> None, todo |-> {}, cur |-> None,
              counted |-> FALSE, gone |-> FALSE]

\* The loop of purgeForPath(): one of the next states after reading an entry.
PurgeFrom(rel, todo, index) ==
  IF todo = {} THEN {IdlePurge}
  ELSE {[on |-> TRUE, rel |-> rel, todo |-> todo \ {n}, cur |-> n,
         counted |-> (n \in index), gone |-> FALSE] : n \in todo}

\* since: the version the request found when it resolved the master.
IdleReq == [pc |-> "idle", name |-> None, since |-> 1, got |-> 0]

Req == [pc : {"idle", "resolved", "ondisk", "found", "missing", "render", "rendered",
              "renamed", "wait", "serve", "open", "master", "done"},
        name : Names \cup {None}, since : Versions, got : 0..MaxVersion]

NoBoot == [todo |-> {}, found |-> {}]

TypeOK ==
  /\ master \in [Masters -> Versions]
  /\ disk \in [Names -> 0..MaxVersion]
  /\ lru \in Seq(Names)
  /\ bytes \in Int /\ warm \in BOOLEAN
  /\ boot \in [todo : SUBSET Names, found : SUBSET Names]
  /\ evict \in [on : BOOLEAN, todo : Seq(Names), cur : Names \cup {None}, gone : BOOLEAN]
  /\ purges \in [Purgers -> [on : BOOLEAN, rel : Masters \cup {None},
                             todo : SUBSET Names, cur : Names \cup {None},
                             counted : BOOLEAN, gone : BOOLEAN]]
  /\ reqs \in [Reqs -> Req]

\* A cache left by an earlier process, or a new one.
Init ==
  /\ master = [m \in Masters |-> 1]
  /\ disk \in [Names -> 0..1]
  /\ \A n \in Names : disk[n] = 1 => n[2] = 1 /\ Boots
  /\ lru = <<>> /\ bytes = 0
  /\ warm = ~ Boots
  /\ boot = [todo |-> {n \in Names : disk[n] # 0}, found |-> {}]
  /\ evict = IdleEvict
  /\ purges = [w \in Purgers |-> IdlePurge]
  /\ reqs = [r \in Reqs |-> IdleReq]

-----------------------------------------------------------------------------
(* init(): runs while the server is already answering.  `boot.todo' is what  *)
(* readdir listed and the index did not hold.                                *)

BootStat(n) ==
  /\ ~ warm /\ n \in boot.todo
  /\ boot' = [todo |-> boot.todo \ {n},
              found |-> IF disk[n] # 0 THEN boot.found \cup {n} ELSE boot.found]
  /\ UNCHANGED <<master, disk, lru, bytes, warm, evict, purges, reqs>>

BootIndex(n) ==
  /\ ~ warm /\ n \in boot.found
  /\ boot' = [boot EXCEPT !.found = @ \ {n}]
  /\ \/ /\ n \notin Indexed
        /\ \E i \in 0..Len(lru) : lru' = Inserted(lru, n, i)
        /\ bytes' = bytes + Size(n)
     \/ n \in Indexed /\ UNCHANGED <<lru, bytes>>
  /\ UNCHANGED <<master, disk, warm, evict, purges, reqs>>

BootDone ==
  /\ ~ warm /\ boot = NoBoot
  /\ warm' = TRUE
  /\ evict' = EvictIfNeeded(lru, bytes)
  /\ UNCHANGED <<master, disk, lru, bytes, boot, purges, reqs>>

-----------------------------------------------------------------------------
(* The request path: read.js up to getVariant(), getVariant(), and serving.  *)

SetReq(r, pc) == reqs' = [reqs EXCEPT ![r].pc = pc]

\* Mutant: the name leaves out the master's size and mtime.
Resolve_PathOnly(r, m) ==
  /\ reqs[r].pc = "idle"
  /\ - MaxDrift <= bytes /\ bytes <= MaxDrift
  /\ reqs' = [reqs EXCEPT ![r] = [pc |-> "resolved", name |-> <<m, 1>>,
                                  since |-> master[m], got |-> 0]]
  /\ UNCHANGED <<master, disk, lru, bytes, warm, boot, evict, purges>>

\* Mutant: the name is taken from a stat that failed.
Resolve_NoStat(r, m) ==
  /\ reqs[r].pc = "idle"
  /\ reqs' = [reqs EXCEPT ![r] = [pc |-> "resolved", name |-> <<m, 0>>,
                                  since |-> master[m], got |-> 0]]
  /\ UNCHANGED <<master, disk, lru, bytes, warm, boot, evict, purges>>

\* resolveMaster() has stat-ed the master; its size and mtime name the variant.
Resolve(r, m) ==
  /\ reqs[r].pc = "idle"
  /\ - MaxDrift <= bytes /\ bytes <= MaxDrift
  /\ reqs' = [reqs EXCEPT ![r] = [pc |-> "resolved", name |-> <<m, master[m]>>,
                                  since |-> master[m], got |-> 0]]
  /\ UNCHANGED <<master, disk, lru, bytes, warm, boot, evict, purges>>

Renders(r, n) == reqs[r].name = n /\ reqs[r].pc \in {"render", "rendered", "renamed"}

Rendering(n) == \E r \in Reqs : Renders(r, n)

\* Mutant: no in-flight map.
Join_Always(r) == SetReq(r, "render")

\* The in-flight map: wait for whoever renders this name, or render it.
Join(r) == SetReq(r, IF Rendering(reqs[r].name) THEN "wait" ELSE "render")

GetVariant(r) ==
  /\ reqs[r].pc = "resolved"
  /\ LET n == reqs[r].name IN
     \/ n \in Indexed /\ lru' = Touched(n) /\ SetReq(r, "serve")
     \/ n \notin Indexed /\ warm /\ Join(r) /\ UNCHANGED lru
     \/ n \notin Indexed /\ ~ warm /\ SetReq(r, "ondisk") /\ UNCHANGED lru
  /\ UNCHANGED <<master, disk, bytes, warm, boot, evict, purges>>

\* onDisk(): the stat, and what follows it.
OnDiskStat(r) ==
  /\ reqs[r].pc = "ondisk"
  /\ SetReq(r, IF disk[reqs[r].name] # 0 THEN "found" ELSE "missing")
  /\ UNCHANGED <<master, disk, lru, bytes, warm, boot, evict, purges>>

OnDiskReturns(r) ==
  /\ LET n == reqs[r].name IN
     \/ /\ reqs[r].pc = "found"
        /\ lru' = Touched(n)
        /\ bytes' = IF n \in Indexed THEN bytes ELSE bytes + Size(n)
        /\ SetReq(r, "serve")
     \/ reqs[r].pc = "missing" /\ Join(r) /\ UNCHANGED <<lru, bytes>>
  /\ UNCHANGED <<master, disk, warm, boot, evict, purges>>

\* sharp reads the master: whatever version is there now.
RenderReads(r) ==
  /\ reqs[r].pc = "render"
  /\ reqs' = [reqs EXCEPT ![r].pc = "rendered", ![r].got = master[reqs[r].name[1]]]
  /\ UNCHANGED <<master, disk, lru, bytes, warm, boot, evict, purges>>

\* The temp file is renamed into the cache.
RenderRenames(r) ==
  /\ reqs[r].pc = "rendered"
  /\ disk' = [disk EXCEPT ![reqs[r].name] = reqs[r].got]
  /\ reqs' = [reqs EXCEPT ![r].pc = "renamed", ![r].got = 0]
  /\ UNCHANGED <<master, lru, bytes, warm, boot, evict, purges>>

\* Mutant: the waiters are forgotten.
SettleAll_OwnerOnly(r, pc) == reqs' = [reqs EXCEPT ![r].pc = pc, ![r].got = 0]

\* The in-flight promise settles for its owner and everyone who waits for it.
SettleAll(r, pc) ==
  reqs' = [s \in Reqs |->
    IF s = r \/ (reqs[s].pc = "wait" /\ reqs[s].name = reqs[r].name)
    THEN [reqs[s] EXCEPT !.pc = pc, !.got = 0] ELSE reqs[s]]

\* cache.add().
RenderAdds(r) ==
  /\ reqs[r].pc = "renamed"
  /\ LET n == reqs[r].name
         index == Touched(n)
         total == bytes + Size(n)
     IN /\ lru' = index /\ bytes' = total
        /\ evict' = EvictIfNeeded(index, total)
  /\ SettleAll(r, "serve")
  /\ UNCHANGED <<master, disk, warm, boot, purges>>

\* sharp cannot read the master, or a file call failed: the master as it is.
RenderFails(r) ==
  /\ reqs[r].pc \in {"render", "rendered"}
  /\ SettleAll(r, "master")
  /\ UNCHANGED <<master, disk, lru, bytes, warm, boot, evict, purges>>

\* stat of the variant; one that has gone again is replaced by the master.
ServeStat(r) ==
  /\ reqs[r].pc = "serve"
  /\ SetReq(r, IF disk[reqs[r].name] # 0 THEN "open" ELSE "master")
  /\ UNCHANGED <<master, disk, lru, bytes, warm, boot, evict, purges>>

\* streamFile(): got = 0 is a reply cut off after its headers.
ServeVariant(r) ==
  /\ reqs[r].pc = "open"
  /\ reqs' = [reqs EXCEPT ![r].pc = "done", ![r].got = disk[reqs[r].name]]
  /\ UNCHANGED <<master, disk, lru, bytes, warm, boot, evict, purges>>

\* The same for the master; nothing while a write has its old bytes moved aside.
ServeMaster(r) ==
  /\ reqs[r].pc = "master"
  /\ \E v \in {0, master[reqs[r].name[1]]} :
       reqs' = [reqs EXCEPT ![r].pc = "done", ![r].got = v]
  /\ UNCHANGED <<master, disk, lru, bytes, warm, boot, evict, purges>>

Leave(r) ==
  /\ reqs[r].pc = "done"
  /\ reqs' = [reqs EXCEPT ![r] = IdleReq]
  /\ UNCHANGED <<master, disk, lru, bytes, warm, boot, evict, purges>>

-----------------------------------------------------------------------------
(* evictIfNeeded(), after the unlink it started, and purgeForPath().         *)

EvictUnlinks ==
  /\ evict.on /\ ~ evict.gone
  /\ disk' = [disk EXCEPT ![evict.cur] = 0]
  /\ evict' = [evict EXCEPT !.gone = TRUE]
  /\ UNCHANGED <<master, lru, bytes, warm, boot, purges, reqs>>

\* Mutant: an evicted file still counts.
EvictDrops_StillCounted ==
  /\ evict.gone
  /\ lru' = Without(lru, evict.cur)
  /\ evict' = EvictFrom(evict.todo, bytes)
  /\ UNCHANGED <<master, disk, bytes, warm, boot, purges, reqs>>

\* Mutant: an evicted file stays in the index.
EvictDrops_StillIndexed ==
  /\ evict.gone
  /\ bytes' = bytes - Size(evict.cur)
  /\ evict' = EvictFrom(evict.todo, bytes - Size(evict.cur))
  /\ UNCHANGED <<master, disk, lru, warm, boot, purges, reqs>>

EvictDrops ==
  /\ evict.gone
  /\ lru' = Without(lru, evict.cur)
  /\ bytes' = bytes - Size(evict.cur)
  /\ evict' = EvictFrom(evict.todo, bytes - Size(evict.cur))
  /\ UNCHANGED <<master, disk, warm, boot, purges, reqs>>

\* A new master has been renamed into place; its cached variants go next.
Write(w, m) ==
  /\ ~ purges[w].on /\ master[m] < MaxVersion
  /\ master' = [master EXCEPT ![m] = @ + 1]
  /\ purges' = [purges EXCEPT ![w] = [IdlePurge EXCEPT !.on = TRUE, !.rel = m]]
  /\ UNCHANGED <<disk, lru, bytes, warm, boot, evict, reqs>>

\* The index entries with this path's prefix, listed once.
PurgeStarts(w) ==
  /\ purges[w].on /\ purges[w].cur = None
  /\ \E p \in PurgeFrom(purges[w].rel, {n \in Indexed : n[1] = purges[w].rel}, Indexed) :
       purges' = [purges EXCEPT ![w] = p]
  /\ UNCHANGED <<master, disk, lru, bytes, warm, boot, evict, reqs>>

PurgeUnlinks(w) ==
  /\ purges[w].cur # None /\ ~ purges[w].gone
  /\ disk' = [disk EXCEPT ![purges[w].cur] = 0]
  /\ purges' = [purges EXCEPT ![w].gone = TRUE]
  /\ UNCHANGED <<master, lru, bytes, warm, boot, evict, reqs>>

PurgeDrops(w) ==
  /\ purges[w].gone
  /\ LET n == purges[w].cur IN
     /\ lru' = Without(lru, n)
     /\ bytes' = bytes - (IF purges[w].counted THEN Size(n) ELSE 0)
     /\ \E p \in PurgeFrom(purges[w].rel, purges[w].todo, Indexed \ {n}) :
          purges' = [purges EXCEPT ![w] = p]
  /\ UNCHANGED <<master, disk, warm, boot, evict, reqs>>

\* The process dies: the files stay, everything else starts over.
Restart ==
  /\ Boots
  /\ lru' = <<>> /\ bytes' = 0 /\ warm' = FALSE
  /\ boot' = [todo |-> {n \in Names : disk[n] # 0}, found |-> {}]
  /\ evict' = IdleEvict
  /\ purges' = [w \in Purgers |-> IdlePurge]
  /\ reqs' = [r \in Reqs |-> IdleReq]
  /\ UNCHANGED <<master, disk>>

-----------------------------------------------------------------------------
ReqStep(r) == \/ GetVariant(r) \/ OnDiskStat(r) \/ OnDiskReturns(r)
              \/ RenderReads(r) \/ RenderRenames(r) \/ RenderAdds(r) \/ RenderFails(r)
              \/ ServeStat(r) \/ ServeVariant(r) \/ ServeMaster(r)

PurgeStep(w) == PurgeStarts(w) \/ PurgeUnlinks(w) \/ PurgeDrops(w)

BootStep == (\E n \in Names : BootStat(n) \/ BootIndex(n)) \/ BootDone

EvictStep == EvictUnlinks \/ EvictDrops

Next == \/ \E r \in Reqs : (\E m \in Masters : Resolve(r, m)) \/ ReqStep(r) \/ Leave(r)
        \/ \E w \in Purgers : (\E m \in Masters : Write(w, m)) \/ PurgeStep(w)
        \/ BootStep \/ EvictStep \/ Restart

Spec == Init /\ [][Next]_vars

\* File calls return and the event loop turns.
FairSpec == /\ Spec
            /\ \A r \in Reqs : WF_vars(ReqStep(r))
            /\ \A w \in Purgers : WF_vars(PurgeStep(w))
            /\ WF_vars(BootStep) /\ WF_vars(EvictStep)

-----------------------------------------------------------------------------
(* What the cache promises.                                                 *)

\* "a replaced master naturally yields fresh variant names": no reply is older
\* than the master was when the request resolved it, whatever purges are late,
\* lost in a restart or raced by a render of the version before.
ServedFresh == \A r \in Reqs :
  reqs[r].pc = "done" /\ reqs[r].got # 0 => reqs[r].got >= reqs[r].since

\* "Identical concurrent requests are de-duped": a variant is being rendered by
\* one request at most, so no two write the same temp file.
SingleRender == \A r, s \in Reqs :
  Renders(r, reqs[r].name) /\ Renders(s, reqs[r].name) => r = s

\* Nobody waits for a render that is not under way.
NoLostWaiter == \A r \in Reqs : reqs[r].pc = "wait" => Rendering(reqs[r].name)

\* Every request is answered, or ends with the process.
Answered == \A r \in Reqs : reqs[r].pc = "resolved" ~> reqs[r].pc \in {"done", "idle"}

WeightOf(seq) ==
  LET sum[i \in 0..Len(seq)] == IF i = 0 THEN 0 ELSE sum[i - 1] + Size(seq[i])
  IN sum[Len(seq)]

Total == WeightOf(lru)

\* `bytes' is what the indexed files weigh, however requests, renders and
\* evictions interleave: "not counted twice", and not missed.
BytesCounted == bytes = Total

Quiet == ~ evict.on /\ \A r \in Reqs : reqs[r].pc \notin {"rendered", "renamed"}

\* The index is the files in the cache directory: nothing it holds is missing
\* and no file escapes eviction.
IndexIsDisk == warm /\ Quiet => Indexed = {n \in Names : disk[n] # 0}

\* "When total bytes exceed maxBytes, the oldest entries are deleted".
CapKept == warm /\ ~ evict.on => Total <= MaxBytes
=============================================================================
