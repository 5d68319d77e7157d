------------------------- MODULE VariantCacheProofs -------------------------
(* Theorems about VariantCache for every number of masters, requests and    *)
(* writes, every cache size and any number of restarts: freshness, the       *)
(* in-flight map, types; and, for the life of one process that purges         *)
(* nothing, that the index is the directory and the byte count its weight.    *)
EXTENDS VariantCache, SequenceTheorems, WellFoundedInduction, NaturalsInduction, TLAPS

Busy == {"resolved", "ondisk", "found", "missing", "render", "rendered", "renamed",
         "wait", "serve", "open", "master", "done"}

\* A variant file is never older than the version its name tells of, and a
\* request carries nothing older than what it found.
Fresh ==
  /\ master \in [Masters -> Versions]
  /\ disk \in [Names -> 0..MaxVersion]
  /\ reqs \in [Reqs -> Req]
  /\ \A n \in Names : disk[n] = 0 \/ disk[n] >= n[2]
  /\ \A r \in Reqs : reqs[r].pc # "idle" =>
       /\ reqs[r].name \in Names
       /\ reqs[r].name[2] = reqs[r].since
       /\ reqs[r].since <= master[reqs[r].name[1]]
       /\ reqs[r].pc = "rendered" => reqs[r].got >= reqs[r].since
       /\ reqs[r].pc = "done" => reqs[r].got = 0 \/ reqs[r].got >= reqs[r].since

LEMMA VersionFacts == /\ MaxVersion \in Nat \ {0}
                      /\ 1 \in Versions /\ 0 \in 0..MaxVersion
                      /\ \A v \in Versions : v \in 0..MaxVersion
                      /\ \A v \in Versions : v + 1 <= MaxVersion => v + 1 \in Versions
BY CacheAssumption DEF Versions

LEMMA FreshInit == Init => Fresh
<1> SUFFICES ASSUME Init PROVE Fresh
  OBVIOUS
<1>1. IdleReq \in Req /\ IdleReq.pc = "idle" BY VersionFacts DEF IdleReq, Req
<1>2. \A n \in Names : disk[n] \in 0..1 /\ n[2] \in 1..MaxVersion
  BY DEF Init, Names, Versions
<1>3. disk \in [Names -> 0..MaxVersion] BY <1>2, VersionFacts DEF Init
<1>4. \A n \in Names : disk[n] = 0 \/ disk[n] >= n[2] BY <1>2 DEF Init
<1> QED BY <1>1, <1>3, <1>4, VersionFacts DEF Init, Fresh

LEMMA FreshStep == Fresh /\ [Next]_vars => Fresh'
<1> SUFFICES ASSUME Fresh, [Next]_vars PROVE Fresh'
  OBVIOUS
<1> USE VersionFacts
<1>1. CASE UNCHANGED <<master, disk, reqs>>
  BY <1>1 DEF Fresh
<1>2. ASSUME UNCHANGED <<master, disk>>, NEW r \in Reqs, NEW pc \in Busy \ {"rendered", "done"},
             SetReq(r, pc), reqs[r].pc # "idle"
      PROVE  Fresh'
  BY <1>2 DEF Fresh, SetReq, Req, Busy
<1>3. ASSUME NEW r \in Reqs, NEW m \in Masters, Resolve(r, m) PROVE Fresh'
  <2> DEFINE new == [pc |-> "resolved", name |-> <<m, master[m]>>,
                     since |-> master[m], got |-> 0]
  <2>1. new \in Req /\ new.name \in Names /\ new.name[1] = m /\ new.name[2] = new.since
        /\ new.pc = "resolved" /\ new.since = master[m] /\ master[m] \in Nat
    BY DEF Fresh, Req, Names, Versions
  <2>2. reqs' = [reqs EXCEPT ![r] = new] /\ UNCHANGED <<master, disk>>
    BY <1>3 DEF Resolve
  <2> HIDE DEF new
  <2> QED BY <2>1, <2>2 DEF Fresh
<1>4. ASSUME NEW r \in Reqs, NEW pc \in Busy \ {"rendered", "done"}, SettleAll(r, pc),
             reqs[r].pc # "idle", UNCHANGED <<master, disk>>
      PROVE  Fresh'
  <2>1. reqs' \in [Reqs -> Req] BY <1>4 DEF SettleAll, Fresh, Req, Busy
  <2>2. \A s \in Reqs : /\ reqs'[s].name = reqs[s].name /\ reqs'[s].since = reqs[s].since
                        /\ reqs'[s] = reqs[s] \/ (reqs[s].pc # "idle" /\ reqs'[s].pc = pc)
    BY <1>4 DEF SettleAll, Fresh, Req
  <2> QED BY <1>4, <2>1, <2>2 DEF Fresh
<1>5. ASSUME NEW r \in Reqs, RenderReads(r) PROVE Fresh'
  <2>1. reqs[r].name \in Names /\ reqs[r].name[1] \in Masters
    BY <1>5 DEF RenderReads, Fresh, Names
  <2> QED BY <1>5, <2>1 DEF RenderReads, Fresh, Req
<1>6. ASSUME NEW r \in Reqs, RenderRenames(r) PROVE Fresh'
  <2>1. reqs[r].name \in Names /\ reqs[r].got >= reqs[r].name[2] /\ reqs[r].got \in 0..MaxVersion
    BY <1>6 DEF RenderRenames, Fresh, Req
  <2>2. disk' \in [Names -> 0..MaxVersion] /\ \A n \in Names : disk'[n] = 0 \/ disk'[n] >= n[2]
    BY <1>6, <2>1 DEF RenderRenames, Fresh
  <2> QED BY <1>6, <2>2 DEF RenderRenames, Fresh, Req
<1>7. ASSUME NEW r \in Reqs, ServeVariant(r) PROVE Fresh'
  BY <1>7 DEF ServeVariant, Fresh, Req
<1>8. ASSUME NEW r \in Reqs, ServeMaster(r) PROVE Fresh'
  <2>1. reqs[r].name \in Names /\ reqs[r].name[1] \in Masters /\ reqs[r].pc = "master"
    BY <1>8 DEF ServeMaster, Fresh, Names
  <2>2. PICK v \in {0, master[reqs[r].name[1]]} :
          reqs' = [reqs EXCEPT ![r].pc = "done", ![r].got = v]
    BY <1>8 DEF ServeMaster
  <2>3. v \in 0..MaxVersion /\ (v = 0 \/ v >= reqs[r].since) BY <2>1 DEF Fresh, Versions
  <2> QED BY <1>8, <2>1, <2>2, <2>3 DEF ServeMaster, Fresh, Req
<1>9. ASSUME NEW r \in Reqs, Leave(r) PROVE Fresh'
  BY <1>9 DEF Leave, Fresh, Req, IdleReq
<1>10. ASSUME NEW r \in Reqs, ReqStep(r) PROVE Fresh'
  <2>1. CASE GetVariant(r) BY <1>2, <2>1 DEF GetVariant, Join, Busy
  <2>2. CASE OnDiskStat(r) BY <1>2, <2>2 DEF OnDiskStat, Busy
  <2>3. CASE OnDiskReturns(r) BY <1>2, <2>3 DEF OnDiskReturns, Join, Busy
  <2>4. CASE RenderAdds(r) BY <1>4, <2>4 DEF RenderAdds, Busy
  <2>5. CASE RenderFails(r) BY <1>4, <2>5 DEF RenderFails, Busy
  <2>6. CASE ServeStat(r) BY <1>2, <2>6 DEF ServeStat, Busy
  <2> QED BY <1>5, <1>6, <1>7, <1>8, <1>10, <2>1, <2>2, <2>3, <2>4, <2>5, <2>6 DEF ReqStep
<1>11. ASSUME UNCHANGED <<master, reqs>>, NEW n, disk' = [disk EXCEPT ![n] = 0]
       PROVE  Fresh'
  BY <1>11 DEF Fresh
<1>12. ASSUME NEW w \in Purgers, NEW m \in Masters, Write(w, m) PROVE Fresh'
  <2>1. master' \in [Masters -> Versions] /\ \A x \in Masters : master[x] <= master'[x]
    BY <1>12 DEF Write, Fresh, Versions
  <2>2. \A r \in Reqs : reqs[r].pc # "idle" =>
          reqs[r].since <= master'[reqs[r].name[1]]
    BY <2>1 DEF Fresh, Names, Versions, Req
  <2> QED BY <1>12, <2>1, <2>2 DEF Write, Fresh
<1>13. CASE Restart
  BY <1>13 DEF Restart, Fresh, IdleReq, Req
<1>14. CASE BootStep \/ EvictStep
  BY <1>1, <1>11, <1>14 DEF BootStep, EvictStep, BootStat, BootIndex, BootDone,
                            EvictUnlinks, EvictDrops
<1>15. ASSUME NEW w \in Purgers, PurgeStep(w) PROVE Fresh'
  BY <1>1, <1>11, <1>15 DEF PurgeStep, PurgeStarts, PurgeUnlinks, PurgeDrops
<1>16. CASE UNCHANGED vars BY <1>1, <1>16 DEF vars
<1> QED BY <1>3, <1>9, <1>10, <1>12, <1>13, <1>14, <1>15, <1>16 DEF Next

\* No reply is older than the master was when its request resolved it: a late
\* purge, a purge lost in a restart, a render raced by a write and an eviction
\* under a request cost a render or a master, never a stale picture.
THEOREM NeverStale == Spec => []ServedFresh
<1>1. Fresh => ServedFresh BY DEF Fresh, ServedFresh
<1> QED BY <1>1, FreshInit, FreshStep, PTL DEF Spec
-----------------------------------------------------------------------------
(* The in-flight map.                                                       *)

InFlight == reqs \in [Reqs -> Req] /\ SingleRender /\ NoLostWaiter

\* A step of one request that neither starts, ends nor awaits a render.
LEMMA Aside ==
  ASSUME InFlight, NEW r \in Reqs, NEW new \in Req, reqs' = [reqs EXCEPT ![r] = new],
         reqs[r].pc \notin {"render", "rendered", "renamed"},
         new.pc \notin {"render", "rendered", "renamed", "wait"}
  PROVE  InFlight'
<1>1. \A s \in Reqs : IF s = r THEN reqs'[s] = new ELSE reqs'[s] = reqs[s]
  BY DEF InFlight
<1>2. reqs' \in [Reqs -> Req] BY DEF InFlight
<1> QED BY <1>1, <1>2 DEF InFlight, SingleRender, NoLostWaiter, Renders, Rendering

\* A render goes on.
LEMMA Onward ==
  ASSUME InFlight, NEW r \in Reqs, NEW new \in Req, reqs' = [reqs EXCEPT ![r] = new],
         reqs[r].pc \in {"render", "rendered"}, new.pc \in {"rendered", "renamed"},
         new.name = reqs[r].name
  PROVE  InFlight'
<1>1. \A s \in Reqs : IF s = r THEN reqs'[s] = new ELSE reqs'[s] = reqs[s]
  BY DEF InFlight
<1>2. reqs' \in [Reqs -> Req] BY DEF InFlight
<1> QED BY <1>1, <1>2 DEF InFlight, SingleRender, NoLostWaiter, Renders, Rendering

LEMMA JoinStep ==
  ASSUME InFlight, NEW r \in Reqs, Join(r), reqs[r].pc \in {"resolved", "missing"}
  PROVE  InFlight'
<1> DEFINE pc == IF Rendering(reqs[r].name) THEN "wait" ELSE "render"
<1>1. /\ reqs' \in [Reqs -> Req] /\ reqs'[r].pc = pc /\ reqs'[r].name = reqs[r].name
      /\ \A s \in Reqs : s # r => reqs'[s] = reqs[s]
  BY DEF Join, SetReq, InFlight, Req
<1>2. CASE Rendering(reqs[r].name)
  <2>1. reqs'[r].pc = "wait" BY <1>1, <1>2
  <2>2. \A s \in Reqs : \A n : Renders(s, n)' <=> Renders(s, n)
    BY <1>1, <2>1 DEF Renders
  <2> QED BY <1>1, <1>2, <2>1, <2>2 DEF InFlight, SingleRender, NoLostWaiter, Renders, Rendering
<1>3. CASE ~ Rendering(reqs[r].name)
  <2>1. reqs'[r].pc = "render" BY <1>1, <1>3
  <2> HIDE DEF pc
  <2>2. SingleRender'
    BY <1>1, <1>3, <2>1 DEF InFlight, SingleRender, Renders, Rendering
  <2>3. NoLostWaiter'
    BY <1>1, <2>1 DEF InFlight, NoLostWaiter, Renders, Rendering
  <2> QED BY <1>1, <2>2, <2>3 DEF InFlight
<1> QED BY <1>2, <1>3

LEMMA SettleAllStep ==
  ASSUME InFlight, NEW r \in Reqs, NEW pc \in {"serve", "master"}, SettleAll(r, pc)
  PROVE  InFlight'
<1>1. reqs' \in [Reqs -> Req] BY VersionFacts DEF SettleAll, InFlight, Req
<1>2. \A s \in Reqs :
        IF s = r \/ (reqs[s].pc = "wait" /\ reqs[s].name = reqs[r].name)
        THEN reqs'[s].pc = pc ELSE reqs'[s] = reqs[s]
  BY DEF SettleAll, InFlight, Req
<1>3. SingleRender' BY <1>2 DEF InFlight, SingleRender, Renders
<1>4. NoLostWaiter' BY <1>2 DEF InFlight, NoLostWaiter, Renders, Rendering
<1> QED BY <1>1, <1>3, <1>4 DEF InFlight

LEMMA InFlightStep == ASSUME Fresh, InFlight, [Next]_vars PROVE InFlight'
<1> USE VersionFacts
<1>1. CASE UNCHANGED reqs
  BY <1>1 DEF InFlight, SingleRender, NoLostWaiter, Renders, Rendering
<1>2. ASSUME NEW r \in Reqs, NEW pc \in {"serve", "ondisk", "found", "missing", "open", "master"},
             SetReq(r, pc), reqs[r].pc \notin {"render", "rendered", "renamed"}
      PROVE  InFlight'
  <2>1. [reqs[r] EXCEPT !.pc = pc] \in Req BY <1>2 DEF InFlight, Req
  <2>2. [reqs[r] EXCEPT !.pc = pc].pc = pc BY DEF InFlight, Req
  <2>3. reqs' = [reqs EXCEPT ![r] = [reqs[r] EXCEPT !.pc = pc]] BY <1>2 DEF SetReq, InFlight
  <2> QED BY <1>2, <2>1, <2>2, <2>3, Aside
<1>3. ASSUME NEW r \in Reqs, NEW m \in Masters, Resolve(r, m) PROVE InFlight'
  <2> DEFINE new == [pc |-> "resolved", name |-> <<m, master[m]>>,
                     since |-> master[m], got |-> 0]
  <2>1. new \in Req /\ new.pc = "resolved" BY DEF Fresh, Req, Names
  <2>2. reqs' = [reqs EXCEPT ![r] = new] /\ reqs[r].pc = "idle" BY <1>3 DEF Resolve
  <2> HIDE DEF new
  <2> QED BY <2>1, <2>2, Aside
<1>4. ASSUME NEW r \in Reqs, NEW pc \in {"rendered", "renamed"}, NEW got \in 0..MaxVersion,
             reqs' = [reqs EXCEPT ![r].pc = pc, ![r].got = got],
             reqs[r].pc \in {"render", "rendered"}
      PROVE  InFlight'
  <2> DEFINE new == [reqs[r] EXCEPT !.pc = pc, !.got = got]
  <2>1. new \in Req /\ new.pc = pc /\ new.name = reqs[r].name BY DEF InFlight, Req
  <2>2. reqs' = [reqs EXCEPT ![r] = new] BY <1>4 DEF InFlight
  <2> HIDE DEF new
  <2> QED BY <1>4, <2>1, <2>2, Onward
<1>5. ASSUME NEW r \in Reqs, NEW got \in 0..MaxVersion, reqs[r].pc \in {"open", "master"},
             reqs' = [reqs EXCEPT ![r].pc = "done", ![r].got = got]
      PROVE  InFlight'
  <2> DEFINE new == [reqs[r] EXCEPT !.pc = "done", !.got = got]
  <2>1. new \in Req /\ new.pc = "done" BY DEF InFlight, Req
  <2>2. reqs' = [reqs EXCEPT ![r] = new] BY <1>5 DEF InFlight
  <2> HIDE DEF new
  <2> QED BY <1>5, <2>1, <2>2, Aside
<1>6. ASSUME NEW r \in Reqs, ReqStep(r) PROVE InFlight'
  <2>1. reqs[r].pc # "idle" => /\ reqs[r].name \in Names
                               /\ master[reqs[r].name[1]] \in 0..MaxVersion
                               /\ disk[reqs[r].name] \in 0..MaxVersion
    BY DEF Fresh, Names
  <2>2. CASE GetVariant(r) BY <1>2, <2>2, JoinStep DEF GetVariant
  <2>3. CASE OnDiskStat(r) BY <1>2, <2>3 DEF OnDiskStat
  <2>4. CASE OnDiskReturns(r) BY <1>2, <2>4, JoinStep DEF OnDiskReturns
  <2>5. CASE RenderReads(r) BY <1>4, <2>1, <2>5 DEF RenderReads
  <2>6. CASE RenderRenames(r) BY <1>4, <2>6 DEF RenderRenames
  <2>7. CASE RenderAdds(r) BY <2>7, SettleAllStep DEF RenderAdds
  <2>8. CASE RenderFails(r) BY <2>8, SettleAllStep DEF RenderFails
  <2>9. CASE ServeStat(r) BY <1>2, <2>9 DEF ServeStat
  <2>10. CASE ServeVariant(r) BY <1>5, <2>1, <2>10 DEF ServeVariant
  <2>11. CASE ServeMaster(r) BY <1>5, <2>1, <2>11 DEF ServeMaster
  <2> QED BY <1>6, <2>2, <2>3, <2>4, <2>5, <2>6, <2>7, <2>8, <2>9, <2>10, <2>11 DEF ReqStep
<1>7. ASSUME NEW r \in Reqs, Leave(r) PROVE InFlight'
  <2>1. IdleReq \in Req /\ IdleReq.pc = "idle" BY DEF IdleReq, Req
  <2> QED BY <1>7, <2>1, Aside DEF Leave
<1>8. CASE Restart
  BY <1>8 DEF Restart, InFlight, SingleRender, NoLostWaiter, Renders, Rendering, IdleReq, Req
<1>9. CASE BootStep \/ EvictStep
  BY <1>1, <1>9 DEF BootStep, EvictStep, BootStat, BootIndex, BootDone, EvictUnlinks, EvictDrops
<1>10. ASSUME NEW w \in Purgers, PurgeStep(w) \/ \E m \in Masters : Write(w, m) PROVE InFlight'
  BY <1>1, <1>10 DEF PurgeStep, PurgeStarts, PurgeUnlinks, PurgeDrops, Write
<1>11. CASE UNCHANGED vars BY <1>1, <1>11 DEF vars
<1> QED BY <1>3, <1>6, <1>7, <1>8, <1>9, <1>10, <1>11 DEF Next

LEMMA InFlightInit == Init => InFlight
BY VersionFacts DEF Init, InFlight, SingleRender, NoLostWaiter, Renders, Rendering, IdleReq, Req

\* A variant is rendered by one request at a time, and whoever waits for a render
\* waits for one that is under way: the in-flight map of getVariant() never loses
\* a waiter and never lets two renders write the same temp file.
THEOREM RenderedOnce == Spec => [](SingleRender /\ NoLostWaiter)
<1>1. InFlight => SingleRender /\ NoLostWaiter BY DEF InFlight
<1> QED BY <1>1, FreshInit, FreshStep, InFlightInit, InFlightStep, PTL DEF Spec
-----------------------------------------------------------------------------
(* Sequences of names: what a deletion and an insertion leave.              *)

Elements(seq) == {seq[i] : i \in 1..Len(seq)}
Distinct(seq) == \A i, j \in 1..Len(seq) : seq[i] = seq[j] => i = j

LEMMA Cut ==
  ASSUME NEW S, NEW seq \in Seq(S), NEW at \in 1..Len(seq),
         NEW rest, rest = SubSeq(seq, 1, at - 1) \o SubSeq(seq, at + 1, Len(seq))
  PROVE  /\ rest \in Seq(S) /\ Len(rest) = Len(seq) - 1
         /\ \A k \in 1..Len(seq) - 1 : rest[k] = IF k < at THEN seq[k] ELSE seq[k + 1]
<1> DEFINE a == SubSeq(seq, 1, at - 1)
           b == SubSeq(seq, at + 1, Len(seq))
<1>1. Len(seq) \in Nat /\ at \in Nat BY LenProperties
<1>2. a \in Seq(S) /\ Len(a) = at - 1 /\ \A i \in 1..at - 1 : a[i] = seq[i]
  <2>1. \A i \in 1..at - 1 : seq[i] \in S BY <1>1, ElementOfSeq
  <2> QED BY <1>1, <2>1, SubSeqProperties
<1>3. /\ b \in Seq(S) /\ Len(b) = Len(seq) - at
      /\ \A i \in 1..Len(seq) - at : b[i] = seq[at + i]
  <2>1. \A i \in at + 1..Len(seq) : seq[i] \in S BY <1>1, ElementOfSeq
  <2>2. /\ b \in Seq(S) /\ Len(b) = IF at + 1 <= Len(seq) THEN Len(seq) - (at + 1) + 1 ELSE 0
        /\ \A i \in 1..Len(seq) - (at + 1) + 1 : b[i] = seq[at + 1 + i - 1]
    BY <1>1, <2>1, SubSeqProperties
  <2>3. Len(b) = Len(seq) - at BY <1>1, <2>2
  <2>4. Len(seq) - (at + 1) + 1 = Len(seq) - at BY <1>1
  <2>5. \A i \in 1..Len(seq) - at : at + 1 + i - 1 = at + i BY <1>1
  <2> QED BY <2>2, <2>3, <2>4, <2>5
<1> HIDE DEF a, b
<1>4. /\ a \o b \in Seq(S) /\ Len(a \o b) = Len(a) + Len(b)
      /\ \A i \in 1..Len(a) + Len(b) : (a \o b)[i] = IF i <= Len(a) THEN a[i] ELSE b[i - Len(a)]
  BY <1>2, <1>3, ConcatProperties
<1>5. rest = a \o b BY DEF a, b
<1>6. Len(a) + Len(b) = Len(seq) - 1 BY <1>1, <1>2, <1>3
<1>7. ASSUME NEW k \in 1..Len(seq) - 1
      PROVE  rest[k] = IF k < at THEN seq[k] ELSE seq[k + 1]
  <2>1. k \in Nat /\ k >= 1 BY <1>1
  <2>2. rest[k] = IF k <= at - 1 THEN a[k] ELSE b[k - (at - 1)]
    BY <1>2, <1>4, <1>5, <1>6, <1>7
  <2>3. CASE k < at
    <3>1. k \in 1..at - 1 BY <1>1, <2>1, <2>3
    <3>2. a[k] = seq[k] BY <1>2, <3>1
    <3>3. k <= at - 1 BY <1>1, <2>1, <2>3
    <3>4. rest[k] = a[k] BY <2>2, <3>3
    <3> QED BY <2>3, <3>2, <3>4
  <2>4. CASE ~ (k < at)
    <3>1. k - (at - 1) \in 1..Len(seq) - at /\ at + (k - (at - 1)) = k + 1
      BY <1>1, <1>7, <2>1, <2>4
    <3>2. b[k - (at - 1)] = seq[at + (k - (at - 1))] BY <1>3, <3>1
    <3>3. b[k - (at - 1)] = seq[k + 1] BY <3>1, <3>2
    <3>4. ~ (k <= at - 1) BY <1>1, <2>1, <2>4
    <3>5. rest[k] = b[k - (at - 1)] BY <2>2, <3>4
    <3> QED BY <2>4, <3>3, <3>5
  <2> QED BY <2>3, <2>4
<1> QED BY <1>4, <1>5, <1>6, <1>7

LEMMA WithoutCuts ==
  ASSUME NEW S, NEW seq \in Seq(S), NEW n
  PROVE  \/ /\ n \notin Elements(seq) /\ Without(seq, n) = seq
         \/ \E at \in 1..Len(seq) :
              /\ seq[at] = n
              /\ Without(seq, n) = SubSeq(seq, 1, at - 1) \o SubSeq(seq, at + 1, Len(seq))
<1>1. CASE \E i \in 1..Len(seq) : seq[i] = n
  <2>1. PICK at : at = CHOOSE i \in 1..Len(seq) : seq[i] = n OBVIOUS
  <2>2. at \in 1..Len(seq) /\ seq[at] = n BY <1>1, <2>1
  <2>3. Without(seq, n) = SubSeq(seq, 1, at - 1) \o SubSeq(seq, at + 1, Len(seq))
    BY <1>1, <2>1 DEF Without
  <2> QED BY <2>2, <2>3
<1>2. CASE ~ \E i \in 1..Len(seq) : seq[i] = n BY <1>2 DEF Without, Elements
<1> QED BY <1>1, <1>2

LEMMA WithoutType ==
  ASSUME NEW S, NEW seq \in Seq(S), NEW n PROVE Without(seq, n) \in Seq(S)
<1>1. PICK rest : rest = Without(seq, n) OBVIOUS
<1>2. ASSUME NEW at \in 1..Len(seq), rest = SubSeq(seq, 1, at - 1) \o SubSeq(seq, at + 1, Len(seq))
      PROVE  rest \in Seq(S)
  BY <1>2, Cut
<1> QED BY <1>1, <1>2, WithoutCuts

LEMMA WithoutElements ==
  ASSUME NEW S, NEW seq \in Seq(S), Distinct(seq), NEW n
  PROVE  /\ Distinct(Without(seq, n))
         /\ Elements(Without(seq, n)) = Elements(seq) \ {n}
<1>1. CASE n \notin Elements(seq) /\ Without(seq, n) = seq BY <1>1
<1>2. ASSUME NEW at \in 1..Len(seq), seq[at] = n,
             Without(seq, n) = SubSeq(seq, 1, at - 1) \o SubSeq(seq, at + 1, Len(seq))
      PROVE  /\ Distinct(Without(seq, n))
             /\ Elements(Without(seq, n)) = Elements(seq) \ {n}
  <2>1. PICK rest : rest = Without(seq, n) OBVIOUS
  <2>2. /\ rest \in Seq(S) /\ Len(rest) = Len(seq) - 1
        /\ \A k \in 1..Len(seq) - 1 : rest[k] = IF k < at THEN seq[k] ELSE seq[k + 1]
    BY <1>2, <2>1, Cut
  <2>3. Len(seq) \in Nat BY LenProperties
  <2>4. Distinct(rest) BY <2>2, <2>3 DEF Distinct
  <2>5. ASSUME NEW x \in Elements(rest) PROVE x \in Elements(seq) \ {n}
    <3>1. PICK k \in 1..Len(seq) - 1 : x = rest[k] BY <2>2 DEF Elements
    <3>2. PICK j \in 1..Len(seq) : x = seq[j] /\ j # at BY <2>2, <2>3, <3>1
    <3> QED BY <1>2, <3>2 DEF Elements, Distinct
  <2>6. ASSUME NEW x \in Elements(seq) \ {n} PROVE x \in Elements(rest)
    <3>1. PICK j \in 1..Len(seq) : x = seq[j] /\ j # at BY <1>2 DEF Elements
    <3>2. PICK k \in 1..Len(seq) - 1 : k = IF j < at THEN j ELSE j - 1 BY <2>3, <3>1
    <3>3. rest[k] = x BY <2>2, <2>3, <3>1, <3>2
    <3> QED BY <2>2, <3>3 DEF Elements
  <2> QED BY <2>1, <2>4, <2>5, <2>6
<1> QED BY <1>1, <1>2, WithoutCuts

LEMMA AppendElements ==
  ASSUME NEW S, NEW seq \in Seq(S), NEW n \in S
  PROVE  /\ Append(seq, n) \in Seq(S)
         /\ Elements(Append(seq, n)) = Elements(seq) \cup {n}
         /\ Distinct(seq) /\ n \notin Elements(seq) => Distinct(Append(seq, n))
<1>1. PICK more : more = Append(seq, n) OBVIOUS
<1>2. /\ more \in Seq(S) /\ Len(more) = Len(seq) + 1 /\ more[Len(seq) + 1] = n
      /\ \A i \in 1..Len(seq) : more[i] = seq[i]
  BY <1>1, AppendProperties
<1>3. Len(seq) \in Nat BY LenProperties
<1>4. Elements(more) = Elements(seq) \cup {n}
  <2>1. \A i \in 1..Len(seq) + 1 : i \in 1..Len(seq) \/ i = Len(seq) + 1 BY <1>3
  <2>2. \A i \in 1..Len(seq) : i \in 1..Len(seq) + 1 BY <1>3
  <2>3. Len(seq) + 1 \in 1..Len(seq) + 1 BY <1>3
  <2> QED BY <1>2, <2>1, <2>2, <2>3 DEF Elements
<1>5. Distinct(seq) /\ n \notin Elements(seq) => Distinct(more)
  BY <1>2, <1>3 DEF Elements, Distinct
<1> QED BY <1>1, <1>2, <1>4, <1>5

\* The most recently used goes to the end.
LEMMA TouchedElements ==
  ASSUME lru \in Seq(Names), NEW n \in Names
  PROVE  /\ Touched(n) \in Seq(Names)
         /\ Distinct(lru) => Distinct(Touched(n)) /\ Elements(Touched(n)) = Elements(lru) \cup {n}
<1>1. PICK rest : rest = Without(lru, n) OBVIOUS
<1>2. rest \in Seq(Names) BY <1>1, WithoutType
<1>3. Distinct(lru) => Distinct(rest) /\ Elements(rest) = Elements(lru) \ {n}
  BY <1>1, WithoutElements
<1> QED BY <1>1, <1>2, <1>3, AppendElements DEF Touched

LEMMA InsertedType ==
  ASSUME NEW seq \in Seq(Names), NEW n \in Names, NEW i \in 0..Len(seq)
  PROVE  Inserted(seq, n, i) \in Seq(Names)
<1>1. Len(seq) \in Nat /\ i \in Nat BY LenProperties
<1>2. \A k \in 1..i : seq[k] \in Names BY <1>1, ElementOfSeq
<1>3. \A k \in i + 1..Len(seq) : seq[k] \in Names BY <1>1, ElementOfSeq
<1>4. SubSeq(seq, 1, i) \in Seq(Names) /\ SubSeq(seq, i + 1, Len(seq)) \in Seq(Names)
  BY <1>1, <1>2, <1>3, SubSeqProperties
<1>5. <<n>> \in Seq(Names) OBVIOUS
<1> QED BY <1>4, <1>5, ConcatProperties DEF Inserted

-----------------------------------------------------------------------------
(* Types.                                                                   *)

SizesOK == \A n \in Names : Size(n) \in Nat
LEMMA Sizes == SizesOK
BY CacheAssumption DEF SizesOK, Size, Names

Evictions == [on : BOOLEAN, todo : Seq(Names), cur : Names \cup {None}, gone : BOOLEAN]
Purges == [on : BOOLEAN, rel : Masters \cup {None}, todo : SUBSET Names,
           cur : Names \cup {None}, counted : BOOLEAN, gone : BOOLEAN]

\* An eviction or purge that has unlinked something knows what.
EvictOK(e) == e \in Evictions /\ (e.gone => e.on) /\ (e.on => e.cur \in Names)
PurgeOK(p) == p \in Purges /\ (p.gone => p.cur # None) /\ (p.cur # None => p.on)
                           /\ (p.on => p.rel \in Masters)

Typed == TypeOK /\ EvictOK(evict) /\ \A w \in Purgers : PurgeOK(purges[w])

LEMMA EvictFromOK ==
  ASSUME NEW todo \in Seq(Names), NEW total PROVE EvictOK(EvictFrom(todo, total))
<1>1. EvictOK(IdleEvict)
  BY EmptySeq DEF EvictOK, Evictions, IdleEvict
<1>2. CASE todo # <<>>
  <2>1. Head(todo) \in Names /\ Tail(todo) \in Seq(Names) BY <1>2, HeadTailProperties
  <2> QED BY <1>1, <2>1 DEF EvictFrom, EvictOK, Evictions
<1> QED BY <1>1, <1>2 DEF EvictFrom

LEMMA EvictIfNeededOK ==
  ASSUME Typed, NEW index \in Seq(Names), NEW total PROVE EvictOK(EvictIfNeeded(index, total))
BY EvictFromOK DEF EvictIfNeeded, Typed

LEMMA IdlePurgeOK == PurgeOK(IdlePurge)
BY DEF PurgeOK, Purges, IdlePurge

LEMMA PurgeFromOK ==
  ASSUME NEW rel \in Masters, NEW todo \in SUBSET Names, NEW index,
         NEW p \in PurgeFrom(rel, todo, index)
  PROVE  PurgeOK(p)
<1>1. CASE todo = {} BY <1>1, IdlePurgeOK DEF PurgeFrom
<1>2. CASE todo # {}
  <2>1. PICK n \in todo : p = [on |-> TRUE, rel |-> rel, todo |-> todo \ {n}, cur |-> n,
                               counted |-> (n \in index), gone |-> FALSE]
    BY <1>2 DEF PurgeFrom
  <2>2. (n \in index) \in BOOLEAN OBVIOUS
  <2>3. PICK c \in BOOLEAN : c = (n \in index) BY <2>2
  <2> QED BY <2>1, <2>3, CacheAssumption DEF PurgeOK, Purges
<1> QED BY <1>1, <1>2

\* Whatever a request does, the index holds names and the total is a number.
LEMMA ReqTyped ==
  ASSUME Typed, Fresh, NEW r \in Reqs, ReqStep(r)
  PROVE  /\ lru' \in Seq(Names) /\ bytes' \in Int /\ EvictOK(evict')
         /\ UNCHANGED <<warm, boot, purges>>
<1>1. /\ lru \in Seq(Names) /\ bytes \in Int /\ EvictOK(evict)
      /\ reqs[r].pc # "idle" => reqs[r].name \in Names
  BY DEF Typed, TypeOK, Fresh
<1>2. CASE UNCHANGED <<lru, bytes, warm, boot, evict, purges>> BY <1>1, <1>2
<1>3. CASE GetVariant(r)
  BY <1>1, <1>3, TouchedElements DEF GetVariant
<1>4. CASE OnDiskReturns(r)
  <2>1. reqs[r].pc \in {"found", "missing"} BY <1>4 DEF OnDiskReturns
  <2>2. Size(reqs[r].name) \in Nat BY <1>1, <2>1, Sizes DEF SizesOK
  <2>3. bytes + Size(reqs[r].name) \in Int BY <1>1, <2>2
  <2> QED BY <1>1, <1>4, <2>1, <2>3, TouchedElements DEF OnDiskReturns
<1>5. CASE RenderAdds(r)
  <2>1. PICK n \in Names : n = reqs[r].name BY <1>1, <1>5 DEF RenderAdds
  <2>2. Touched(n) \in Seq(Names) BY <1>1, TouchedElements
  <2>3. bytes + Size(n) \in Int BY <1>1, Sizes DEF SizesOK
  <2>4. EvictOK(EvictIfNeeded(Touched(n), bytes + Size(n))) BY <2>2, EvictIfNeededOK
  <2>5. /\ lru' = Touched(n) /\ bytes' = bytes + Size(n)
        /\ evict' = EvictIfNeeded(Touched(n), bytes + Size(n))
    BY <1>5, <2>1 DEF RenderAdds
  <2> QED BY <1>5, <2>2, <2>3, <2>4, <2>5 DEF RenderAdds
<1> QED
  BY <1>2, <1>3, <1>4, <1>5
  DEF ReqStep, OnDiskStat, RenderReads, RenderRenames, RenderFails, ServeStat, ServeVariant, ServeMaster

LEMMA PurgeTyped ==
  ASSUME Typed, NEW w \in Purgers, PurgeStep(w) \/ \E m \in Masters : Write(w, m)
  PROVE  /\ lru' \in Seq(Names) /\ bytes' \in Int /\ UNCHANGED <<warm, boot, evict>>
         /\ purges' \in [Purgers -> Purges] /\ \A x \in Purgers : PurgeOK(purges'[x])
<1>1. /\ lru \in Seq(Names) /\ bytes \in Int /\ purges \in [Purgers -> Purges] /\ PurgeOK(purges[w])
      /\ \A x \in Purgers : PurgeOK(purges[x])
  BY DEF Typed, TypeOK, Purges
<1>2. ASSUME NEW p, PurgeOK(p), purges' = [purges EXCEPT ![w] = p]
      PROVE  purges' \in [Purgers -> Purges] /\ \A x \in Purgers : PurgeOK(purges'[x])
  BY <1>1, <1>2 DEF PurgeOK
<1>3. ASSUME NEW m \in Masters, Write(w, m) PROVE
        /\ lru' \in Seq(Names) /\ bytes' \in Int /\ UNCHANGED <<warm, boot, evict>>
        /\ purges' \in [Purgers -> Purges] /\ \A x \in Purgers : PurgeOK(purges'[x])
  <2>1. PICK p : p = [IdlePurge EXCEPT !.on = TRUE, !.rel = m] OBVIOUS
  <2>2. PurgeOK(p) BY <2>1 DEF PurgeOK, Purges, IdlePurge
  <2> QED BY <1>1, <1>2, <1>3, <2>1, <2>2 DEF Write
<1>4. CASE PurgeStarts(w)
  <2>1. PICK p \in PurgeFrom(purges[w].rel, {n \in Indexed : n[1] = purges[w].rel}, Indexed) :
          purges' = [purges EXCEPT ![w] = p]
    BY <1>4 DEF PurgeStarts
  <2>2. Indexed \subseteq Names BY <1>1, ElementOfSeq DEF Indexed
  <2>3. PurgeOK(p) BY <1>1, <1>4, <2>1, <2>2, PurgeFromOK DEF PurgeStarts, PurgeOK
  <2> QED BY <1>1, <1>2, <1>4, <2>1, <2>3 DEF PurgeStarts
<1>5. CASE PurgeUnlinks(w)
  <2>1. PICK p : p = [purges[w] EXCEPT !.gone = TRUE] OBVIOUS
  <2>2. PurgeOK(p) BY <1>1, <1>5, <2>1 DEF PurgeUnlinks, PurgeOK, Purges
  <2>3. purges' = [purges EXCEPT ![w] = p] BY <1>5, <2>1 DEF PurgeUnlinks
  <2> QED BY <1>1, <1>2, <1>5, <2>2, <2>3 DEF PurgeUnlinks
<1>6. CASE PurgeDrops(w)
  <2>1. PICK n : n = purges[w].cur OBVIOUS
  <2>2. n \in Names /\ purges[w].rel \in Masters /\ purges[w].todo \in SUBSET Names
    BY <1>1, <1>6, <2>1 DEF PurgeDrops, PurgeOK, Purges
  <2>3. PICK p \in PurgeFrom(purges[w].rel, purges[w].todo, Indexed \ {n}) :
          purges' = [purges EXCEPT ![w] = p]
    BY <1>6, <2>1 DEF PurgeDrops
  <2>4. PurgeOK(p) BY <2>2, <2>3, PurgeFromOK
  <2>5. bytes - Size(n) \in Int /\ bytes - 0 \in Int BY <1>1, <2>2, Sizes DEF SizesOK
  <2>6. lru' = Without(lru, n) /\ (bytes' = bytes - Size(n) \/ bytes' = bytes - 0)
    BY <1>6, <2>1 DEF PurgeDrops
  <2>7. lru' \in Seq(Names) BY <1>1, <2>6, WithoutType
  <2>8. bytes' \in Int BY <2>5, <2>6
  <2>9. purges' \in [Purgers -> Purges] /\ \A x \in Purgers : PurgeOK(purges'[x])
    BY <1>2, <2>3, <2>4
  <2> QED BY <1>6, <2>7, <2>8, <2>9 DEF PurgeDrops
<1> QED BY <1>3, <1>4, <1>5, <1>6 DEF PurgeStep

LEMMA BootTyped ==
  ASSUME Typed, BootStep \/ EvictStep
  PROVE  /\ lru' \in Seq(Names) /\ bytes' \in Int /\ warm' \in BOOLEAN
         /\ boot' \in [todo : SUBSET Names, found : SUBSET Names]
         /\ EvictOK(evict') /\ UNCHANGED purges
<1>1. /\ lru \in Seq(Names) /\ bytes \in Int /\ warm \in BOOLEAN /\ EvictOK(evict)
      /\ boot \in [todo : SUBSET Names, found : SUBSET Names]
  BY DEF Typed, TypeOK
<1>2. ASSUME NEW n \in Names, BootStat(n) PROVE boot' \in [todo : SUBSET Names, found : SUBSET Names]
  BY <1>1, <1>2 DEF BootStat
<1>3. ASSUME NEW n \in Names, BootIndex(n)
      PROVE  /\ boot' \in [todo : SUBSET Names, found : SUBSET Names]
             /\ lru' \in Seq(Names) /\ bytes' \in Int
  <2>1. bytes + Size(n) \in Int BY <1>1, Sizes DEF SizesOK
  <2> QED BY <1>1, <1>3, <2>1, InsertedType DEF BootIndex
<1>4. CASE BootDone
  BY <1>1, <1>4, EvictIfNeededOK DEF BootDone
<1>5. CASE EvictUnlinks
  BY <1>1, <1>5 DEF EvictUnlinks, EvictOK, Evictions
<1>6. CASE EvictDrops
  <2>1. PICK n \in Names : n = evict.cur BY <1>1, <1>6 DEF EvictDrops, EvictOK
  <2>2. bytes - Size(n) \in Int BY <1>1, Sizes DEF SizesOK
  <2>3. EvictOK(EvictFrom(evict.todo, bytes - Size(n)))
    BY <1>1, EvictFromOK DEF EvictOK, Evictions
  <2> QED BY <1>1, <1>6, <2>1, <2>2, <2>3, WithoutType DEF EvictDrops
<1> QED
  BY <1>1, <1>2, <1>3, <1>4, <1>5, <1>6 DEF BootStep, EvictStep, BootStat, BootIndex, BootDone, EvictUnlinks, EvictDrops

LEMMA TypedStep == ASSUME Typed, Fresh, Fresh', [Next]_vars PROVE Typed'
<1>1. /\ lru \in Seq(Names) /\ bytes \in Int /\ warm \in BOOLEAN /\ EvictOK(evict)
      /\ boot \in [todo : SUBSET Names, found : SUBSET Names]
      /\ purges \in [Purgers -> Purges] /\ \A w \in Purgers : PurgeOK(purges[w])
  BY DEF Typed, TypeOK, Purges
<1>2. ASSUME /\ lru' \in Seq(Names) /\ bytes' \in Int /\ warm' \in BOOLEAN /\ EvictOK(evict')
             /\ boot' \in [todo : SUBSET Names, found : SUBSET Names]
             /\ purges' \in [Purgers -> Purges] /\ \A w \in Purgers : PurgeOK(purges'[w])
      PROVE  Typed'
  <2>1. /\ master' \in [Masters -> Versions] /\ disk' \in [Names -> 0..MaxVersion]
        /\ reqs' \in [Reqs -> Req]
    BY DEF Fresh
  <2>2. evict' \in Evictions BY <1>2 DEF EvictOK
  <2>3. TypeOK' BY <1>2, <2>1, <2>2 DEF TypeOK, Evictions, Purges
  <2> QED BY <1>2, <2>3 DEF Typed, EvictOK, PurgeOK
<1>3. CASE UNCHANGED <<lru, bytes, warm, boot, evict, purges>> BY <1>1, <1>2, <1>3
<1>4. ASSUME NEW r \in Reqs, ReqStep(r) PROVE Typed' BY <1>1, <1>2, <1>4, ReqTyped
<1>5. ASSUME NEW w \in Purgers, PurgeStep(w) \/ \E m \in Masters : Write(w, m) PROVE Typed'
  BY <1>1, <1>2, <1>5, PurgeTyped
<1>6. CASE BootStep \/ EvictStep BY <1>1, <1>2, <1>6, BootTyped
<1>7. CASE Restart
  <2>1. EvictOK(IdleEvict) BY EmptySeq DEF EvictOK, Evictions, IdleEvict
  <2>2. PICK e \in Seq(Names) : e = <<>> BY EmptySeq
  <2>3. IdlePurge \in Purges /\ PurgeOK(IdlePurge) BY IdlePurgeOK DEF PurgeOK
  <2>4. \A w \in Purgers : purges'[w] = IdlePurge BY <1>7 DEF Restart
  <2>5. purges' \in [Purgers -> Purges] BY <1>7, <2>3 DEF Restart
  <2>6. boot' \in [todo : SUBSET Names, found : SUBSET Names] BY <1>7 DEF Restart
  <2>7. bytes' \in Int /\ warm' \in BOOLEAN /\ lru' \in Seq(Names)
    <3>1. bytes' = 0 /\ lru' = e BY <1>7, <2>2 DEF Restart
    <3>2. warm' \in BOOLEAN BY <1>7, Zenon DEF Restart
    <3> QED BY <3>1, <3>2
  <2>8. \A w \in Purgers : PurgeOK(purges'[w]) BY <2>3, <2>4
  <2>9. evict' = IdleEvict BY <1>7 DEF Restart
  <2>10. EvictOK(evict') BY <2>1, <2>9
  <2> QED BY <1>2, <2>5, <2>6, <2>7, <2>8, <2>10
<1>8. ASSUME NEW r \in Reqs, Leave(r) \/ \E m \in Masters : Resolve(r, m) PROVE Typed'
  BY <1>3, <1>8 DEF Resolve, Leave
<1>9. CASE UNCHANGED vars BY <1>3, <1>9 DEF vars
<1> QED BY <1>4, <1>5, <1>6, <1>7, <1>8, <1>9 DEF Next

LEMMA TypedInit == Init => Typed
<1> SUFFICES ASSUME Init PROVE Typed OBVIOUS
<1>1. Fresh BY FreshInit
<1>2. EvictOK(IdleEvict) BY EmptySeq DEF EvictOK, Evictions, IdleEvict
<1>3. purges \in [Purgers -> Purges] /\ \A w \in Purgers : PurgeOK(purges[w])
  BY IdlePurgeOK DEF Init, PurgeOK
<1>4. evict \in Evictions /\ EvictOK(evict) BY <1>2 DEF Init, EvictOK
<1>5. lru \in Seq(Names) BY EmptySeq DEF Init
<1>6. boot \in [todo : SUBSET Names, found : SUBSET Names] BY DEF Init
<1>7. warm \in BOOLEAN /\ bytes \in Int BY CacheAssumption DEF Init
<1> QED BY <1>1, <1>3, <1>4, <1>5, <1>6, <1>7 DEF Typed, TypeOK, Fresh, Evictions, Purges

\* Types, and that an eviction or a purge that has unlinked a file knows which.
THEOREM TypeCorrect == Spec => []TypeOK
<1>1. Typed => TypeOK BY DEF Typed
<1>2. Fresh /\ Typed /\ [Next]_vars => Fresh' /\ Typed' BY FreshStep, TypedStep
<1> QED BY <1>1, <1>2, FreshInit, TypedInit, PTL DEF Spec

-----------------------------------------------------------------------------
(* The weight of a sequence of names.                                       *)

\* Induction up to n, for a property that is a set of numbers.
LEMMA UpTo ==
  ASSUME NEW n \in Nat, NEW T, 0 \in T, \A i \in 1..n : i - 1 \in T => i \in T
  PROVE  \A i \in 0..n : i \in T
<1> SUFFICES ASSUME NEW k \in 0..n, k \notin T PROVE FALSE OBVIOUS
<1> DEFINE R == OpToRel(<, Nat)
           S == {i \in 0..n : i \notin T}
<1>1. IsWellFoundedOn(R, Nat) BY NatLessThanWellFounded
<1>2. \A x, y \in Nat : y < x => <<y, x>> \in R BY DEF OpToRel
<1>3. S \in SUBSET Nat /\ S # {} OBVIOUS
<1> HIDE DEF R
<1>4. PICK x \in S : \A y \in S : <<y, x>> \notin R BY <1>1, <1>3, WFMin
<1>5. x \in 1..n /\ x - 1 \in 0..n /\ x - 1 < x OBVIOUS
<1>6. x - 1 \in S BY <1>5
<1>7. x \in Nat /\ x - 1 \in Nat BY <1>5
<1> QED BY <1>2, <1>4, <1>5, <1>6, <1>7

\* What the entries weigh up to each place.
Sums(P, seq) ==
  /\ P \in [0..Len(seq) -> Int] /\ P[0] = 0
  /\ \A i \in 1..Len(seq) : P[i] = P[i - 1] + Size(seq[i])

LEMMA SumsExist == ASSUME NEW seq \in Seq(Names) PROVE \E P : Sums(P, seq)
<1> DEFINE n == Len(seq)
           Upto(P, k) == /\ P \in [0..k -> Int] /\ P[0] = 0
                         /\ \A i \in 1..k : P[i] = P[i - 1] + Size(seq[i])
           T == {k \in Nat : k <= n => \E P : Upto(P, k)}
<1>1. n \in Nat BY LenProperties
<1>2. \A i \in 1..n : Size(seq[i]) \in Int BY <1>1, ElementOfSeq, Sizes DEF SizesOK
<1>3. 0 \in T
  <2>1. Upto([i \in 0..0 |-> 0], 0) OBVIOUS
  <2> QED BY <2>1
<1>4. ASSUME NEW k \in 1..n, k - 1 \in T PROVE k \in T
  <2>1. k \in Nat /\ k - 1 \in Nat /\ k - 1 <= n BY <1>1
  <2>2. PICK P : Upto(P, k - 1) BY <1>4, <2>1
  <2>3. P[k - 1] + Size(seq[k]) \in Int BY <1>2, <2>1, <2>2
  <2> DEFINE Q == [i \in 0..k |-> IF i = k THEN P[k - 1] + Size(seq[k]) ELSE P[i]]
  <2>4. \A i \in 0..k : i # k => i \in 0..k - 1 BY <2>1
  <2>5. Q \in [0..k -> Int] BY <2>2, <2>3, <2>4
  <2>6. Q[0] = 0 BY <2>1, <2>2
  <2>7. ASSUME NEW i \in 1..k PROVE Q[i] = Q[i - 1] + Size(seq[i])
    <3>1. i \in 0..k /\ i - 1 \in 0..k /\ i - 1 # k BY <2>1
    <3>2. Q[i - 1] = P[i - 1] BY <3>1
    <3>3. i # k => i \in 1..k - 1 /\ Q[i] = P[i] BY <2>1, <3>1
    <3>4. i = k => Q[i] = P[k - 1] + Size(seq[k]) BY <3>1
    <3> QED BY <2>2, <3>2, <3>3, <3>4
  <2> HIDE DEF Q
  <2>8. Upto(Q, k) BY <2>5, <2>6, <2>7
  <2> QED BY <2>1, <2>8
<1> HIDE DEF T
<1>5. n \in T BY <1>1, <1>3, <1>4, UpTo
<1> QED BY <1>1, <1>5 DEF T, Sums

LEMMA SumsOnce ==
  ASSUME NEW seq \in Seq(Names), NEW P, NEW Q, Sums(P, seq), DOMAIN Q = 0..Len(seq), Q[0] = 0,
         \A i \in 1..Len(seq) : Q[i] = Q[i - 1] + Size(seq[i])
  PROVE  \A i \in 0..Len(seq) : Q[i] = P[i]
<1> DEFINE T == {k \in Nat : k <= Len(seq) => Q[k] = P[k]}
<1>1. Len(seq) \in Nat BY LenProperties
<1>2. 0 \in T BY DEF Sums
<1>3. ASSUME NEW k \in 1..Len(seq), k - 1 \in T PROVE k \in T
  <2>1. k \in Nat /\ k - 1 \in Nat /\ k - 1 <= Len(seq) BY <1>1
  <2> QED BY <1>3, <2>1 DEF Sums
<1>4. \A i \in 0..Len(seq) : i \in Nat /\ i <= Len(seq) BY <1>1
<1> HIDE DEF T
<1>5. \A i \in 0..Len(seq) : i \in T BY <1>1, <1>2, <1>3, UpTo
<1> QED BY <1>4, <1>5 DEF T

LEMMA WeightIs ==
  ASSUME NEW seq \in Seq(Names), NEW P, Sums(P, seq) PROVE WeightOf(seq) = P[Len(seq)]
<1> DEFINE Step(f) == [i \in 0..Len(seq) |-> IF i = 0 THEN 0 ELSE f[i - 1] + Size(seq[i])]
           sum == CHOOSE f : f = Step(f)
<1>1. Len(seq) \in Nat BY LenProperties
<1>2. WeightOf(seq) = sum[Len(seq)] BY DEF WeightOf
<1>3. P = Step(P)
  <2>1. \A i \in 0..Len(seq) : i # 0 => i \in 1..Len(seq) BY <1>1
  <2>2. \A i \in 0..Len(seq) : P[i] = Step(P)[i] BY <2>1 DEF Sums
  <2>3. P = [i \in 0..Len(seq) |-> P[i]] BY DEF Sums
  <2> QED BY <2>2, <2>3
<1>4. sum = Step(sum) BY <1>3
<1>5. PICK Q : Q = sum OBVIOUS
<1> HIDE DEF sum
<1>6. Q = Step(Q) BY <1>4, <1>5
<1>7. DOMAIN Q = 0..Len(seq) BY <1>6
<1>8. Q[0] = 0 BY <1>1, <1>6
<1>9. \A i \in 1..Len(seq) : Q[i] = Q[i - 1] + Size(seq[i]) BY <1>1, <1>6
<1>10. Q[Len(seq)] = P[Len(seq)] BY <1>1, <1>7, <1>8, <1>9, SumsOnce
<1> QED BY <1>2, <1>5, <1>10

LEMMA WeightAppend ==
  ASSUME NEW seq \in Seq(Names), NEW n \in Names
  PROVE  WeightOf(Append(seq, n)) = WeightOf(seq) + Size(n) /\ WeightOf(seq) \in Int
<1>1. PICK P : Sums(P, seq) BY SumsExist
<1>2. PICK more : more = Append(seq, n) OBVIOUS
<1>3. /\ more \in Seq(Names) /\ Len(more) = Len(seq) + 1 /\ more[Len(seq) + 1] = n
      /\ \A i \in 1..Len(seq) : more[i] = seq[i]
  BY <1>2, AppendProperties
<1>4. Len(seq) \in Nat BY LenProperties
<1>5. Size(n) \in Int BY Sizes DEF SizesOK
<1>6. P[Len(seq)] \in Int BY <1>1, <1>4 DEF Sums
<1> DEFINE Q == [i \in 0..Len(seq) + 1 |-> IF i <= Len(seq) THEN P[i] ELSE P[Len(seq)] + Size(n)]
<1>7. Q \in [0..Len(seq) + 1 -> Int] BY <1>1, <1>4, <1>5, <1>6 DEF Sums
<1>8. Q[0] = 0 BY <1>1, <1>4 DEF Sums
<1>9. ASSUME NEW i \in 1..Len(seq) + 1 PROVE Q[i] = Q[i - 1] + Size(more[i])
  <2>1. i - 1 \in 0..Len(seq) + 1 /\ i - 1 <= Len(seq) /\ Q[i - 1] = P[i - 1] BY <1>4
  <2>2. CASE i <= Len(seq)
    <3>1. i \in 1..Len(seq) /\ Q[i] = P[i] BY <1>4, <2>2
    <3> QED BY <1>1, <1>3, <2>1, <3>1 DEF Sums
  <2>3. CASE ~ (i <= Len(seq))
    <3>1. i = Len(seq) + 1 /\ i - 1 = Len(seq) BY <1>4, <2>3
    <3>2. Q[i] = P[Len(seq)] + Size(n) BY <1>4, <3>1
    <3> QED BY <1>3, <2>1, <3>1, <3>2
  <2> QED BY <2>2, <2>3
<1>10. Q[Len(seq) + 1] = P[Len(seq)] + Size(n) BY <1>4
<1> HIDE DEF Q
<1>11. Sums(Q, more) BY <1>3, <1>7, <1>8, <1>9 DEF Sums
<1>12. WeightOf(more) = Q[Len(more)] /\ WeightOf(seq) = P[Len(seq)]
  BY <1>1, <1>3, <1>11, WeightIs
<1> QED BY <1>2, <1>3, <1>6, <1>10, <1>12

LEMMA WeightWithout ==
  ASSUME NEW seq \in Seq(Names), NEW n \in Elements(seq)
  PROVE  WeightOf(Without(seq, n)) = WeightOf(seq) - Size(n)
<1>1. PICK P : Sums(P, seq) BY SumsExist
<1>2. PICK at \in 1..Len(seq) :
        /\ seq[at] = n
        /\ Without(seq, n) = SubSeq(seq, 1, at - 1) \o SubSeq(seq, at + 1, Len(seq))
  BY WithoutCuts
<1>3. PICK rest : rest = Without(seq, n) OBVIOUS
<1>4. /\ rest \in Seq(Names) /\ Len(rest) = Len(seq) - 1
      /\ \A k \in 1..Len(seq) - 1 : rest[k] = IF k < at THEN seq[k] ELSE seq[k + 1]
  BY <1>2, <1>3, Cut
<1>5. Len(seq) \in Nat /\ at \in Nat BY LenProperties
<1>6. \A i \in 1..Len(seq) : Size(seq[i]) \in Int /\ P[i] = P[i - 1] + Size(seq[i])
  BY <1>1, ElementOfSeq, Sizes DEF SizesOK, Sums
<1>7. Size(n) \in Int BY <1>2, <1>6
<1>8. \A i \in 0..Len(seq) : P[i] \in Int BY <1>1 DEF Sums
<1> DEFINE Q == [k \in 0..Len(seq) - 1 |-> IF k < at THEN P[k] ELSE P[k + 1] - Size(n)]
<1>9. Q \in [0..Len(seq) - 1 -> Int] BY <1>5, <1>7, <1>8
<1>10. Q[0] = 0 BY <1>1, <1>5 DEF Sums
<1>11. ASSUME NEW k \in 1..Len(seq) - 1 PROVE Q[k] = Q[k - 1] + Size(rest[k])
  <2>1. k \in 0..Len(seq) - 1 /\ k - 1 \in 0..Len(seq) - 1 /\ k \in 1..Len(seq) BY <1>5
  <2>2. k + 1 \in 1..Len(seq) /\ k + 1 - 1 = k BY <1>5
  <2>3. CASE k < at
    <3>1. Q[k] = P[k] /\ Q[k - 1] = P[k - 1] /\ rest[k] = seq[k] BY <1>4, <1>5, <2>1, <2>3
    <3> QED BY <1>6, <2>1, <3>1
  <2>4. CASE k = at
    <3>1. Q[k] = P[k + 1] - Size(n) /\ Q[k - 1] = P[k - 1] /\ rest[k] = seq[k + 1]
      BY <1>4, <1>5, <2>1, <2>4
    <3>2. P[k + 1] = P[k] + Size(seq[k + 1]) /\ P[k] = P[k - 1] + Size(n)
      BY <1>2, <1>6, <2>1, <2>2, <2>4
    <3>3. P[k - 1] \in Int /\ Size(seq[k + 1]) \in Int BY <1>5, <1>6, <1>8, <2>1, <2>2
    <3> QED BY <1>7, <3>1, <3>2, <3>3
  <2>5. CASE k > at
    <3>1. Q[k] = P[k + 1] - Size(n) /\ Q[k - 1] = P[k - 1 + 1] - Size(n) /\ rest[k] = seq[k + 1]
      BY <1>4, <1>5, <2>1, <2>5
    <3>2. P[k + 1] = P[k] + Size(seq[k + 1]) /\ k - 1 + 1 = k BY <1>6, <2>1, <2>2
    <3>3. P[k] \in Int /\ Size(seq[k + 1]) \in Int BY <1>5, <1>6, <1>8, <2>1, <2>2
    <3> QED BY <1>7, <3>1, <3>2, <3>3
  <2> QED BY <1>5, <2>1, <2>3, <2>4, <2>5
<1>12. Q[Len(seq) - 1] = P[Len(seq)] - Size(n)
  <2>1. Len(seq) - 1 \in 0..Len(seq) - 1 /\ Len(seq) - 1 + 1 = Len(seq) BY <1>5
  <2>2. CASE at = Len(seq)
    <3>1. Q[Len(seq) - 1] = P[Len(seq) - 1] BY <1>5, <2>1, <2>2
    <3>2. P[Len(seq)] = P[Len(seq) - 1] + Size(n) BY <1>2, <1>6, <2>2
    <3>3. P[Len(seq) - 1] \in Int BY <1>5, <1>8
    <3> QED BY <1>7, <3>1, <3>2, <3>3
  <2>3. CASE at < Len(seq) BY <1>5, <2>1, <2>3
  <2> QED BY <1>5, <2>2, <2>3
<1> HIDE DEF Q
<1>13. Sums(Q, rest) BY <1>4, <1>9, <1>10, <1>11 DEF Sums
<1>14. WeightOf(rest) = Q[Len(rest)] /\ WeightOf(seq) = P[Len(seq)]
  BY <1>1, <1>4, <1>13, WeightIs
<1> QED BY <1>3, <1>4, <1>12, <1>14

LEMMA WeightEmpty == WeightOf(<<>>) = 0
<1>1. PICK e \in Seq(Names) : e = <<>> BY EmptySeq
<1>2. PICK P : Sums(P, e) BY SumsExist
<1>3. Len(e) = 0 BY <1>1, EmptySeq
<1>4. WeightOf(e) = P[Len(e)] BY <1>2, WeightIs
<1> QED BY <1>1, <1>2, <1>3, <1>4 DEF Sums

-----------------------------------------------------------------------------
(* The index and the directory, in the life of one process that found an     *)
(* empty cache and purges nothing.                                           *)

OneLife == Purgers = {} /\ ~ Boots

RenamedTo(n) == \E r \in Reqs : reqs[r].pc = "renamed" /\ reqs[r].name = n

\* What a render replaces is not indexed, and it is on disk before it is added.
Requests ==
  \A r \in Reqs : /\ reqs[r].pc \notin {"ondisk", "found", "missing"}
                  /\ Renders(r, reqs[r].name) => reqs[r].name \notin Indexed
                  /\ reqs[r].pc = "renamed" => disk[reqs[r].name] # 0

\* An eviction has only indexed names on its list, each once.
Evicts(e, index) ==
  e.on => /\ e.cur \in index /\ Elements(e.todo) \subseteq index
          /\ Distinct(e.todo) /\ e.cur \notin Elements(e.todo)

Index ==
  /\ warm /\ Distinct(lru) /\ Evicts(evict, Indexed)
  /\ evict.gone => disk[evict.cur] = 0
  /\ \A n \in Names : disk[n] # 0 => n \in Indexed \/ RenamedTo(n)
  /\ \A n \in Indexed : disk[n] # 0 \/ (evict.gone /\ evict.cur = n)

Held == Requests /\ Index

LEMMA TailElements ==
  ASSUME NEW S, NEW seq \in Seq(S), seq # <<>>
  PROVE  /\ Head(seq) \in Elements(seq) /\ Elements(Tail(seq)) \subseteq Elements(seq)
         /\ Distinct(seq) => Distinct(Tail(seq)) /\ Head(seq) \notin Elements(Tail(seq))
<1>1. PICK rest : rest = Tail(seq) OBVIOUS
<1>2. /\ rest \in Seq(S) /\ Len(rest) = Len(seq) - 1 /\ Len(seq) \in Nat /\ Len(seq) > 0
      /\ \A i \in 1..Len(rest) : rest[i] = seq[i + 1]
      /\ Head(seq) = seq[1]
  <2>1. Len(seq) \in Nat /\ Len(seq) # 0 BY EmptySeq, LenProperties
  <2> QED BY <1>1, <2>1, HeadTailProperties
<1>3. \A i \in 1..Len(rest) : i + 1 \in 1..Len(seq) /\ i + 1 # 1 BY <1>2
<1>4. 1 \in 1..Len(seq) BY <1>2
<1>5. Head(seq) \in Elements(seq) BY <1>2, <1>4 DEF Elements
<1>6. Elements(rest) \subseteq Elements(seq) BY <1>2, <1>3 DEF Elements
<1>7. ASSUME Distinct(seq) PROVE Distinct(rest) /\ Head(seq) \notin Elements(rest)
  <2>1. Distinct(rest)
    <3> SUFFICES ASSUME NEW i \in 1..Len(rest), NEW j \in 1..Len(rest), rest[i] = rest[j]
                 PROVE  i = j
      BY DEF Distinct
    <3>1. i + 1 = j + 1 BY <1>2, <1>3, <1>7 DEF Distinct
    <3> QED BY <1>2, <3>1
  <2>2. ASSUME NEW i \in 1..Len(rest) PROVE rest[i] # Head(seq)
    BY <1>2, <1>3, <1>4, <1>7 DEF Distinct
  <2> QED BY <2>1, <2>2 DEF Elements
<1> QED BY <1>1, <1>5, <1>6, <1>7

LEMMA EvictsOn ==
  ASSUME NEW todo \in Seq(Names), Distinct(todo), NEW index, Elements(todo) \subseteq index,
         NEW total, NEW e, e = EvictFrom(todo, total)
  PROVE  ~ e.gone /\ Evicts(e, index)
<1>1. CASE e = IdleEvict BY <1>1 DEF IdleEvict, Evicts
<1>2. CASE todo # <<>> /\ e = [on |-> TRUE, todo |-> Tail(todo), cur |-> Head(todo), gone |-> FALSE]
  <2>1. e.cur = Head(todo) /\ e.todo = Tail(todo) /\ ~ e.gone BY <1>2
  <2> QED BY <1>2, <2>1, TailElements DEF Evicts
<1> QED BY <1>1, <1>2 DEF EvictFrom

\* A step of requests alone, none of which has a variant renamed but not added.
LEMMA HeldAside ==
  ASSUME Held, UNCHANGED <<disk, lru, warm, evict>>,
         \A s \in Reqs :
           \/ reqs'[s] = reqs[s]
           \/ /\ reqs[s].pc # "renamed"
              /\ reqs'[s].pc \notin {"ondisk", "found", "missing", "renamed"}
              /\ \/ reqs'[s].pc \notin {"render", "rendered"}
                 \/ reqs'[s].name \notin Indexed
  PROVE  Held'
<1>1. Indexed' = Indexed BY DEF Indexed
<1>2. Requests' BY <1>1 DEF Held, Requests, Renders
<1>3. \A n \in Names : RenamedTo(n) => RenamedTo(n)' BY DEF RenamedTo
<1>4. Index' BY <1>1, <1>3 DEF Held, Index, Evicts
<1> QED BY <1>2, <1>4 DEF Held

LEMMA HeldReq ==
  ASSUME Held, Fresh, Typed, InFlight, NEW r \in Reqs, ReqStep(r) PROVE Held'
<1> DEFINE n == reqs[r].name
<1>1. reqs \in [Reqs -> Req] /\ lru \in Seq(Names) /\ disk \in [Names -> 0..MaxVersion]
  BY DEF Fresh, Typed, TypeOK
<1>2. reqs[r].pc # "idle" => n \in Names BY DEF Fresh
<1>3. ASSUME NEW pc \in {"render", "wait", "serve", "open", "master"}, SetReq(r, pc),
             reqs[r].pc # "renamed", pc = "render" => n \notin Indexed,
             UNCHANGED <<disk, lru, warm, evict>>
      PROVE  Held'
  <2>1. reqs'[r].pc = pc /\ reqs'[r].name = n /\ \A s \in Reqs : s # r => reqs'[s] = reqs[s]
    BY <1>1, <1>3 DEF SetReq, Req
  <2> QED BY <1>3, <2>1, HeldAside
<1>4. CASE GetVariant(r)
  <2>1. CASE n \notin Indexed
    <3>1. warm /\ Join(r) /\ UNCHANGED <<disk, lru, warm, evict>> /\ reqs[r].pc = "resolved"
      BY <1>4, <2>1 DEF GetVariant, Held, Index
    <3> QED BY <1>3, <2>1, <3>1 DEF Join
  <2>2. CASE n \in Indexed
    <3>1. /\ lru' = Touched(n) /\ SetReq(r, "serve") /\ reqs[r].pc = "resolved"
          /\ UNCHANGED <<disk, warm, evict>>
      BY <1>4, <2>2 DEF GetVariant
    <3>2. PICK l : l = Touched(n) OBVIOUS
    <3>3. n \in Names BY <1>2, <3>1
    <3>4. Distinct(l) /\ Elements(l) = Elements(lru) \cup {n}
      BY <1>1, <3>2, <3>3, TouchedElements DEF Held, Requests, Index, Evicts
    <3>5. Indexed' = Indexed BY <2>2, <3>1, <3>2, <3>4 DEF Indexed, Elements
    <3>6. reqs'[r].pc = "serve" /\ \A s \in Reqs : s # r => reqs'[s] = reqs[s]
      BY <1>1, <3>1 DEF SetReq, Req
    <3>7. Requests' BY <3>1, <3>5, <3>6 DEF Held, Requests, Renders
    <3>8. \A x \in Names : RenamedTo(x) => RenamedTo(x)' BY <3>1, <3>6 DEF RenamedTo
    <3>9. Distinct(lru)' BY <3>1, <3>2, <3>4 DEF Distinct
    <3>10. Index' BY <3>1, <3>5, <3>8, <3>9 DEF Held, Index, Evicts
    <3> QED BY <3>7, <3>10 DEF Held
  <2> QED BY <2>1, <2>2
<1>5. CASE RenderReads(r)
  <2>1. /\ reqs[r].pc = "render" /\ UNCHANGED <<disk, lru, warm, evict>>
        /\ reqs'[r].pc = "rendered" /\ reqs'[r].name = n
        /\ \A s \in Reqs : s # r => reqs'[s] = reqs[s]
    BY <1>1, <1>5 DEF RenderReads, Req
  <2>2. n \notin Indexed BY <2>1 DEF Held, Renders, Requests
  <2> QED BY <2>1, <2>2, HeldAside
<1>6. CASE RenderRenames(r)
  <2>1. /\ reqs[r].pc = "rendered" /\ UNCHANGED <<lru, warm, evict>>
        /\ disk' = [disk EXCEPT ![n] = reqs[r].got]
        /\ reqs'[r].pc = "renamed" /\ reqs'[r].name = n
        /\ \A s \in Reqs : s # r => reqs'[s] = reqs[s]
    BY <1>1, <1>6 DEF RenderRenames, Req
  <2>2. n \in Names /\ n \notin Indexed BY <1>2, <2>1 DEF Held, Renders, Requests
  <2>3. reqs[r].got # 0
    BY <2>1 DEF Fresh, Req, Versions
  <2>4. /\ \A x \in Names : x # n => disk'[x] = disk[x]
        /\ disk'[n] # 0
    BY <1>1, <2>1, <2>2, <2>3
  <2>5. Indexed' = Indexed BY <2>1 DEF Indexed
  <2>6. \A s \in Reqs : reqs[s].pc = "renamed" => reqs[s].name \in Names BY DEF Fresh
  <2>7. Requests'
    BY <2>1, <2>2, <2>4, <2>5, <2>6 DEF Held, Requests, Renders
  <2>8. RenamedTo(n)' /\ \A x \in Names : RenamedTo(x) => RenamedTo(x)'
    BY <2>1 DEF RenamedTo
  <2>9. Indexed \subseteq Names BY <1>1, ElementOfSeq DEF Indexed
  <2>10. evict.gone => evict.cur \in Names /\ evict.cur # n
    BY <2>2, <2>9 DEF Held, Typed, EvictOK, Requests, Index, Evicts
  <2>11. Distinct(lru)' /\ Evicts(evict, Indexed)' BY <2>1, <2>5 DEF Held, Distinct, Evicts, Index
  <2>12. Index' BY <2>1, <2>2, <2>4, <2>5, <2>8, <2>9, <2>10, <2>11 DEF Held, Index, Evicts
  <2> QED BY <2>7, <2>12 DEF Held
<1>7. CASE RenderAdds(r)
  <2>1. PICK l : l = Touched(n) OBVIOUS
  <2>2. PICK e : e = EvictIfNeeded(l, bytes + Size(n)) OBVIOUS
  <2>3. /\ reqs[r].pc = "renamed" /\ lru' = l /\ evict' = e /\ SettleAll(r, "serve")
        /\ UNCHANGED <<disk, warm>>
    BY <1>7, <2>1, <2>2 DEF RenderAdds
  <2>4. n \in Names /\ n \notin Indexed /\ disk[n] # 0 BY <1>2, <2>3 DEF Held, Renders, Requests
  <2>5. l \in Seq(Names) /\ Distinct(l) /\ Elements(l) = Indexed \cup {n}
    <3>1. Indexed = Elements(lru) /\ Distinct(lru) BY DEF Held, Indexed, Elements, Index, Evicts
    <3> QED BY <1>1, <2>1, <2>4, <3>1, TouchedElements
  <2>6. Indexed' = Indexed \cup {n} BY <2>3, <2>5 DEF Indexed, Elements
  <2>7. \A s \in Reqs : \/ reqs'[s] = reqs[s] /\ s # r
                        \/ reqs'[s].pc = "serve" /\ (s = r \/ reqs[s].pc = "wait")
    BY <1>1, <2>3 DEF SettleAll, Req
  <2>8. \A s \in Reqs : Renders(s, reqs[s].name) /\ s # r => reqs[s].name # n
    BY <2>3 DEF InFlight, SingleRender, Renders
  <2>9. Requests' BY <2>3, <2>6, <2>7, <2>8 DEF Held, Requests, Renders
  <2>10. \A x \in Names : RenamedTo(x) => x = n \/ RenamedTo(x)'
    BY <2>7 DEF RenamedTo
  <2>11. /\ Evicts(e, Indexed \cup {n}) /\ (e.gone => evict.gone /\ e = evict)
         /\ evict.gone => e = evict
    <3>1. CASE e = evict BY <3>1 DEF Held, Evicts, Requests, Index
    <3>2. CASE e = EvictFrom(l, bytes + Size(n)) /\ ~ evict.on
      <4>1. ~ evict.gone BY <3>2 DEF Typed, EvictOK
      <4>2. ~ e.gone /\ Evicts(e, Indexed \cup {n}) BY <2>5, <3>2, EvictsOn
      <4> QED BY <4>1, <4>2
    <3> QED BY <2>2, <3>1, <3>2 DEF EvictIfNeeded
  <2>12. Distinct(lru)' BY <2>3, <2>5 DEF Distinct
  <2>13. Evicts(evict, Indexed)' BY <2>3, <2>6, <2>11 DEF Evicts
  <2>14. Index' BY <2>3, <2>4, <2>6, <2>10, <2>11, <2>12, <2>13 DEF Held, Index, Evicts
  <2> QED BY <2>9, <2>14 DEF Held
<1>8. CASE RenderFails(r)
  <2>1. /\ reqs[r].pc \in {"render", "rendered"} /\ UNCHANGED <<disk, lru, warm, evict>>
        /\ \A s \in Reqs : \/ reqs'[s] = reqs[s]
                           \/ reqs'[s].pc = "master" /\ (s = r \/ reqs[s].pc = "wait")
    BY <1>1, <1>8 DEF RenderFails, SettleAll, Req
  <2> QED BY <2>1, HeldAside
<1>9. CASE ServeStat(r) BY <1>3, <1>9 DEF ServeStat
<1>10. CASE ServeVariant(r) \/ ServeMaster(r)
  <2>1. /\ reqs[r].pc \in {"open", "master"} /\ UNCHANGED <<disk, lru, warm, evict>>
        /\ reqs'[r].pc = "done" /\ \A s \in Reqs : s # r => reqs'[s] = reqs[s]
    BY <1>1, <1>10 DEF ServeVariant, ServeMaster, Req
  <2> QED BY <2>1, HeldAside
<1>11. ~ OnDiskStat(r) /\ ~ OnDiskReturns(r) BY DEF OnDiskStat, OnDiskReturns, Held, Requests
<1> QED BY <1>4, <1>5, <1>6, <1>7, <1>8, <1>9, <1>10, <1>11 DEF ReqStep

LEMMA HeldEvict ==
  ASSUME Held, Fresh, Typed, EvictStep PROVE Held'
<1>1. /\ lru \in Seq(Names) /\ disk \in [Names -> 0..MaxVersion] /\ evict \in Evictions
      /\ EvictOK(evict)
  BY DEF Fresh, Typed, TypeOK, EvictOK
<1>2. PICK c : c = evict.cur OBVIOUS
<1>3. evict.on /\ c \in Names /\ c \in Indexed
  BY <1>2 DEF EvictStep, EvictUnlinks, EvictDrops, Held, Index, Evicts, Typed, EvictOK
<1>4. \A n \in Names : RenamedTo(n)' <=> RenamedTo(n)
  BY DEF EvictStep, EvictUnlinks, EvictDrops, RenamedTo
<1>5. \A s \in Reqs : reqs[s].pc = "renamed" => reqs[s].name # c /\ reqs[s].name \in Names
  BY <1>3 DEF Held, Fresh, Renders, Requests, Index, Evicts
<1>6. CASE EvictUnlinks
  <2>1. /\ UNCHANGED <<lru, warm, reqs>> /\ disk' = [disk EXCEPT ![c] = 0] /\ ~ evict.gone
        /\ evict' = [evict EXCEPT !.gone = TRUE]
    BY <1>2, <1>6 DEF EvictUnlinks
  <2>2. evict'.on = evict.on /\ evict'.cur = c /\ evict'.todo = evict.todo /\ evict'.gone
    BY <1>1, <1>2, <2>1 DEF Evictions
  <2>3. disk'[c] = 0 /\ \A n \in Names : n # c => disk'[n] = disk[n] BY <1>1, <1>3, <2>1
  <2>4. Indexed' = Indexed BY <2>1 DEF Indexed
  <2>5. Requests' BY <1>5, <2>1, <2>3, <2>4 DEF Held, Requests, Renders
  <2>6. Distinct(lru)' BY <2>1 DEF Held, Distinct, Index, Evicts
  <2>7. Evicts(evict, Indexed)' BY <1>2, <2>2, <2>4 DEF Held, Evicts, Elements, Distinct, Index
  <2>8. Indexed \subseteq Names BY <1>1, ElementOfSeq DEF Indexed
  <2>9. Index' BY <1>3, <1>4, <2>1, <2>2, <2>3, <2>4, <2>6, <2>7, <2>8 DEF Held, Index, Evicts
  <2> QED BY <2>5, <2>9 DEF Held
<1>7. CASE EvictDrops
  <2>1. PICK l : l = Without(lru, c) OBVIOUS
  <2>2. PICK e : e = EvictFrom(evict.todo, bytes - Size(c)) OBVIOUS
  <2>3. UNCHANGED <<disk, warm, reqs>> /\ lru' = l /\ evict' = e /\ evict.gone /\ disk[c] = 0
    BY <1>2, <1>7, <2>1, <2>2 DEF EvictDrops, Held, Index, Evicts
  <2>4. Distinct(l) /\ Elements(l) = Indexed \ {c}
    <3>1. Indexed = Elements(lru) /\ Distinct(lru) BY DEF Held, Indexed, Elements, Index, Evicts
    <3> QED BY <1>1, <2>1, <3>1, WithoutElements
  <2>5. Indexed' = Indexed \ {c} BY <2>3, <2>4 DEF Indexed, Elements
  <2>6. Requests' BY <2>3, <2>5 DEF Held, Requests, Renders
  <2>7. evict.todo \in Seq(Names) /\ Distinct(evict.todo) /\ Elements(evict.todo) \subseteq Indexed \ {c}
    BY <1>1, <1>2, <1>3 DEF Held, Evictions, Requests, Index, Evicts
  <2>8. ~ e.gone /\ Evicts(e, Indexed \ {c}) BY <2>2, <2>7, EvictsOn
  <2>9. Distinct(lru)' BY <2>3, <2>4 DEF Distinct
  <2>10. Evicts(evict, Indexed)' BY <2>3, <2>5, <2>8 DEF Evicts
  <2>11. \A n \in Indexed : n # c => disk[n] # 0 BY <1>2 DEF Held, Requests, Index, Evicts
  <2>12. Index' BY <1>4, <2>3, <2>5, <2>8, <2>9, <2>10, <2>11 DEF Held, Index, Evicts
  <2> QED BY <2>6, <2>12 DEF Held
<1> QED BY <1>6, <1>7 DEF EvictStep

LEMMA HeldStep ==
  ASSUME OneLife, Held, Fresh, Typed, InFlight, [Next]_vars PROVE Held'
<1>1. CASE UNCHANGED vars
  BY <1>1, HeldAside DEF vars
<1>2. ASSUME NEW r \in Reqs, Leave(r) \/ \E m \in Masters : Resolve(r, m) PROVE Held'
  <2>1. /\ reqs[r].pc # "renamed" /\ UNCHANGED <<disk, lru, warm, evict>>
        /\ reqs'[r].pc \in {"idle", "resolved"} /\ \A s \in Reqs : s # r => reqs'[s] = reqs[s]
    BY <1>2 DEF Leave, Resolve, Fresh, IdleReq
  <2> QED BY <2>1, HeldAside
<1>3. ~ BootStep BY DEF BootStep, BootStat, BootIndex, BootDone, Held, Index
<1>4. ~ Restart /\ Purgers = {} BY DEF OneLife, Restart
<1>5. ASSUME NEW r \in Reqs, ReqStep(r) PROVE Held' BY <1>5, HeldReq
<1>6. CASE EvictStep BY <1>6, HeldEvict
<1> QED BY <1>1, <1>2, <1>3, <1>4, <1>5, <1>6 DEF Next

LEMMA HeldInit == ASSUME OneLife, Init PROVE Held
<1>1. lru = <<>> /\ Len(lru) = 0 BY EmptySeq DEF Init
<1>2. Indexed = {} /\ Distinct(lru) BY <1>1 DEF Indexed, Distinct
<1>3. \A n \in Names : disk[n] = 0 BY DEF Init, OneLife
<1>4. warm /\ ~ evict.on /\ ~ evict.gone /\ \A r \in Reqs : reqs[r].pc = "idle"
  BY DEF Init, OneLife, IdleEvict, IdleReq
<1> QED BY <1>2, <1>3, <1>4 DEF Held, Renders, Requests, Index, Evicts

\* What a step adds to the index it adds to the total, and what it takes from it.
LEMMA CountedStep ==
  ASSUME OneLife, Held, Fresh, Typed, BytesCounted, [Next]_vars PROVE BytesCounted'
<1>1. lru \in Seq(Names) /\ bytes = WeightOf(lru) /\ bytes \in Int
  BY DEF Typed, TypeOK, BytesCounted, Total
<1>2. CASE UNCHANGED <<lru, bytes>>
  <2>1. PICK l : l = lru OBVIOUS
  <2>2. lru' = l /\ bytes' = WeightOf(l) BY <1>1, <1>2, <2>1
  <2> QED BY <2>2 DEF BytesCounted, Total
<1>3. ASSUME NEW n \in Names, lru' = Touched(n), NEW more \in Int, bytes' = bytes + more,
             IF n \in Indexed THEN more = 0 ELSE more = Size(n)
      PROVE  BytesCounted'
  <2>1. PICK rest : rest = Without(lru, n) OBVIOUS
  <2>2. PICK l : l = Append(rest, n) OBVIOUS
  <2>3. rest \in Seq(Names) BY <1>1, <2>1, WithoutType
  <2>4. WeightOf(l) = WeightOf(rest) + Size(n) /\ WeightOf(rest) \in Int
    BY <2>2, <2>3, WeightAppend
  <2>5. Size(n) \in Int BY Sizes DEF SizesOK
  <2>6. IF n \in Indexed THEN WeightOf(rest) = bytes - Size(n) ELSE WeightOf(rest) = bytes
    <3>1. Indexed = Elements(lru) BY DEF Indexed, Elements
    <3>2. CASE n \in Indexed BY <1>1, <2>1, <3>1, <3>2, WeightWithout
    <3>3. CASE n \notin Indexed
      <4>1. rest = lru BY <1>1, <2>1, <3>1, <3>3, WithoutCuts DEF Elements
      <4> QED BY <1>1, <3>3, <4>1
    <3> QED BY <3>2, <3>3
  <2>7. bytes' = WeightOf(l) BY <1>1, <1>3, <2>4, <2>5, <2>6
  <2>8. lru' = l BY <1>3, <2>1, <2>2 DEF Touched
  <2> QED BY <2>7, <2>8 DEF BytesCounted, Total
<1>4. ASSUME NEW r \in Reqs, GetVariant(r) PROVE BytesCounted'
  <2>1. PICK n \in Names : n = reqs[r].name BY <1>4 DEF GetVariant, Fresh
  <2>2. CASE n \notin Indexed BY <1>2, <1>4, <2>1, <2>2 DEF GetVariant
  <2>3. CASE n \in Indexed
    <3>1. lru' = Touched(n) /\ bytes' = bytes + 0 BY <1>1, <1>4, <2>1, <2>3 DEF GetVariant
    <3> QED BY <1>3, <2>3, <3>1
  <2> QED BY <2>2, <2>3
<1>5. ASSUME NEW r \in Reqs, RenderAdds(r) PROVE BytesCounted'
  <2>1. PICK n \in Names : n = reqs[r].name BY <1>5 DEF RenderAdds, Fresh
  <2>2. lru' = Touched(n) /\ bytes' = bytes + Size(n) BY <1>5, <2>1 DEF RenderAdds
  <2>3. n \notin Indexed BY <1>5, <2>1 DEF RenderAdds, Held, Requests, Renders
  <2>4. Size(n) \in Int BY Sizes DEF SizesOK
  <2> QED BY <1>3, <2>2, <2>3, <2>4
<1>6. ASSUME NEW r \in Reqs, ReqStep(r) PROVE BytesCounted'
  <2>1. ~ OnDiskReturns(r) BY DEF OnDiskReturns, Held, Requests
  <2> QED
    BY <1>2, <1>4, <1>5, <1>6, <2>1
    DEF ReqStep, OnDiskStat, RenderReads, RenderRenames, RenderFails, ServeStat, ServeVariant, ServeMaster
<1>7. CASE EvictDrops
  <2>1. PICK c : c = evict.cur OBVIOUS
  <2>2. PICK l : l = Without(lru, c) OBVIOUS
  <2>3. lru' = l /\ bytes' = bytes - Size(c) BY <1>7, <2>1, <2>2 DEF EvictDrops
  <2>4. c \in Elements(lru)
    BY <1>7, <2>1 DEF EvictDrops, Held, Index, Evicts, Typed, EvictOK, Indexed, Elements
  <2>5. bytes' = WeightOf(l) BY <1>1, <2>2, <2>3, <2>4, WeightWithout
  <2> QED BY <2>3, <2>5 DEF BytesCounted, Total
<1>8. ~ BootStep BY DEF BootStep, BootStat, BootIndex, BootDone, Held, Index
<1>9. ~ Restart /\ Purgers = {} BY DEF OneLife, Restart
<1>10. ASSUME NEW r \in Reqs, Leave(r) \/ \E m \in Masters : Resolve(r, m) PROVE BytesCounted'
  BY <1>2, <1>10 DEF Leave, Resolve
<1>11. CASE EvictUnlinks BY <1>2, <1>11 DEF EvictUnlinks
<1>12. CASE UNCHANGED vars BY <1>2, <1>12 DEF vars
<1> QED BY <1>6, <1>7, <1>8, <1>9, <1>10, <1>11, <1>12 DEF Next, EvictStep

\* In the life of one process, with no purge: once no eviction is under way and no
\* render has replaced a file it has still to add, the index holds the names of the
\* files in the cache directory, whichever requests, renders and evictions went
\* between the two calls of each other.
THEOREM IndexMatches == ASSUME OneLife PROVE Spec => []IndexIsDisk
<1>1. Held /\ Typed => IndexIsDisk
  <2> SUFFICES ASSUME Held, Typed, Quiet PROVE Indexed = {n \in Names : disk[n] # 0}
    BY DEF IndexIsDisk
  <2>1. Indexed \subseteq Names
    <3>1. lru \in Seq(Names) BY DEF Typed, TypeOK
    <3> QED BY <3>1, ElementOfSeq DEF Indexed
  <2>2. ~ evict.gone BY DEF Quiet, Typed, EvictOK
  <2>3. \A n \in Names : ~ RenamedTo(n) BY DEF Quiet, RenamedTo
  <2> QED BY <2>1, <2>2, <2>3 DEF Held, Index
<1>2. Held /\ Fresh /\ Typed /\ InFlight /\ [Next]_vars => Held' /\ Fresh' /\ Typed' /\ InFlight'
  BY HeldStep, FreshStep, TypedStep, InFlightStep
<1>3. Init => Held /\ Fresh /\ Typed /\ InFlight
  BY HeldInit, FreshInit, TypedInit, InFlightInit
<1> QED BY <1>1, <1>2, <1>3, PTL DEF Spec

\* Under the same conditions the byte count is what the indexed files weigh: a
\* variant that two requests asked for at once is not counted twice, and whatever
\* requests do to the order of the index, an eviction takes off what it drops.
THEOREM BytesAreCounted == ASSUME OneLife PROVE Spec => []BytesCounted
<1>1. Init => BytesCounted
  <2> SUFFICES ASSUME Init PROVE BytesCounted OBVIOUS
  <2>1. lru = <<>> /\ bytes = 0 BY DEF Init
  <2> QED BY <2>1, WeightEmpty DEF BytesCounted, Total
<1>2. Held /\ Fresh /\ Typed /\ InFlight /\ [Next]_vars => Held' /\ Fresh' /\ Typed' /\ InFlight'
  BY HeldStep, FreshStep, TypedStep, InFlightStep
<1>3. Init => Held /\ Fresh /\ Typed /\ InFlight
  BY HeldInit, FreshInit, TypedInit, InFlightInit
<1>4. Held /\ Fresh /\ Typed /\ BytesCounted /\ [Next]_vars => BytesCounted' BY CountedStep
<1> QED BY <1>1, <1>2, <1>3, <1>4, PTL DEF Spec
=============================================================================
