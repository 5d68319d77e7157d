---------------------------- MODULE ClusterProofs ----------------------------
(* Theorems about Cluster for any number of nodes, masters, writes and       *)
(* reads: the bytes of a private master reach no public node, and the nodes  *)
(* that share a master agree on it when nothing is on its way.               *)
EXTENDS Cluster, TLAPS

-----------------------------------------------------------------------------
(* The inductive invariant.                                                *)

\* A pull asks only nodes that share the master with its own, and the origin.
Routed == \A n \in Node, p \in Path :
  /\ pulls[n][p].rest \subseteq Bases(n, p)
  /\ pulls[n][p].peer \in Bases(n, p) \cup {None}
\* A replica goes where its visibility allows.
Addressed == \A s \in sends : s.to \in PeersFor(s.from, s.visibility)

\* All bytes of p were given free; or the file the puts of p have yet to read
\* holds bytes that were, and nothing else is about to change it.
Full(p) == Bytes \X Node \subseteq consent[p]
Free(p) == \E f \in Node, b \in Bytes :
  /\ \A s \in sends : s.path = p => s.from = f
  /\ disk[f][p] = b /\ pulls[f][p].st = "idle" /\ {b} \X Node \subseteq consent[p]

\* What PrivateStays says, on the nodes and on the way to them.
Confined(p) ==
  /\ \A n \in Node \ PrivateNode : disk[n][p] = None \/ <<disk[n][p], n>> \in consent[p]
  /\ \A s \in sends : s.path = p /\ s.to \notin PrivateNode /\ s.bytes # None
                        => <<s.bytes, s.to>> \in consent[p]
  /\ \A n \in Node \ PrivateNode : pulls[n][p].bytes = None
  /\ Exposed(p) => Full(p) \/ Free(p)

Settled(n, p) ==
  disk[n][p] = last[p] \/ (last[p] = None /\ p \in OriginPath /\ disk[n][p] = 0)
\* Every replica under way is of the last write.
Fan(p) == \A s \in sends : s.path = p =>
  /\ disk[s.from][p] = last[p] /\ s.bytes \in {None, last[p]}
  /\ s.op = "put" <=> last[p] # None
  /\ \A t \in sends : t.path = p => t.from = s.from
\* A pull can only bring what the origin has: no node that shares p has it.
Barren(n, p) ==
  pulls[n][p].st # "idle" =>
    /\ last[p] = None /\ pulls[n][p].bytes \in {None, 0}
    /\ pulls[n][p].bytes = 0 => p \in OriginPath
Owed(n, p) == \E s \in sends : s.path = p /\ s.to = n
Agreed(p) ==
  /\ ~ (InFlight(p) /\ Pulling(p)) /\ last[p] # 0
  /\ \A n \in Sharing(p) : Settled(n, p) \/ Owed(n, p)
  /\ Fan(p)
  /\ \A n \in Sharing(p) : Barren(n, p)

Inv ==
  /\ TypeOK /\ Routed /\ Addressed
  /\ \A p \in PrivatePath \ OriginPath : Confined(p)
  /\ \A p \in Path \ disturbed : Agreed(p)

-----------------------------------------------------------------------------
(* Who shares with whom.                                                   *)

LEMMA Apart ==
  /\ None \notin Nat /\ None \notin Node /\ None # Origin /\ Origin \notin Node
  /\ None \notin Bytes /\ None \notin Visibility /\ 0 \in Bytes
  /\ \A i \in Nat : i < MaxWrites => i + 1 \in Bytes /\ i + 1 \in 1 .. MaxWrites
BY ClusterAssumption DEF Bytes, Visibility

LEMMA PeersFact ==
  ASSUME NEW p \in Path, NEW n \in Node
  PROVE  /\ PeersFor(n, PathVisibility(p)) \subseteq Sharing(p) \ {n}
         /\ n \in Sharing(p) => Sharing(p) = {n} \cup PeersFor(n, PathVisibility(p))
         /\ n \notin Sharing(p) => PeersFor(n, PathVisibility(p)) = {}
         /\ Sharing(p) \subseteq Node
<1>1. CASE PathVisibility(p) = "public"
  BY <1>1 DEF Sharing, PeersFor
<1>2. CASE PathVisibility(p) # "public"
  <2>1. PrivateNode \subseteq Node BY ClusterAssumption
  <2>2. \A m \in Node : PeersFor(m, PathVisibility(p)) =
                          {k \in PrivateNode : m \in PrivateNode /\ k # m}
    BY <1>2, <2>1 DEF PeersFor
  <2>3. Sharing(p) = {m \in PrivateNode : \E k \in PrivateNode : k # m}
    BY <2>1, <2>2 DEF Sharing
  <2> QED BY <2>1, <2>2, <2>3
<1> QED BY <1>1, <1>2

\* A public node has no peers for a private master.
LEMMA PublicNode ==
  ASSUME NEW p \in PrivatePath, NEW n \in Node, n \notin PrivateNode
  PROVE  PeersFor(n, PathVisibility(p)) = {}
BY DEF PeersFor, PathVisibility

LEMMA HeaderFact ==
  ASSUME NEW p \in Path, NEW h \in Header
  PROVE  VisibilityFor(p, h) \in Visibility
BY ClusterAssumption DEF VisibilityFor, PathVisibility, Visibility

LEMMA PathFact == PrivatePath \subseteq Path /\ \A p \in Path : PathVisibility(p) \in Visibility
BY ClusterAssumption DEF PathVisibility, Visibility

-----------------------------------------------------------------------------
(* Steps that bring one master to one node, one by one.                    *)

LEMMA SetDisk ==
  ASSUME TypeOK, NEW n \in Node, NEW p \in Path, NEW b \in Bytes \cup {None},
         disk' = [disk EXCEPT ![n][p] = b]
  PROVE  /\ disk' \in [Node -> [Path -> Bytes \cup {None}]] /\ disk'[n][p] = b
         /\ \A m \in Node, q \in Path : m # n \/ q # p => disk'[m][q] = disk[m][q]
BY DEF TypeOK

LEMMA SetPull ==
  ASSUME TypeOK, NEW n \in Node, NEW p \in Path, NEW x \in Pull,
         pulls' = [pulls EXCEPT ![n][p] = x]
  PROVE  /\ pulls' \in [Node -> [Path -> Pull]] /\ pulls'[n][p] = x
         /\ \A m \in Node, q \in Path : m # n \/ q # p => pulls'[m][q] = pulls[m][q]
BY DEF TypeOK

LEMMA NoPullFact ==
  NoPull \in Pull /\ NoPull.st = "idle" /\ NoPull.peer = None /\ NoPull.rest = {}
  /\ NoPull.bytes = None
BY DEF NoPull, Pull

\* What a step may make of a pull x of p at n: nothing, its end, or a pull y that
\* started with p missing at n, whose bytes come from the origin, from the disk
\* of a peer or from a pull of the peer.
Passed(n, p, y) ==
  \/ y.bytes \in {None, pulls[n][p].bytes}
  \/ y.bytes = 0 /\ p \in OriginPath
  \/ \E m \in PeersFor(n, PathVisibility(p)) :
       \/ y.bytes = disk[m][p]
       \/ pulls[m][p].st = "storing" /\ y.bytes = pulls[m][p].bytes
Grown(n, p, y, out) ==
  \/ y = pulls[n][p] \/ y = NoPull
  \/ /\ y.rest \subseteq Bases(n, p) /\ y.peer \in Bases(n, p) \cup {None}
     /\ \/ pulls[n][p].st # "idle"
        \/ disk[n][p] = None /\ y.bytes = None /\ (InFlight(p) => p \in out)
     /\ Passed(n, p, y)

\* Steps of pulls: nothing is sent, and a disk changes only by a pull that ends.
LEMMA PullsStep ==
  ASSUME Inv, TypeOK', UNCHANGED <<last, consent>>,
         sends' \subseteq sends, disturbed \subseteq disturbed',
         \A s \in sends \ sends' : s.path \in disturbed',
         \A n \in Node, p \in Path : Grown(n, p, pulls'[n][p], disturbed'),
         \A n \in Node, p \in Path :
           \/ disk'[n][p] = disk[n][p]
           \/ pulls[n][p].st = "storing" /\ disk'[n][p] = pulls[n][p].bytes
  PROVE  Inv'
<1>1. Routed' BY NoPullFact DEF Inv, Routed, Grown
<1>2. Addressed' BY DEF Inv, Addressed
<1>3. ASSUME NEW p \in PrivatePath \ OriginPath PROVE Confined(p)'
  <2>0. p \in Path /\ Confined(p) BY PathFact DEF Inv
  <2>1. ASSUME NEW n \in Node \ PrivateNode PROVE pulls'[n][p].bytes = None
    BY <2>0, PublicNode, NoPullFact DEF Grown, Passed, Confined
  <2>2. ASSUME NEW n \in Node \ PrivateNode
        PROVE  disk'[n][p] = None \/ <<disk'[n][p], n>> \in consent'[p]
    BY <2>0 DEF Confined
  <2>3. ASSUME Exposed(p)' PROVE Full(p)' \/ Free(p)'
    <3>1. Exposed(p) BY <2>3 DEF Exposed
    <3>2. CASE Full(p) BY <3>2 DEF Full
    <3>3. CASE Free(p)
      <4>1. PICK f \in Node, b \in Bytes :
              /\ \A s \in sends : s.path = p => s.from = f
              /\ disk[f][p] = b /\ pulls[f][p].st = "idle" /\ {b} \X Node \subseteq consent[p]
        BY <3>3 DEF Free
      <4>2. disk'[f][p] = b BY <2>0, <4>1
      <4>3. pulls'[f][p].st = "idle" BY <2>0, <4>1, Apart, NoPullFact DEF Grown
      <4> QED BY <4>1, <4>2, <4>3 DEF Free
    <3> QED BY <2>0, <3>1, <3>2, <3>3 DEF Confined
  <2> QED BY <2>0, <2>1, <2>2, <2>3 DEF Confined
<1>4. ASSUME NEW p \in Path \ disturbed' PROVE Agreed(p)'
  <2>0. p \in Path /\ Agreed(p) BY DEF Inv
  <2>1. \A s : s.path = p => (s \in sends' <=> s \in sends) OBVIOUS
  <2>2. InFlight(p)' <=> InFlight(p) BY <2>1 DEF InFlight
  <2>3. ~ (InFlight(p) /\ Pulling(p))' BY <2>0, <2>2, NoPullFact DEF Agreed, Pulling, Grown
  <2>4. \A n \in Sharing(p) : Barren(n, p)'
    <3> SUFFICES ASSUME NEW n \in Sharing(p), pulls'[n][p].st # "idle"
                 PROVE  /\ last[p] = None /\ pulls'[n][p].bytes \in {None, 0}
                        /\ pulls'[n][p].bytes = 0 => p \in OriginPath
      BY DEF Barren
    <3>1. n \in Node /\ Barren(n, p) BY <2>0, PeersFact DEF Agreed, Sharing
    <3>2. CASE pulls'[n][p] = pulls[n][p] BY <3>1, <3>2 DEF Barren
    <3>3. CASE pulls'[n][p] # pulls[n][p]
      <4>1. Grown(n, p, pulls'[n][p], disturbed') BY <2>0, <3>1
      <4>2. /\ \/ pulls[n][p].st # "idle"
               \/ disk[n][p] = None /\ pulls'[n][p].bytes = None /\ ~ InFlight(p)
            /\ Passed(n, p, pulls'[n][p])
        BY <3>3, <4>1, NoPullFact DEF Grown
      <4>3. ~ InFlight(p) BY <2>0, <3>1, <4>2 DEF Agreed, Pulling
      <4>4. \A m \in Sharing(p) : Settled(m, p) BY <2>0, <4>3 DEF Agreed, Owed, InFlight
      <4>5. last[p] = None BY <3>1, <4>2, <4>4, Apart DEF Settled, Barren
      <4>6. \A m \in PeersFor(n, PathVisibility(p)) : m \in Sharing(p)
        BY <2>0, <3>1, PeersFact
      <4>7. \A m \in Sharing(p) : disk[m][p] = None \/ (disk[m][p] = 0 /\ p \in OriginPath)
        BY <4>4, <4>5 DEF Settled
      <4>8. \A m \in Sharing(p) : Barren(m, p) BY <2>0 DEF Agreed
      <4>9. CASE pulls'[n][p].bytes \in {None, pulls[n][p].bytes}
        BY <3>1, <4>2, <4>5, <4>9, Apart DEF Barren
      <4>10. CASE pulls'[n][p].bytes = 0 /\ p \in OriginPath BY <4>5, <4>10
      <4>11. CASE \E m \in PeersFor(n, PathVisibility(p)) :
                    \/ pulls'[n][p].bytes = disk[m][p]
                    \/ pulls[m][p].st = "storing" /\ pulls'[n][p].bytes = pulls[m][p].bytes
        BY <4>5, <4>6, <4>7, <4>8, <4>11, Apart DEF Barren
      <4> QED BY <4>2, <4>9, <4>10, <4>11 DEF Passed
    <3> QED BY <3>2, <3>3
  <2>5. ASSUME NEW n \in Node, disk'[n][p] # disk[n][p]
        PROVE  Pulling(p) /\ ~ InFlight(p) /\ (n \in Sharing(p) => Settled(n, p)')
    <3>1. pulls[n][p].st = "storing" /\ disk'[n][p] = pulls[n][p].bytes BY <2>0, <2>5
    <3>2. Pulling(p) /\ ~ InFlight(p) BY <2>0, <3>1 DEF Pulling, Agreed
    <3>3. n \in Sharing(p) => Settled(n, p)'
      BY <2>0, <3>1 DEF Agreed, Barren, Settled
    <3> QED BY <3>2, <3>3
  <2>6. \A n \in Sharing(p) : Settled(n, p)' \/ Owed(n, p)'
    <3> SUFFICES ASSUME NEW n \in Sharing(p) PROVE Settled(n, p)' \/ Owed(n, p)' OBVIOUS
    <3>1. n \in Node /\ (Settled(n, p) \/ Owed(n, p)) BY <2>0, PeersFact DEF Agreed, Sharing
    <3>2. Owed(n, p) => Owed(n, p)' BY <2>1 DEF Owed
    <3>3. disk'[n][p] = disk[n][p] /\ Settled(n, p) => Settled(n, p)' BY DEF Settled
    <3> QED BY <2>5, <3>1, <3>2, <3>3
  <2>7. Fan(p)'
    <3> SUFFICES ASSUME NEW s \in sends', s.path = p
                 PROVE  /\ disk'[s.from][p] = last[p] /\ s.bytes \in {None, last[p]}
                        /\ s.op = "put" <=> last[p] # None
                        /\ \A t \in sends' : t.path = p => t.from = s.from
      BY DEF Fan
    <3>1. s \in sends /\ InFlight(p) /\ s.from \in Node
      BY DEF InFlight, Inv, TypeOK, Sending
    <3>2. disk'[s.from][p] = disk[s.from][p] BY <2>5, <3>1
    <3> QED BY <2>0, <3>1, <3>2 DEF Agreed, Fan
  <2> QED BY <2>0, <2>3, <2>4, <2>6, <2>7 DEF Agreed
<1> QED BY <1>1, <1>2, <1>3, <1>4 DEF Inv

-----------------------------------------------------------------------------
(* Requests and pulls.                                                     *)

LEMMA AnswerFact ==
  ASSUME Inv, NEW n \in Node, NEW p \in Path, NEW answered \in SUBSET gets,
         \A g \in answered : g.at = n, NEW bytes \in Bytes \cup {None}, NEW own \in Pull,
         Answer(n, p, answered, bytes, own),
         NEW out, Grown(n, p, own, out),
         bytes \in {None, disk[n][p]} \/ (pulls[n][p].st = "storing" /\ bytes = pulls[n][p].bytes)
  PROVE  /\ gets' \subseteq Get /\ pulls' \in [Node -> [Path -> Pull]]
         /\ \A m \in Node, q \in Path : Grown(m, q, pulls'[m][q], out)
<1>1. /\ gets' = gets \ answered
      /\ pulls' = [m \in Node |-> [q \in Path |->
                    IF q # p THEN pulls[m][q] ELSE IF m = n THEN own
                    ELSE Learns(m, p, answered, bytes)]]
  BY DEF Answer
<1>2. ASSUME NEW m \in Node, m # n
      PROVE  /\ Learns(m, p, answered, bytes) \in Pull
             /\ Grown(m, p, Learns(m, p, answered, bytes), out)
  <2>1. pulls[m][p] \in Pull BY DEF Inv, TypeOK
  <2>2. CASE pulls[m][p].st = "asking" /\ \E g \in answered : g.from = m /\ g.at = pulls[m][p].peer
    <3>1. pulls[m][p].peer = n BY <2>2
    <3>2. n \in PeersFor(m, PathVisibility(p)) /\ pulls[m][p].rest \subseteq Bases(m, p)
      BY <3>1, Apart DEF Inv, Routed, Bases
    <3> DEFINE y == [pulls[m][p] EXCEPT !.st = "next", !.peer = None]
               z == [pulls[m][p] EXCEPT !.st = "storing", !.peer = None, !.bytes = bytes]
    <3>3. /\ y \in Pull /\ y.rest = pulls[m][p].rest /\ y.peer = None
          /\ y.bytes = pulls[m][p].bytes
      BY <2>1 DEF Pull
    <3>4. z \in Pull /\ z.rest = pulls[m][p].rest /\ z.peer = None /\ z.bytes = bytes
      BY <2>1 DEF Pull
    <3>5. Learns(m, p, answered, bytes) = IF bytes = None THEN y ELSE z BY <2>2 DEF Learns
    <3> HIDE DEF y, z
    <3>6. Grown(m, p, y, out) BY <2>2, <3>2, <3>3 DEF Grown, Passed
    <3>7. Grown(m, p, z, out) BY <2>2, <3>2, <3>4 DEF Grown, Passed
    <3> QED BY <3>3, <3>4, <3>5, <3>6, <3>7
  <2>3. CASE ~ (pulls[m][p].st = "asking"
                 /\ \E g \in answered : g.from = m /\ g.at = pulls[m][p].peer)
    <3>1. Learns(m, p, answered, bytes) = pulls[m][p] BY <2>3 DEF Learns
    <3> QED BY <2>1, <3>1 DEF Grown
  <2> QED BY <2>2, <2>3
<1>3. \A m \in Node, q \in Path : pulls[m][q] \in Pull BY DEF Inv, TypeOK
<1>4. pulls' \in [Node -> [Path -> Pull]] BY <1>1, <1>2, <1>3
<1>5. ASSUME NEW m \in Node, NEW q \in Path PROVE Grown(m, q, pulls'[m][q], out)
  <2>1. CASE q # p BY <1>1, <2>1 DEF Grown
  <2>2. CASE q = p /\ m = n BY <1>1, <2>2
  <2>3. CASE q = p /\ m # n BY <1>1, <1>2, <2>3
  <2> QED BY <2>1, <2>2, <2>3
<1> QED BY <1>1, <1>4, <1>5 DEF Inv, TypeOK

\* One pull goes on, and the others stay.
LEMMA OnePull ==
  ASSUME Inv, NEW n \in Node, NEW p \in Path, NEW y \in Pull,
         pulls' = [pulls EXCEPT ![n][p] = y], NEW out, Grown(n, p, y, out)
  PROVE  /\ pulls' \in [Node -> [Path -> Pull]]
         /\ \A m \in Node, q \in Path : Grown(m, q, pulls'[m][q], out)
<1>1. /\ pulls' \in [Node -> [Path -> Pull]] /\ pulls'[n][p] = y
      /\ \A m \in Node, q \in Path : m # n \/ q # p => pulls'[m][q] = pulls[m][q]
  BY SetPull DEF Inv
<1> QED BY <1>1 DEF Grown

\* A step that moves pulls and requests only.
LEMMA QuietPulls ==
  ASSUME Inv, UNCHANGED <<disk, sends, writes, last, consent>>,
         disturbed \subseteq disturbed', disturbed' \subseteq Path,
         asked' \in 0 .. MaxGets, faults' \in 0 .. MaxFaults, gets' \subseteq Get,
         pulls' \in [Node -> [Path -> Pull]],
         \A n \in Node, p \in Path : Grown(n, p, pulls'[n][p], disturbed')
  PROVE  Inv'
<1>1. TypeOK' BY DEF Inv, TypeOK
<1> QED BY <1>1, PullsStep

LEMMA Bounds ==
  ASSUME Inv
  PROVE  /\ asked \in 0 .. MaxGets /\ faults \in 0 .. MaxFaults
         /\ asked < MaxGets => asked + 1 \in 0 .. MaxGets
         /\ faults < MaxFaults => faults + 1 \in 0 .. MaxFaults
         /\ disturbed \subseteq Path /\ gets \subseteq Get
BY ClusterAssumption DEF Inv, TypeOK

LEMMA AskInv ==
  ASSUME Inv, NEW n \in Node, NEW p \in Path, Ask(n, p) PROVE Inv'
<1>1. gets' \subseteq Get BY Bounds DEF Ask, Get
<1>2. \A m \in Node, q \in Path : Grown(m, q, pulls'[m][q], disturbed')
  BY DEF Ask, Grown
<1>3. pulls' \in [Node -> [Path -> Pull]] BY DEF Ask, Inv, TypeOK
<1> QED BY <1>1, <1>2, <1>3, Bounds, QuietPulls DEF Ask, history

LEMMA AskNextInv ==
  ASSUME Inv, NEW n \in Node, NEW p \in Path, NEW base \in Node \cup {Origin},
         AskNext(n, p, base)
  PROVE  Inv'
<1> DEFINE y == [pulls[n][p] EXCEPT !.st = "asking", !.peer = base, !.rest = pulls[n][p].rest \ {base}]
<1>1. pulls[n][p] \in Pull /\ pulls[n][p].st = "next" /\ base \in pulls[n][p].rest
  BY DEF AskNext, Inv, TypeOK
<1>2. pulls' = [pulls EXCEPT ![n][p] = y] BY DEF AskNext, Inv, TypeOK
<1>3. /\ y \in Pull /\ y.peer = base /\ y.rest \subseteq pulls[n][p].rest
      /\ y.bytes = pulls[n][p].bytes
  BY <1>1 DEF Pull
<1> HIDE DEF y
<1>4. Grown(n, p, y, disturbed') BY <1>1, <1>3 DEF Inv, Routed, Grown, Passed
<1>5. gets' \subseteq Get
  BY Bounds DEF AskNext, Get
<1> QED BY <1>2, <1>3, <1>4, <1>5, Bounds, OnePull, QuietPulls DEF AskNext, history

LEMMA OriginInv ==
  ASSUME Inv, NEW n \in Node, NEW p \in Path, OriginSends(n, p) PROVE Inv'
<1> DEFINE y == [pulls[n][p] EXCEPT !.st = "storing", !.peer = None, !.bytes = 0]
<1>1. pulls[n][p] \in Pull /\ pulls[n][p].st = "asking" /\ pulls[n][p].peer = Origin
  BY DEF OriginSends, Inv, TypeOK
<1>2. pulls' = [pulls EXCEPT ![n][p] = y] BY DEF OriginSends, Inv, TypeOK
<1>3. y \in Pull /\ y.peer = None /\ y.rest = pulls[n][p].rest /\ y.bytes = 0
  BY <1>1, Apart DEF Pull
<1> HIDE DEF y
<1>4. p \in OriginPath
  <2>1. Origin \in Bases(n, p) BY <1>1, Apart DEF Inv, Routed
  <2>2. Origin \notin PeersFor(n, PathVisibility(p))
    BY Apart, PeersFact DEF Sharing
  <2> QED BY <2>1, <2>2 DEF Bases
<1>5. Grown(n, p, y, disturbed') BY <1>1, <1>3, <1>4 DEF Inv, Routed, Grown, Passed
<1> QED BY <1>2, <1>3, <1>5, Bounds, OnePull, QuietPulls DEF OriginSends, history

LEMMA HungUpFact ==
  ASSUME Inv, NEW n \in Node, NEW asks \in SUBSET gets PROVE HungUp(n, asks) \subseteq Get
<1>1. \A g \in Get : [g EXCEPT !.from = Gone] \in Get BY DEF Get
<1> QED BY <1>1, Bounds DEF HungUp

LEMMA TimeOutInv ==
  ASSUME Inv, NEW n \in Node, NEW p \in Path, TimeOut(n, p) PROVE Inv'
<1> DEFINE y == [pulls[n][p] EXCEPT !.st = "next", !.peer = None]
<1>1. pulls[n][p] \in Pull /\ pulls[n][p].st = "asking"
  BY DEF TimeOut, Inv, TypeOK
<1>2. pulls' = [pulls EXCEPT ![n][p] = y] BY DEF TimeOut, Inv, TypeOK
<1>3. /\ y \in Pull /\ y.peer = None /\ y.rest = pulls[n][p].rest
      /\ y.bytes = pulls[n][p].bytes
  BY <1>1, Apart DEF Pull
<1> HIDE DEF y
<1>4. Grown(n, p, y, disturbed') BY <1>1, <1>3 DEF Inv, Routed, Grown, Passed
<1>5. gets' \subseteq Get
  <2>1. HungUp(n, {g \in gets : g.path = p}) \subseteq Get BY HungUpFact
  <2> QED BY <2>1, Bounds DEF TimeOut
<1>6. faults' \in 0 .. MaxFaults BY Bounds DEF TimeOut
<1> QED BY <1>2, <1>3, <1>4, <1>5, <1>6, Bounds, OnePull, QuietPulls DEF TimeOut, history

LEMMA StoreFailsInv ==
  ASSUME Inv, NEW n \in Node, NEW p \in Path, StoreFails(n, p) PROVE Inv'
<1> DEFINE y == [pulls[n][p] EXCEPT !.st = "next", !.bytes = None]
<1>1. pulls[n][p] \in Pull /\ pulls[n][p].st = "storing"
  BY DEF StoreFails, Inv, TypeOK
<1>2. pulls' = [pulls EXCEPT ![n][p] = y] BY DEF StoreFails, Inv, TypeOK
<1>3. /\ y \in Pull /\ y.peer = pulls[n][p].peer /\ y.rest = pulls[n][p].rest
      /\ y.bytes = None
  BY <1>1, Apart DEF Pull
<1> HIDE DEF y
<1>4. Grown(n, p, y, disturbed') BY <1>1, <1>3 DEF Inv, Routed, Grown, Passed
<1> QED BY <1>2, <1>3, <1>4, Bounds, OnePull, QuietPulls DEF StoreFails, history

\* A pull ends: who waits is answered.
LEMMA EndsInv ==
  ASSUME Inv, NEW n \in Node, NEW p \in Path, Store(n, p) \/ NobodyHasIt(n, p) PROVE Inv'
<1>1. PICK b \in Bytes \cup {None} :
        /\ Answer(n, p, Waiting(n, p), b, NoPull)
        /\ \/ b = None /\ disk' = disk
           \/ /\ pulls[n][p].st = "storing" /\ b = pulls[n][p].bytes
              /\ disk' = [disk EXCEPT ![n][p] = b]
  <2>1. CASE Store(n, p)
    <3>1. pulls[n][p].bytes \in Bytes \cup {None} BY DEF Inv, TypeOK, Pull
    <3> QED BY <2>1, <3>1 DEF Store
  <2>2. CASE NobodyHasIt(n, p) BY <2>2 DEF NobodyHasIt
  <2> QED BY <2>1, <2>2
<1>2. UNCHANGED <<sends, writes, asked, faults, history>> BY DEF Store, NobodyHasIt
<1>3. Waiting(n, p) \in SUBSET gets /\ \A g \in Waiting(n, p) : g.at = n BY DEF Waiting
<1>4. Grown(n, p, NoPull, disturbed) BY DEF Grown
<1>5. /\ gets' \subseteq Get /\ pulls' \in [Node -> [Path -> Pull]]
      /\ \A m \in Node, q \in Path : Grown(m, q, pulls'[m][q], disturbed)
  BY <1>1, <1>3, <1>4, AnswerFact, NoPullFact
<1>6. /\ disk' \in [Node -> [Path -> Bytes \cup {None}]]
      /\ \A m \in Node, q \in Path :
           \/ disk'[m][q] = disk[m][q]
           \/ pulls[m][q].st = "storing" /\ disk'[m][q] = pulls[m][q].bytes
  <2>1. CASE disk' = disk BY <2>1 DEF Inv, TypeOK
  <2>2. CASE pulls[n][p].st = "storing" /\ b = pulls[n][p].bytes
             /\ disk' = [disk EXCEPT ![n][p] = b]
    <3>1. /\ disk' \in [Node -> [Path -> Bytes \cup {None}]] /\ disk'[n][p] = b
          /\ \A m \in Node, q \in Path : m # n \/ q # p => disk'[m][q] = disk[m][q]
      <4>1. TypeOK /\ b \in Bytes \cup {None} /\ disk' = [disk EXCEPT ![n][p] = b]
        BY <1>1, <2>2 DEF Inv
      <4> QED BY <4>1, SetDisk
    <3> QED BY <2>2, <3>1
  <2> QED BY <1>1, <2>1, <2>2
<1>7. TypeOK' BY <1>2, <1>5, <1>6 DEF Inv, TypeOK, history
<1>8. /\ UNCHANGED <<last, consent, sends, disturbed>>
      /\ \A m \in Node, q \in Path : Grown(m, q, pulls'[m][q], disturbed')
  BY <1>2, <1>5 DEF history
<1> QED BY <1>6, <1>7, <1>8, PullsStep

LEMMA ResolveInv ==
  ASSUME Inv, NEW g \in gets, Resolve(g) PROVE Inv'
<1>1. g \in Get /\ g.at \in Node /\ g.path \in Path BY Bounds DEF Get
<1>2. PICK n \in Node, p \in Path : n = g.at /\ p = g.path BY <1>1
<1>3. UNCHANGED <<disk, sends, writes, asked, faults, last, consent>> BY DEF Resolve
<1>4. CASE disk[n][p] # None /\ Answer(n, p, {g}, disk[n][p], pulls[n][p]) /\ UNCHANGED disturbed
  <2>1. disk[n][p] \in Bytes \cup {None} /\ pulls[n][p] \in Pull BY DEF Inv, TypeOK
  <2>2. Grown(n, p, pulls[n][p], disturbed) BY DEF Grown
  <2>3. {g} \in SUBSET gets /\ \A h \in {g} : h.at = n BY <1>2
  <2>4. /\ gets' \subseteq Get /\ pulls' \in [Node -> [Path -> Pull]]
        /\ \A m \in Node, q \in Path : Grown(m, q, pulls'[m][q], disturbed)
    BY <1>4, <2>1, <2>2, <2>3, AnswerFact
  <2> QED BY <1>3, <1>4, <2>4, Bounds, QuietPulls
<1>5. gets' = (gets \ {g}) \cup Joined(g) => gets' \subseteq Get
  <2>1. [g EXCEPT !.st = "waits"] \in Get BY <1>1 DEF Get
  <2> QED BY <2>1, Bounds DEF Joined
<1>6. CASE gets' = (gets \ {g}) \cup Joined(g) /\ UNCHANGED <<pulls, disturbed>>
  <2>1. \A m \in Node, q \in Path : Grown(m, q, pulls'[m][q], disturbed')
    BY <1>6 DEF Grown
  <2>2. pulls' \in [Node -> [Path -> Pull]] BY <1>6 DEF Inv, TypeOK
  <2> QED BY <1>3, <1>5, <1>6, <2>1, <2>2, Bounds, QuietPulls
<1>7. CASE /\ disk[n][p] = None /\ gets' = (gets \ {g}) \cup Joined(g)
           /\ pulls' = [pulls EXCEPT ![n][p] = [NoPull EXCEPT !.st = "next", !.rest = Bases(n, p)]]
           /\ PullStarts(p)
  <2> DEFINE y == [NoPull EXCEPT !.st = "next", !.rest = Bases(n, p)]
  <2>1. Bases(n, p) \subseteq Node \cup {Origin} BY PeersFact DEF Bases
  <2>2. y \in Pull /\ y.rest = Bases(n, p) /\ y.peer = None /\ y.bytes = None
    BY <2>1 DEF NoPull, Pull
  <2>3. pulls' = [pulls EXCEPT ![n][p] = y] BY <1>7
  <2> HIDE DEF y
  <2>4. disturbed \subseteq disturbed' /\ disturbed' \subseteq Path
        /\ (InFlight(p) => p \in disturbed')
    BY <1>7, Bounds DEF PullStarts
  <2>5. Grown(n, p, y, disturbed') BY <1>7, <2>2, <2>4 DEF Grown, Passed
  <2> QED BY <1>3, <1>5, <1>7, <2>2, <2>3, <2>4, <2>5, Bounds, OnePull, QuietPulls
<1> QED BY <1>2, <1>4, <1>6, <1>7 DEF Resolve

LEMMA RestartInv ==
  ASSUME Inv, NEW n \in Node, Restart(n) PROVE Inv'
<1> DEFINE cut == {g \in gets : g.at = n}
<1>1. /\ UNCHANGED <<disk, writes, asked, last, consent>> /\ faults' \in 0 .. MaxFaults
      /\ sends' \subseteq sends /\ disturbed' = disturbed \cup {s.path : s \in sends \ sends'}
      /\ gets' = HungUp(n, gets \ cut)
      /\ pulls' = [m \in Node |-> [p \in Path |->
                    IF m = n THEN NoPull
                    ELSE Learns(m, p, {g \in cut : g.path = p}, None)]]
  BY Bounds DEF Restart
<1>2. gets' \subseteq Get
  <2>1. gets \ cut \in SUBSET gets OBVIOUS
  <2> QED BY <1>1, <2>1, HungUpFact
<1>3. ASSUME NEW m \in Node, NEW p \in Path
      PROVE  pulls'[m][p] \in Pull /\ Grown(m, p, pulls'[m][p], disturbed')
  <2>1. CASE m = n BY <1>1, <2>1, NoPullFact DEF Grown
  <2>2. CASE m # n
    <3>1. pulls[m][p] \in Pull BY DEF Inv, TypeOK
    <3> DEFINE y == [pulls[m][p] EXCEPT !.st = "next", !.peer = None]
    <3>2. /\ y \in Pull /\ y.rest = pulls[m][p].rest /\ y.peer = None
          /\ y.bytes = pulls[m][p].bytes
      BY <3>1 DEF Pull
    <3>3. \/ pulls'[m][p] = pulls[m][p]
          \/ pulls[m][p].st = "asking" /\ pulls'[m][p] = y
      BY <1>1, <2>2 DEF Learns
    <3> HIDE DEF y
    <3> QED BY <3>1, <3>2, <3>3 DEF Grown, Passed, Inv, Routed
  <2> QED BY <2>1, <2>2
<1>4. pulls' \in [Node -> [Path -> Pull]]
  <2>1. pulls' = [m \in Node |-> [p \in Path |-> pulls'[m][p]]] BY <1>1
  <2> QED BY <1>3, <2>1
<1>5. disturbed' \subseteq Path BY <1>1, Bounds DEF Inv, TypeOK, Sending
<1>6. TypeOK' BY <1>1, <1>2, <1>4, <1>5 DEF Inv, TypeOK
<1> HIDE DEF cut
<1> QED BY <1>1, <1>3, <1>6, PullsStep

-----------------------------------------------------------------------------
(* Replicas.                                                               *)

LEMMA SendFields ==
  ASSUME Inv, NEW s \in sends
  PROVE  /\ s \in Sending /\ s.from \in Node /\ s.to \in Node /\ s.path \in Path
         /\ s.visibility \in Visibility /\ s.bytes \in Bytes \cup {None}
         /\ s.to \in PeersFor(s.from, s.visibility) /\ s.to # s.from
BY DEF Inv, TypeOK, Sending, Addressed, PeersFor

\* A replica on its way to a public node was sent as public.
LEMMA ToPublic ==
  ASSUME Inv, NEW s \in sends, s.to \notin PrivateNode
  PROVE  s.visibility = "public"
BY SendFields DEF PeersFor

LEMMA ReadForPutInv ==
  ASSUME Inv, NEW s \in sends, ReadForPut(s) PROVE Inv'
<1>1. /\ s.op = "put" /\ s.bytes = None
      /\ UNCHANGED <<disk, gets, pulls, writes, asked, faults, last, consent, disturbed>>
  BY DEF ReadForPut, history
<1>2. PICK f \in Node, p \in Path, b \in Bytes \cup {None} :
        f = s.from /\ p = s.path /\ b = disk[f][p]
  BY SendFields DEF Inv, TypeOK
<1> DEFINE r == [s EXCEPT !.bytes = b]
<1>3. /\ r \in Sending /\ r.bytes = b /\ r.from = f /\ r.to = s.to /\ r.path = p
      /\ r.visibility = s.visibility /\ r.op = "put"
  BY <1>1, <1>2, SendFields DEF Sending
<1>4. sends' = (sends \ {s}) \cup (IF b = None THEN {} ELSE {r}) BY <1>2 DEF ReadForPut
<1> HIDE DEF r
<1>5. TypeOK' BY <1>1, <1>3, <1>4 DEF Inv, TypeOK
<1>6. Routed' /\ Addressed' BY <1>1, <1>2, <1>3, <1>4 DEF Inv, Routed, Addressed
<1>7. ASSUME NEW q \in PrivatePath \ OriginPath PROVE Confined(q)'
  <2>0. Confined(q) BY DEF Inv
  <2>1. ASSUME q = p, r.to \notin PrivateNode, b # None PROVE <<b, r.to>> \in consent[q]
    <3>1. Exposed(q) BY <1>1, <1>2, <1>3, <2>1, ToPublic DEF Exposed
    <3>2. CASE Full(q) BY <1>2, <1>3, <2>1, <3>2, SendFields DEF Full
    <3>3. CASE Free(q) BY <1>2, <1>3, <2>1, <3>3, SendFields DEF Free
    <3> QED BY <2>0, <3>1, <3>2, <3>3 DEF Confined
  <2>2. Exposed(q)' => Exposed(q) BY <1>1, <1>3, <1>4 DEF Exposed
  <2>3. Free(q) => Free(q)'
    <3>1. \A t \in sends' : \E u \in sends : u.path = t.path /\ u.from = t.from
      BY <1>2, <1>3, <1>4
    <3> QED BY <1>1, <3>1 DEF Free
  <2>4. Full(q)' = Full(q) BY <1>1 DEF Full
  <2> QED BY <1>1, <1>3, <1>4, <2>0, <2>1, <2>2, <2>3, <2>4 DEF Confined
<1>8. ASSUME NEW q \in Path \ disturbed PROVE Agreed(q)'
  <2>0. Agreed(q) BY DEF Inv
  <2>1. CASE q # p
    <3>1. \A t : t.path = q => (t \in sends' <=> t \in sends) BY <1>2, <1>3, <1>4, <2>1
    <3> QED BY <1>1, <2>0, <3>1
        DEF Agreed, InFlight, Pulling, Settled, Owed, Fan, Barren
  <2>2. CASE q = p
    <3>1. b = last[p] /\ b # None BY <1>1, <1>2, <2>0, <2>2 DEF Agreed, Fan
    <3>2. sends' = (sends \ {s}) \cup {r} BY <1>4, <3>1
    <3>3. InFlight(p) BY <1>2 DEF InFlight
    <3>4. ~ Pulling(p)' BY <1>1, <2>0, <2>2, <3>3 DEF Agreed, Pulling
    <3>5. Fan(p)' BY <1>1, <1>2, <1>3, <2>0, <2>2, <3>1, <3>2 DEF Agreed, Fan
    <3>6. \A n \in Sharing(p) : Settled(n, p)' \/ Owed(n, p)'
      BY <1>1, <1>2, <1>3, <2>0, <2>2, <3>2 DEF Agreed, Settled, Owed
    <3> QED BY <1>1, <2>0, <2>2, <3>4, <3>5, <3>6 DEF Agreed, Barren
  <2> QED BY <2>1, <2>2
<1> QED BY <1>1, <1>5, <1>6, <1>7, <1>8 DEF Inv

LEMMA ReceiveInv ==
  ASSUME Inv, NEW s \in sends, Receive(s) PROVE Inv'
<1>1. /\ s.op = "put" => s.bytes # None
      /\ UNCHANGED <<gets, pulls, writes, asked, faults, last, consent, disturbed>>
      /\ sends' = sends \ {s}
  BY DEF Receive, history, FanOut
<1>2. PICK n \in Node, p \in Path, b \in Bytes \cup {None} :
        n = s.to /\ p = s.path /\ b = s.bytes
  BY SendFields
<1>3. /\ disk' \in [Node -> [Path -> Bytes \cup {None}]] /\ disk'[n][p] = b
      /\ \A m \in Node, q \in Path : m # n \/ q # p => disk'[m][q] = disk[m][q]
  <2>1. TypeOK /\ b \in Bytes \cup {None} /\ disk' = [disk EXCEPT ![n][p] = b]
    BY <1>2 DEF Receive, Inv
  <2> QED BY <2>1, SetDisk
<1>4. TypeOK' BY <1>1, <1>3 DEF Inv, TypeOK
<1>5. Routed' /\ Addressed' BY <1>1 DEF Inv, Routed, Addressed
<1>6. ASSUME NEW q \in PrivatePath \ OriginPath PROVE Confined(q)'
  <2>0. q \in Path /\ Confined(q) BY PathFact DEF Inv
  <2>1. ASSUME NEW m \in Node \ PrivateNode
        PROVE  disk'[m][q] = None \/ <<disk'[m][q], m>> \in consent[q]
    <3>1. CASE m = n /\ q = p BY <1>2, <1>3, <2>0, <3>1 DEF Confined
    <3>2. CASE m # n \/ q # p BY <1>3, <2>0, <3>2 DEF Confined
    <3> QED BY <3>1, <3>2
  <2>2. ASSUME Exposed(q)' PROVE Full(q)' \/ Free(q)'
    <3>1. Exposed(q) BY <1>1, <2>2 DEF Exposed
    <3>2. CASE Full(q) BY <1>1, <3>2 DEF Full
    <3>3. CASE Free(q)
      <4>1. PICK f \in Node, c \in Bytes :
              /\ \A t \in sends : t.path = q => t.from = f
              /\ disk[f][q] = c /\ pulls[f][q].st = "idle" /\ {c} \X Node \subseteq consent[q]
        BY <3>3 DEF Free
      <4>2. disk'[f][q] = c BY <1>2, <1>3, <2>0, <4>1, SendFields
      <4> QED BY <1>1, <4>1, <4>2 DEF Free
    <3> QED BY <2>0, <3>1, <3>2, <3>3 DEF Confined
  <2> QED BY <1>1, <2>0, <2>1, <2>2 DEF Confined
<1>7. ASSUME NEW q \in Path \ disturbed PROVE Agreed(q)'
  <2>0. Agreed(q) BY DEF Inv
  <2>1. CASE q # p
    <3>1. \A t : t.path = q => (t \in sends' <=> t \in sends) BY <1>1, <1>2, <2>1
    <3>2. \A m \in Node : disk'[m][q] = disk[m][q] BY <1>3, <2>1
    <3>3. \A t \in sends : t.from \in Node BY SendFields
    <3>4. Sharing(q) \subseteq Node BY DEF Sharing
    <3> QED BY <1>1, <2>0, <3>1, <3>2, <3>3, <3>4
        DEF Agreed, InFlight, Pulling, Settled, Owed, Fan, Barren
  <2>2. CASE q = p
    <3>1. InFlight(p) /\ ~ Pulling(p) BY <1>2, <2>0, <2>2 DEF Agreed, InFlight
    <3>2. ~ Pulling(p)' BY <1>1, <3>1 DEF Pulling
    <3>3. b = last[p] /\ disk'[n][p] = last[p] BY <1>1, <1>2, <1>3, <2>0, <2>2 DEF Agreed, Fan
    <3>4. Settled(n, p)' BY <1>1, <3>3 DEF Settled
    <3>5. ASSUME NEW m \in Sharing(p), m # n PROVE Settled(m, p)' \/ Owed(m, p)'
      <4>1. m \in Node /\ disk'[m][p] = disk[m][p] BY <1>3, <3>5 DEF Sharing
      <4>2. Settled(m, p) => Settled(m, p)' BY <1>1, <4>1 DEF Settled
      <4>3. Owed(m, p) => Owed(m, p)' BY <1>1, <1>2, <3>5 DEF Owed
      <4> QED BY <2>0, <2>2, <4>2, <4>3 DEF Agreed
    <3>6. Fan(p)'
      <4> SUFFICES ASSUME NEW t \in sends', t.path = p
                   PROVE  /\ disk'[t.from][p] = last[p] /\ t.bytes \in {None, last[p]}
                          /\ t.op = "put" <=> last[p] # None
                          /\ \A u \in sends' : u.path = p => u.from = t.from
        BY <1>1 DEF Fan
      <4>1. t \in sends /\ t.from = s.from /\ t.from \in Node
        BY <1>1, <1>2, <2>0, <2>2, SendFields DEF Agreed, Fan
      <4>2. disk'[t.from][p] = disk[t.from][p] BY <1>2, <1>3, <4>1, SendFields
      <4> QED BY <1>1, <2>0, <2>2, <4>1, <4>2 DEF Agreed, Fan
    <3> QED BY <1>1, <2>0, <2>2, <3>2, <3>4, <3>5, <3>6 DEF Agreed, Barren
  <2> QED BY <2>1, <2>2
<1> QED BY <1>1, <1>4, <1>5, <1>6, <1>7 DEF Inv

LEMMA LoseInv ==
  ASSUME Inv, NEW s \in sends, Lose(s) PROVE Inv'
<1>1. /\ UNCHANGED <<disk, gets, pulls, writes, asked, last, consent>>
      /\ faults' \in 0 .. MaxFaults /\ sends' = sends \ {s}
      /\ disturbed' = disturbed \cup {s.path}
  BY Bounds DEF Lose
<1>2. TypeOK' BY <1>1, SendFields DEF Inv, TypeOK
<1>3. \A n \in Node, p \in Path : Grown(n, p, pulls'[n][p], disturbed')
  BY <1>1 DEF Grown
<1>4. /\ sends' \subseteq sends /\ disturbed \subseteq disturbed'
      /\ \A t \in sends \ sends' : t.path \in disturbed'
  BY <1>1
<1> QED BY <1>1, <1>2, <1>3, <1>4, PullsStep

-----------------------------------------------------------------------------
(* A client's write.                                                       *)

LEMMA WrittenInv ==
  ASSUME Inv, NEW n \in Node, NEW p \in Path, NEW h \in Header,
         NEW op \in {"put", "delete"}, NEW bytes,
         bytes = (IF op = "put" THEN writes + 1 ELSE None), Written(n, p, h, op, bytes)
  PROVE  Inv'
<1> DEFINE v == VisibilityFor(p, h)
           i == writes + 1
           new == FanOut(n, p, op, v, i, FALSE)
<1>1. v \in Visibility BY HeaderFact
<1>2. i \in Bytes /\ i \in 1 .. MaxWrites /\ i # 0 /\ i # None /\ writes' = i
  BY Apart DEF Written, Inv, TypeOK
<1>3. bytes \in Bytes \cup {None} /\ (op = "put" <=> bytes # None) /\ bytes # 0
  BY <1>2, Apart
<1>4. /\ disk' \in [Node -> [Path -> Bytes \cup {None}]] /\ disk'[n][p] = bytes
      /\ \A m \in Node, q \in Path : m # n \/ q # p => disk'[m][q] = disk[m][q]
  <2>1. TypeOK /\ bytes \in Bytes \cup {None} /\ disk' = [disk EXCEPT ![n][p] = bytes]
    BY <1>3 DEF Written, Inv
  <2> QED BY <2>1 DEF TypeOK
<1>5. sends' = sends \cup new /\ UNCHANGED <<gets, pulls, asked, faults>> BY DEF Written
<1>6. new = [op: {op}, id: {i}, from: {n}, to: PeersFor(n, v), path: {p},
             visibility: {v}, bytes: {None}]
  BY DEF FanOut
<1>7. PeersFor(n, v) \subseteq Node \ {n} BY DEF PeersFor
<1> HIDE DEF v, i, new
<1>8. new \subseteq Sending /\ \A s \in new : s.to \in PeersFor(s.from, s.visibility)
  BY <1>1, <1>2, <1>6, <1>7 DEF Sending
<1>9. /\ disturbed' = IF Disturbs(p, h) THEN disturbed \cup {p} ELSE disturbed
      /\ last' = IF n \in Sharing(p) THEN [last EXCEPT ![p] = bytes] ELSE last
  BY DEF Written
<1>10. /\ consent' \in [Path -> SUBSET (Bytes \X Node)]
       /\ \A q \in Path : consent[q] \subseteq consent'[q]
       /\ p \in PrivatePath => Consented(n, p, h, op) \subseteq consent'[p]
  <2>1. Consented(n, p, h, op) \subseteq Bytes \X Node
    BY <1>2 DEF Consented, i
  <2>2. consent' = IF p \notin PrivatePath THEN consent
                   ELSE [consent EXCEPT ![p] = @ \cup Consented(n, p, h, op)]
    BY DEF Written
  <2> QED BY <2>1, <2>2 DEF Inv, TypeOK
<1>11. TypeOK'
  <2>1. writes' \in 0 .. MaxWrites BY <1>2 DEF Bytes
  <2>2. last' \in [Path -> Bytes \cup {None}] BY <1>3, <1>9 DEF Inv, TypeOK
  <2>3. disturbed' \subseteq Path BY <1>9 DEF Inv, TypeOK
  <2> QED BY <1>4, <1>5, <1>8, <1>10, <2>1, <2>2, <2>3 DEF Inv, TypeOK
<1>12. Routed' /\ Addressed' BY <1>5, <1>8 DEF Inv, Routed, Addressed
<1>13. ASSUME NEW q \in PrivatePath \ OriginPath PROVE Confined(q)'
  <2>0. q \in Path /\ Confined(q) BY PathFact DEF Inv
  <2>1. CASE q # p
    <3>1. \A t : t.path = q => (t \in sends' <=> t \in sends) BY <1>5, <1>6, <2>1
    <3>2. \A m \in Node : disk'[m][q] = disk[m][q] BY <1>4, <2>0, <2>1
    <3>3. Exposed(q)' => Exposed(q) BY <3>1 DEF Exposed
    <3>4. Full(q) => Full(q)' BY <1>10, <2>0 DEF Full
    <3>5. Free(q) => Free(q)' BY <1>5, <1>10, <2>0, <3>1, <3>2 DEF Free
    <3> QED BY <1>5, <1>10, <2>0, <3>1, <3>2, <3>3, <3>4, <3>5 DEF Confined
  <2>2. CASE q = p
    <3>0. Consented(n, p, h, op) \subseteq consent'[p] BY <1>10, <2>2
    <3>1. \A s \in new : s.bytes = None BY <1>6
    <3>2. ASSUME bytes # None PROVE <<bytes, n>> \in consent'[p]
      <4>1. op = "put" /\ bytes = i BY <1>3, <3>2 DEF i
      <4>2. <<i, n>> \in Consented(n, p, h, op)
        BY <1>2, <4>1 DEF Consented, i, InFlight, Exposed
      <4> QED BY <3>0, <4>1, <4>2
    <3>3. ASSUME NEW m \in Node \ PrivateNode
          PROVE  disk'[m][p] = None \/ <<disk'[m][p], m>> \in consent'[p]
      <4>1. CASE m = n BY <1>4, <3>2, <4>1
      <4>2. CASE m # n BY <1>4, <1>10, <2>0, <2>2, <4>2 DEF Confined
      <4> QED BY <4>1, <4>2
    <3>4. ASSUME NEW s \in sends', s.path = p, s.to \notin PrivateNode, s.bytes # None
          PROVE  <<s.bytes, s.to>> \in consent'[p]
      <4>1. s \in sends BY <1>5, <3>1, <3>4
      <4> QED BY <1>10, <2>0, <2>2, <3>4, <4>1 DEF Confined
    <3>5. ASSUME Exposed(p)' PROVE Full(p)' \/ Free(p)'
      <4>1. CASE Full(p) BY <1>10, <4>1 DEF Full
      <4>2. CASE Exposed(p)
        <5>1. Consented(n, p, h, op) = Bytes \X Node BY <4>2 DEF Consented, InFlight, Exposed
        <5> QED BY <3>0, <5>1 DEF Full
      <4>3. CASE ~ Exposed(p)
        <5>1. op = "put" /\ v = "public"
          BY <1>5, <1>6, <3>5, <4>3 DEF Exposed
        <5>2. CASE InFlight(p) \/ Pulling(p)
          <6>1. Consented(n, p, h, op) = Bytes \X Node
            BY <4>3, <5>1, <5>2 DEF Consented, v
          <6> QED BY <3>0, <6>1 DEF Full
        <5>3. CASE ~ (InFlight(p) \/ Pulling(p))
          <6>1. Consented(n, p, h, op) = {i} \X Node
            BY <4>3, <5>1, <5>3 DEF Consented, v, i
          <6>2. \A s \in sends' : s.path = p => s.from = n
            BY <1>5, <1>6, <5>3 DEF InFlight
          <6>3. pulls'[n][p].st = "idle" BY <1>5, <5>3 DEF Pulling
          <6>4. disk'[n][p] = i BY <1>4, <5>1 DEF i
          <6> QED BY <1>2, <3>0, <6>1, <6>2, <6>3, <6>4 DEF Free
        <5> QED BY <5>2, <5>3
      <4> QED BY <4>2, <4>3
    <3> QED BY <1>5, <2>0, <2>2, <3>3, <3>4, <3>5 DEF Confined
  <2> QED BY <2>1, <2>2
<1>14. ASSUME NEW q \in Path \ disturbed' PROVE Agreed(q)'
  <2>0. q \in Path /\ q \notin disturbed /\ Agreed(q) BY <1>9 DEF Inv
  <2>1. CASE q # p
    <3>1. \A t : t.path = q => (t \in sends' <=> t \in sends) BY <1>5, <1>6, <2>1
    <3>2. \A m \in Node : disk'[m][q] = disk[m][q] BY <1>4, <2>0, <2>1
    <3>3. \A t \in sends : t.from \in Node BY SendFields
    <3>4. Sharing(q) \subseteq Node BY DEF Sharing
    <3>5. last'[q] = last[q] BY <1>9, <2>0, <2>1 DEF Inv, TypeOK
    <3> QED BY <1>5, <2>0, <3>1, <3>2, <3>3, <3>4, <3>5
        DEF Agreed, InFlight, Pulling, Settled, Owed, Fan, Barren
  <2>2. CASE q = p
    <3>1. ~ InFlight(p) /\ ~ Pulling(p) /\ v = PathVisibility(p)
      BY <1>9, <2>2 DEF Disturbs, v
    <3>2. ~ Pulling(p)' /\ \A m \in Node : pulls'[m][p].st = "idle"
      BY <1>5, <3>1 DEF Pulling
    <3>3. \A s \in sends' : s.path = p => s \in new BY <1>5, <3>1 DEF InFlight
    <3>4. CASE n \in Sharing(p)
      <4>1. last'[p] = bytes BY <1>9, <3>4 DEF Inv, TypeOK
      <4>2. Settled(n, p)' BY <1>4, <4>1 DEF Settled
      <4>3. ASSUME NEW m \in Sharing(p), m # n PROVE Owed(m, p)'
        <5>1. m \in PeersFor(n, v) BY <3>1, <3>4, <4>3, PeersFact
        <5> DEFINE s == [op |-> op, id |-> i, from |-> n, to |-> m, path |-> p,
                         visibility |-> v, bytes |-> None]
        <5>2. s \in new /\ s.path = p /\ s.to = m BY <1>6, <5>1
        <5> HIDE DEF s
        <5> QED BY <1>5, <5>2 DEF Owed
      <4>4. Fan(p)' BY <1>3, <1>4, <1>6, <3>3, <4>1 DEF Fan
      <4> QED BY <1>3, <2>2, <3>2, <4>1, <4>2, <4>3, <4>4, PeersFact DEF Agreed, Barren
    <3>5. CASE n \notin Sharing(p)
      <4>1. new = {} BY <1>6, <3>1, <3>5, PeersFact
      <4>2. last' = last /\ sends' = sends BY <1>5, <1>9, <3>5, <4>1
      <4>3. Fan(p)' BY <3>3, <4>1 DEF Fan
      <4>4. ASSUME NEW m \in Sharing(p) PROVE Settled(m, p)' \/ Owed(m, p)'
        <5>1. m \in Node /\ m # n BY <3>5 DEF Sharing
        <5>2. disk'[m][p] = disk[m][p] BY <1>4, <5>1
        <5> QED BY <2>0, <2>2, <4>2, <5>2 DEF Agreed, Settled, Owed
      <4> QED BY <2>0, <2>2, <3>2, <4>2, <4>3, <4>4, PeersFact DEF Agreed, Barren
    <3> QED BY <3>4, <3>5
  <2> QED BY <2>1, <2>2
<1> QED BY <1>11, <1>12, <1>13, <1>14 DEF Inv

-----------------------------------------------------------------------------
(* The theorems.                                                           *)

LEMMA InitInv == Init => Inv
<1> SUFFICES ASSUME Init PROVE Inv OBVIOUS
<1>1. TypeOK
  BY ClusterAssumption, NoPullFact DEF Init, TypeOK
<1>2. Routed /\ Addressed BY NoPullFact DEF Init, Routed, Addressed
<1>3. ASSUME NEW p \in PrivatePath \ OriginPath PROVE Confined(p)
  <2>1. p \in Path BY PathFact
  <2> QED BY <2>1, NoPullFact DEF Init, Confined, Exposed
<1>4. ASSUME NEW p \in Path \ disturbed PROVE Agreed(p)
  <2>1. last[p] = None /\ \A n \in Node : disk[n][p] = None /\ pulls[n][p].st = "idle"
    BY NoPullFact DEF Init
  <2>2. Sharing(p) \subseteq Node /\ sends = {} BY DEF Sharing, Init
  <2> QED BY <2>1, <2>2, Apart DEF Agreed, InFlight, Settled, Fan, Barren
<1> QED BY <1>1, <1>2, <1>3, <1>4 DEF Inv

LEMMA NextInv == Inv /\ [Next]_vars => Inv'
<1> SUFFICES ASSUME Inv, [Next]_vars PROVE Inv' OBVIOUS
<1>1. CASE ClientWrites
  BY <1>1, WrittenInv DEF ClientWrites, Upload, Delete
<1>2. CASE \E s \in sends : SendStep(s)
  BY <1>2, ReadForPutInv, ReceiveInv, LoseInv DEF SendStep
<1>3. ASSUME NEW n \in Node, NEW p \in Path, Ask(n, p) \/ PullStep(n, p) \/ StoreFails(n, p)
      PROVE  Inv'
  BY <1>3, AskInv, AskNextInv, OriginInv, TimeOutInv, EndsInv, StoreFailsInv DEF PullStep
<1>4. CASE \E g \in gets : Resolve(g) BY <1>4, ResolveInv
<1>5. CASE \E n \in Node : Restart(n) BY <1>5, RestartInv
<1>6. CASE UNCHANGED vars
  BY <1>6 DEF vars, Inv, TypeOK, Routed, Addressed, Confined, Exposed, Full, Free, Agreed,
              InFlight, Pulling, Settled, Owed, Fan, Barren
<1> QED BY <1>1, <1>2, <1>3, <1>4, <1>5, <1>6 DEF Next

LEMMA Invariance == Spec => []Inv
BY InitInv, NextInv, PTL DEF Spec

\* Every variable keeps its type: requests and replicas name nodes and masters
\* there are, and no more is written, asked or lost than was counted.
THEOREM TypeCorrect == Spec => []TypeOK
<1>1. Inv => TypeOK BY DEF Inv
<1> QED BY <1>1, Invariance, PTL

\* The bytes of a private master are on a public node only if a client put them
\* there, marked them public, or a write marked public was still to read the
\* file when another step changed it.
THEOREM PrivateIsKept == Spec => []PrivateStays
<1>1. Inv => PrivateStays BY DEF Inv, PrivateStays, Confined
<1> QED BY <1>1, Invariance, PTL

\* When nothing is on its way, every node that shares a master holds what the
\* last write left: until then each has it or a replica of it is on its way to
\* the node, and no pull can bring another.
THEOREM NodesAgree == Spec => []Agreement
<1>1. Inv => Agreement
  BY DEF Inv, Agreement, Agreed, Settled, Owed, InFlight
<1> QED BY <1>1, Invariance, PTL
=============================================================================
