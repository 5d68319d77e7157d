------------------------------- MODULE Cluster -------------------------------
(***************************************************************************)
(* Sibling nodes that share masters (src/src/cluster.js, fetchstore.js,    *)
(* resolve.js, origin.js, visibility.js, and what handlers/write.js and    *)
(* handlers/read.js do for a sibling).                                     *)
(*                                                                         *)
(* A client's PUT or DELETE at a node is fanned out to the peers its       *)
(* visibility allows: fired, not awaited, not ordered, never repeated.  A  *)
(* GET of a master the node lacks asks the eligible peers one by one, then *)
(* the external origin, and stores what it gets; a peer that lacks it too  *)
(* does the same before it answers.  The interleavings inside one node's   *)
(* write path are MasterStore's subject: here a handler is one step.       *)
(*                                                                         *)
(* The bytes of a master are the number of the upload they came with; the  *)
(* origin's bytes are 0.                                                   *)
(***************************************************************************)
EXTENDS Naturals, FiniteSets

CONSTANTS
  Node, PrivateNode,     \* the nodes, and those whose role is `private`
  Path, PrivatePath,     \* the masters' rels, and those under PRIVATE_PATHS
  OriginPath,            \* the rels the external origin has
  Header,                \* the X-Visibility values clients send, None for no header
  Origin,                \* the external origin, asked after the peers
  Client, Gone, None,    \* who asked: a client, or a peer that hung up
  MaxWrites, MaxGets, MaxFaults   \* bounds: client writes, client GETs, faults

ASSUME ClusterAssumption ==
  /\ PrivateNode \subseteq Node /\ PrivatePath \subseteq Path /\ OriginPath \subseteq Path
  /\ Client \notin Node /\ Gone \notin Node \cup {Client} /\ Origin \notin Node
  /\ Header \subseteq {"public", "private", None}
  /\ None \notin Nat \cup Node \cup {Origin, "public", "private"}
  /\ MaxWrites \in Nat /\ MaxGets \in Nat /\ MaxFaults \in Nat

Visibility == {"public", "private"}
Bytes == 0 .. MaxWrites

VARIABLES
  disk,      \* disk[n][p]: the bytes node n has under masterDir, or None
  sends,     \* _put and _delete calls not finished
  gets,      \* GET requests not answered, of clients and of peers
  pulls,     \* pulls[n][p]: the inflight pull of p at n
  writes, asked, faults,   \* how many client writes, client GETs and faults so far
  last,      \* last[p]: the bytes the last client write at a node that shares p left
  consent,   \* consent[p]: <<b, n>> when bytes b of p may be on node n: see PrivateStays
  disturbed  \* the paths that met one of the cases Agreement excludes

vars == <<disk, sends, gets, pulls, writes, asked, faults, last, consent, disturbed>>
history == <<last, consent, disturbed>>

PathVisibility(p) == IF p \in PrivatePath THEN "private" ELSE "public"
VisibilityFor(p, header) == IF header = None THEN PathVisibility(p) ELSE header

\* Mutant: the peers' roles are not looked at.
PeersFor_AnyRole(n, visibility) == IF visibility = "public" \/ n \in PrivateNode THEN Node \ {n} ELSE {}
\* The peers that may hold a master of this visibility, as seen from node n.
PeersFor(n, visibility) ==
  {m \in Node \ {n} : visibility = "public" \/ {n, m} \subseteq PrivateNode}

\* The nodes that share p with one another.
Sharing(p) == {n \in Node : PeersFor(n, PathVisibility(p)) # {}}
\* The bases a pull of p at n may ask.
Bases(n, p) == PeersFor(n, PathVisibility(p)) \cup (IF p \in OriginPath THEN {Origin} ELSE {})

NoPull == [st |-> "idle", peer |-> None, rest |-> {}, bytes |-> None]
Pull == [st: {"idle", "next", "asking", "storing"}, peer: Node \cup {Origin, None},
         rest: SUBSET (Node \cup {Origin}), bytes: Bytes \cup {None}]
Sending == [op: {"put", "delete"}, id: 1 .. MaxWrites, from: Node, to: Node, path: Path,
            visibility: Visibility, bytes: Bytes \cup {None}]
Get == [from: Node \cup {Client, Gone}, at: Node, path: Path, st: {"arrived", "waits"}]

Init ==
  /\ disk = [n \in Node |-> [p \in Path |-> None]]
  /\ sends = {} /\ gets = {}
  /\ pulls = [n \in Node |-> [p \in Path |-> NoPull]]
  /\ writes = 0 /\ asked = 0 /\ faults = 0
  /\ last = [p \in Path |-> None]
  /\ consent = [p \in Path |-> {}] /\ disturbed = {}

Pulling(p) == \E n \in Node : pulls[n][p].st # "idle"
InFlight(p) == \E s \in sends : s.path = p

-----------------------------------------------------------------------------
(* Writes.  A client's write is stored and fanned out; a write that carries *)
(* X-Cluster-Replicated is stored only.                                    *)

\* Mutant: a replica is fanned out like any other write.
FanOut_Again(n, p, op, visibility, id, replicated) ==
  [op: {op}, id: {id}, from: {n}, to: PeersFor(n, visibility), path: {p},
   visibility: {visibility}, bytes: {None}]
\* Mutant: a DELETE stays where it was sent.
FanOut_PutsOnly(n, p, op, visibility, id, replicated) ==
  IF replicated \/ op = "delete" THEN {} ELSE FanOut_Again(n, p, op, visibility, id, replicated)
FanOut(n, p, op, visibility, id, replicated) ==
  IF replicated THEN {}
  ELSE [op: {op}, id: {id}, from: {n}, to: PeersFor(n, visibility), path: {p},
        visibility: {visibility}, bytes: {None}]

\* A write that Agreement says nothing about.
Disturbs(p, header) ==
  InFlight(p) \/ Pulling(p) \/ VisibilityFor(p, header) # PathVisibility(p)

\* A put of p marked public has yet to read the file: it sends what is there by then.
Exposed(p) ==
  \E s \in sends : s.path = p /\ s.op = "put" /\ s.visibility = "public" /\ s.bytes = None

\* Where bytes of p may be from now on. Once writes or pulls of p overlap and one of them is
\* public, a public put may read the bytes of another, or those that a pull brings back after a
\* DELETE.
Consented(n, p, header, op) ==
  LET public == op = "put" /\ VisibilityFor(p, header) = "public"
      afoot == InFlight(p) \/ Pulling(p)
  IN CASE Exposed(p) \/ (public /\ afoot) -> Bytes \X Node
       [] public /\ ~ afoot -> {writes + 1} \X Node
       [] op = "put" /\ ~ public /\ ~ Exposed(p) -> {<<writes + 1, n>>}
       [] OTHER -> {}

Written(n, p, header, op, bytes) ==
  /\ writes < MaxWrites
  /\ writes' = writes + 1
  /\ disk' = [disk EXCEPT ![n][p] = bytes]
  /\ sends' = sends \cup FanOut(n, p, op, VisibilityFor(p, header), writes + 1, FALSE)
  /\ last' = IF n \in Sharing(p) THEN [last EXCEPT ![p] = bytes] ELSE last
  /\ disturbed' = IF Disturbs(p, header) THEN disturbed \cup {p} ELSE disturbed
  /\ consent' = IF p \notin PrivatePath THEN consent
                ELSE [consent EXCEPT ![p] = @ \cup Consented(n, p, header, op)]
  /\ UNCHANGED <<gets, pulls, asked, faults>>

Upload(n, p, header) == Written(n, p, header, "put", writes + 1)
Delete(n, p, header) == Written(n, p, header, "delete", None)

\* _put reads the file when the request goes out, not when the write happened.
ReadForPut(s) ==
  /\ s \in sends /\ s.op = "put" /\ s.bytes = None
  /\ LET held == disk[s.from][s.path] IN
     sends' = (sends \ {s}) \cup (IF held = None THEN {} ELSE {[s EXCEPT !.bytes = held]})
  /\ UNCHANGED <<disk, gets, pulls, writes, asked, faults, history>>

Receive(s) ==
  /\ s \in sends /\ (s.op = "put" => s.bytes # None)
  /\ disk' = [disk EXCEPT ![s.to][s.path] = s.bytes]
  /\ sends' = (sends \ {s}) \cup FanOut(s.to, s.path, s.op, s.visibility, s.id, TRUE)
  /\ UNCHANGED <<gets, pulls, writes, asked, faults, history>>

\* A refused, aborted or failed request: nobody sends it again.
Lose(s) ==
  /\ s \in sends /\ faults < MaxFaults
  /\ faults' = faults + 1
  /\ sends' = sends \ {s}
  /\ disturbed' = disturbed \cup {s.path}
  /\ UNCHANGED <<disk, gets, pulls, writes, asked, last, consent>>

-----------------------------------------------------------------------------
(* Reads and pulls.                                                        *)

\* The pull of a node that waits for one of these requests, once that is answered.
Learns(n, p, answered, bytes) ==
  LET pull == pulls[n][p] IN
  IF pull.st = "asking" /\ \E g \in answered : g.from = n /\ g.at = pull.peer
  THEN IF bytes = None THEN [pull EXCEPT !.st = "next", !.peer = None]
       ELSE [pull EXCEPT !.st = "storing", !.peer = None, !.bytes = bytes]
  ELSE pull

\* Node n answers these requests for p with bytes (None: 404); `own` is n's pull of p from now on.
Answer(n, p, answered, bytes, own) ==
  /\ gets' = gets \ answered
  /\ pulls' = [m \in Node |-> [q \in Path |->
                 IF q # p THEN pulls[m][q] ELSE IF m = n THEN own
                 ELSE Learns(m, p, answered, bytes)]]

\* A client asks for p at n.
Ask(n, p) ==
  /\ asked < MaxGets
  /\ asked' = asked + 1
  /\ gets' = gets \cup {[from |-> Client, at |-> n, path |-> p, st |-> "arrived"]}
  /\ UNCHANGED <<disk, sends, pulls, writes, faults, history>>

\* A replica on its way makes a pull that starts now a case Agreement excludes.
PullStarts(p) == disturbed' = IF InFlight(p) THEN disturbed \cup {p} ELSE disturbed

\* The request of an asker that hung up goes on, but nobody waits for its answer.
Joined(g) == IF g.from = Gone THEN {} ELSE {[g EXCEPT !.st = "waits"]}
HungUp(asker, asks) ==
  {g \in asks : g.from # asker}
    \cup {[g EXCEPT !.from = Gone] : g \in {x \in asks : x.from = asker /\ x.st = "arrived"}}

\* The file is here; or somebody pulls it already, and this request joins; or a pull starts.
Resolve(g) ==
  /\ g \in gets /\ g.st = "arrived"
  /\ LET held == disk[g.at][g.path]
         pull == pulls[g.at][g.path]
         waits == (gets \ {g}) \cup Joined(g)
     IN \/ /\ held # None
           /\ Answer(g.at, g.path, {g}, held, pull)
           /\ UNCHANGED disturbed
        \/ /\ held = None /\ pull.st # "idle"
           /\ gets' = waits
           /\ UNCHANGED <<pulls, disturbed>>
        \/ /\ held = None /\ pull.st = "idle"
           /\ gets' = waits
           /\ pulls' = [pulls EXCEPT ![g.at][g.path] =
                          [NoPull EXCEPT !.st = "next",
                                         !.rest = Bases(g.at, g.path)]]
           /\ PullStarts(g.path)
  /\ UNCHANGED <<disk, sends, writes, asked, faults, last, consent>>

\* fetchAndStore goes on to its next base; the origin comes after every peer.
AskNext(n, p, base) ==
  /\ pulls[n][p].st = "next" /\ base \in pulls[n][p].rest
  /\ base = Origin => pulls[n][p].rest = {Origin}
  /\ pulls' = [pulls EXCEPT ![n][p].st = "asking", ![n][p].peer = base,
                            ![n][p].rest = @ \ {base}]
  /\ gets' = IF base = Origin THEN gets
             ELSE gets \cup {[from |-> n, at |-> base, path |-> p, st |-> "arrived"]}
  /\ UNCHANGED <<disk, sends, writes, asked, faults, history>>

OriginSends(n, p) ==
  /\ pulls[n][p].st = "asking" /\ pulls[n][p].peer = Origin
  /\ pulls' = [pulls EXCEPT ![n][p].st = "storing", ![n][p].peer = None, ![n][p].bytes = 0]
  /\ UNCHANGED <<disk, sends, gets, writes, asked, faults, history>>

\* Mutant: a peer that takes long is waited for.
TimeOut_Never(n, p) == FALSE
\* The abort timer fires; the peer goes on with what it was asked, for nobody.  A peer that need not
\* ask others is late only through a fault.
TimeOut(n, p) ==
  /\ pulls[n][p].st = "asking"
  /\ \/ \E g \in gets : g.from = n /\ g.at = pulls[n][p].peer /\ g.path = p /\ g.st = "waits"
        /\ UNCHANGED faults
     \/ faults < MaxFaults /\ faults' = faults + 1
  /\ pulls' = [pulls EXCEPT ![n][p].st = "next", ![n][p].peer = None]
  /\ gets' = {g \in gets : g.path # p} \cup HungUp(n, {g \in gets : g.path = p})
  /\ UNCHANGED <<disk, sends, writes, asked, history>>

Waiting(n, p) == {g \in gets : g.at = n /\ g.path = p /\ g.st = "waits"}

\* The body is in the temporary file; the rename puts it over whatever is there by now.
Store(n, p) ==
  /\ pulls[n][p].st = "storing"
  /\ disk' = [disk EXCEPT ![n][p] = pulls[n][p].bytes]
  /\ Answer(n, p, Waiting(n, p), pulls[n][p].bytes, NoPull)
  /\ UNCHANGED <<sends, writes, asked, faults, history>>

\* The body breaks off or cannot be written: on to the next base.
StoreFails(n, p) ==
  /\ pulls[n][p].st = "storing" /\ faults < MaxFaults
  /\ faults' = faults + 1
  /\ pulls' = [pulls EXCEPT ![n][p].st = "next", ![n][p].bytes = None]
  /\ UNCHANGED <<disk, sends, gets, writes, asked, history>>

\* No base had it: everyone who waits is answered 404.
NobodyHasIt(n, p) ==
  /\ pulls[n][p].st = "next" /\ pulls[n][p].rest = {}
  /\ Answer(n, p, Waiting(n, p), None, NoPull)
  /\ UNCHANGED <<disk, sends, writes, asked, faults, history>>

\* A node restarts: what it was doing, and what was being asked of it, breaks off.
Restart(n) ==
  /\ faults < MaxFaults
  /\ faults' = faults + 1
  /\ LET cut == {g \in gets : g.at = n} IN
     /\ gets' = HungUp(n, gets \ cut)
     /\ pulls' = [m \in Node |-> [p \in Path |->
                    IF m = n THEN NoPull
                    ELSE Learns(m, p, {g \in cut : g.path = p}, None)]]
  /\ sends' = {s \in sends : s.from # n}
  /\ disturbed' = disturbed \cup {s.path : s \in sends \ sends'}
  /\ UNCHANGED <<disk, writes, asked, last, consent>>

-----------------------------------------------------------------------------
ClientWrites == \E n \in Node, p \in Path, h \in Header : Upload(n, p, h) \/ Delete(n, p, h)
SendStep(s) == ReadForPut(s) \/ Receive(s) \/ Lose(s)
PullStep(n, p) ==
  \/ \E base \in Node \cup {Origin} : AskNext(n, p, base)
  \/ OriginSends(n, p)
  \/ TimeOut(n, p)
  \/ Store(n, p)
  \/ NobodyHasIt(n, p)

Next ==
  \/ ClientWrites
  \/ \E s \in sends : SendStep(s)
  \/ \E n \in Node, p \in Path : Ask(n, p) \/ PullStep(n, p) \/ StoreFails(n, p)
  \/ \E g \in gets : Resolve(g)
  \/ \E n \in Node : Restart(n)

\* A node's handlers and timers go on, and so do the requests it fires; nothing is assumed of clients,
\* of faults, or of the order in which a node takes up what it has to do.
ReadStep(n) == (\E p \in Path : PullStep(n, p)) \/ \E g \in gets : g.at = n /\ Resolve(g)
SendsOf(n) == \E s \in sends : s.from = n /\ SendStep(s)
Fairness == \A n \in Node : WF_vars(ReadStep(n)) /\ WF_vars(SendsOf(n))

Spec == Init /\ [][Next]_vars /\ Fairness

-----------------------------------------------------------------------------
TypeOK ==
  /\ disk \in [Node -> [Path -> Bytes \cup {None}]]
  /\ sends \subseteq Sending /\ gets \subseteq Get
  /\ pulls \in [Node -> [Path -> Pull]]
  /\ writes \in 0 .. MaxWrites /\ asked \in 0 .. MaxGets /\ faults \in 0 .. MaxFaults
  /\ last \in [Path -> Bytes \cup {None}]
  /\ consent \in [Path -> SUBSET (Bytes \X Node)] /\ disturbed \subseteq Path

\* The rule cluster.js is built on: no replica and no pull brings the bytes of a master under
\* PRIVATE_PATHS to a public node, unless a client put them there or marked them public, or a write
\* marked public overlapped other writes or pulls of the path.
PrivateStays ==
  \A n \in Node \ PrivateNode, p \in PrivatePath \ OriginPath :
    disk[n][p] = None \/ <<disk[n][p], n>> \in consent[p]

\* cluster.js and write.js ("so GETs 404 and the cluster stays consistent"): when nothing is on
\* its way any more, the nodes that share a master all hold what the last write left, unless a
\* message was lost, two writes met, a pull met a write, or a write was marked against its path.
Agreement ==
  \A p \in Path \ disturbed :
    ~ InFlight(p) /\ ~ Pulling(p) =>
      \A n \in Sharing(p) :
         disk[n][p] = last[p] \/ (last[p] = None /\ p \in OriginPath /\ disk[n][p] = 0)

\* Replication comes to rest: no write goes round the nodes for ever.
TrafficEnds == <>[](sends = {})

\* A client's GET is answered, also when the nodes that miss the master ask one another.
Pending(n, p) == \E g \in gets : g.from = Client /\ g.at = n /\ g.path = p
GetAnswered == \A n \in Node, p \in Path : Pending(n, p) ~> ~ Pending(n, p)
=============================================================================
