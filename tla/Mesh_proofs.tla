------------------------------ MODULE Mesh_proofs ------------------------------
(***************************************************************************)
(* Theorems about Mesh for every set of nodes, every configuration of      *)
(* seeds and local networks, and any number of faults.                     *)
(***************************************************************************)
EXTENDS Mesh, TLAPS

-------------------------------------------------------------------------------
(* The events of a node: the last one about a peer tells whether the two   *)
(* are neighbours, and without one the set of active peers does.           *)

Silent(q, m) == \A i \in 1..Len(q) : q[i].peer # m

LastAbout(q, i, m) ==
    /\ q[i].peer = m
    /\ \A j \in 1..Len(q) : j > i => q[j].peer # m

\* Once q is handled, what was a is nb.
Follows(q, a, nb) ==
    \A m \in Node :
        /\ Silent(q, m) => (m \in a <=> m \in nb)
        /\ \A i \in 1..Len(q) :
              LastAbout(q, i, m) => (q[i].kind = "NeighborUp" <=> m \in nb)

Heeding(S, e) == IF e.kind = "NeighborUp" THEN S \union {e.peer} ELSE S \ {e.peer}

LEMMA HeedingPeer ==
    ASSUME NEW S, NEW e \in Event
    PROVE  /\ e.peer \in Heeding(S, e) <=> e.kind = "NeighborUp"
           /\ \A m : m # e.peer => (m \in Heeding(S, e) <=> m \in S)
BY DEF Heeding, Event

\* An event is told when the neighbours change.
LEMMA FollowsAppend ==
    ASSUME NEW q \in Seq(Event), NEW a, NEW nb, NEW e \in Event, Follows(q, a, nb)
    PROVE  Follows(Append(q, e), a, Heeding(nb, e))
<1> DEFINE r == Append(q, e)
           nc == Heeding(nb, e)
<1>1. /\ r \in Seq(Event) /\ Len(r) = Len(q) + 1 /\ Len(q) \in Nat
      /\ r[Len(q) + 1] = e
      /\ \A i \in 1..Len(q) : r[i] = q[i]
  OBVIOUS
<1> HIDE DEF r, nc
<1> SUFFICES ASSUME NEW m \in Node
             PROVE  /\ Silent(r, m) => (m \in a <=> m \in nc)
                    /\ \A i \in 1..Len(r) :
                          LastAbout(r, i, m) => (r[i].kind = "NeighborUp" <=> m \in nc)
  BY DEF Follows, r, nc
<1>2. CASE m = e.peer
  <2>1. ~Silent(r, m)
    BY <1>1, <1>2 DEF Silent
  <2>2. ASSUME NEW i \in 1..Len(r), LastAbout(r, i, m) PROVE r[i] = e
    BY <1>1, <1>2, <2>2 DEF LastAbout
  <2> QED BY <1>2, <2>1, <2>2, HeedingPeer DEF nc
<1>3. CASE m # e.peer
  <2>1. m \in nc <=> m \in nb
    BY <1>3, HeedingPeer DEF nc
  <2>2. Silent(r, m) => Silent(q, m)
    BY <1>1 DEF Silent
  <2>3. ASSUME NEW i \in 1..Len(r), LastAbout(r, i, m)
        PROVE  i \in 1..Len(q) /\ LastAbout(q, i, m) /\ r[i] = q[i]
    <3>1. i # Len(q) + 1
      BY <1>1, <1>3, <2>3 DEF LastAbout
    <3> QED BY <1>1, <2>3, <3>1 DEF LastAbout
  <2> QED BY <2>1, <2>2, <2>3 DEF Follows
<1> QED BY <1>2, <1>3

\* The first event is handled.
LEMMA FollowsTail ==
    ASSUME NEW q \in Seq(Event), q # <<>>, NEW a, NEW nb, Follows(q, a, nb)
    PROVE  Follows(Tail(q), Heeding(a, Head(q)), nb)
<1> DEFINE r == Tail(q)
           e == Head(q)
           b == Heeding(a, e)
<1>1. /\ r \in Seq(Event) /\ Len(r) = Len(q) - 1 /\ Len(q) \in Nat /\ Len(q) > 0
      /\ e = q[1] /\ e \in Event
      /\ \A i \in 1..Len(r) : r[i] = q[i + 1]
  OBVIOUS
<1> HIDE DEF r, e, b
<1> SUFFICES ASSUME NEW m \in Node
             PROVE  /\ Silent(r, m) => (m \in b <=> m \in nb)
                    /\ \A i \in 1..Len(r) :
                          LastAbout(r, i, m) => (r[i].kind = "NeighborUp" <=> m \in nb)
  BY DEF Follows, r, e, b
<1>2. ASSUME Silent(r, m) PROVE \A j \in 1..Len(q) : j > 1 => q[j].peer # m
  <2> SUFFICES ASSUME NEW j \in 1..Len(q), j > 1 PROVE q[j].peer # m
    OBVIOUS
  <2>1. j - 1 \in 1..Len(r) /\ r[j - 1] = q[(j - 1) + 1] /\ (j - 1) + 1 = j
    BY <1>1
  <2> QED BY <1>2, <2>1 DEF Silent
<1>3. ASSUME Silent(r, m) PROVE m \in b <=> m \in nb
  <2>1. CASE m = e.peer
    <3>1. LastAbout(q, 1, m)
      BY <1>1, <1>2, <1>3, <2>1 DEF LastAbout
    <3>2. q[1].kind = "NeighborUp" <=> m \in nb
      BY <1>1, <3>1 DEF Follows
    <3> QED BY <1>1, <2>1, <3>2, HeedingPeer DEF b
  <2>2. CASE m # e.peer
    <3>1. Silent(q, m)
      BY <1>1, <1>2, <1>3, <2>2 DEF Silent
    <3> QED BY <1>1, <2>2, <3>1, HeedingPeer DEF b, Follows
  <2> QED BY <2>1, <2>2
<1>4. ASSUME NEW i \in 1..Len(r), LastAbout(r, i, m)
      PROVE  r[i].kind = "NeighborUp" <=> m \in nb
  <2>1. i + 1 \in 1..Len(q) /\ r[i] = q[i + 1]
    BY <1>1
  <2>2. ASSUME NEW j \in 1..Len(q), j > i + 1 PROVE q[j].peer # m
    <3>1. j - 1 \in 1..Len(r) /\ j - 1 > i /\ r[j - 1] = q[(j - 1) + 1] /\ (j - 1) + 1 = j
      BY <1>1, <2>2
    <3> QED BY <1>4, <3>1 DEF LastAbout
  <2>3. LastAbout(q, i + 1, m)
    BY <1>4, <2>1, <2>2 DEF LastAbout
  <2> QED BY <2>1, <2>3 DEF Follows
<1> QED BY <1>3, <1>4

\* With nothing left to handle, the active peers are the neighbours.
LEMMA FollowsEmpty ==
    ASSUME NEW a, NEW nb
    PROVE  /\ a = nb => Follows(<<>>, a, nb)
           /\ Follows(<<>>, a, nb) /\ a \subseteq Node /\ nb \subseteq Node => a = nb
<1>1. Len(<<>>) = 0 /\ \A i : i \notin 1..0
  OBVIOUS
<1>2. \A m : Silent(<<>>, m)
  BY <1>1 DEF Silent
<1> QED BY <1>1, <1>2 DEF Follows

-------------------------------------------------------------------------------
(* The invariant.                                                          *)

\* The event loop is in the middle of an event only between Remember and NeighborUp.
OneAtATime(n) ==
    remembered[n] => /\ loop[n] = "On"
                     /\ events[n] # <<>>
                     /\ Head(events[n]).kind = "NeighborUp"
                     /\ Head(events[n]).peer \in known[n] \union unwritten[n]

MetIsKept(n) == met[n] \subseteq known[n] \union unwritten[n]

\* A process that is down leaves nothing behind in memory or in the swarm.
LeavesNothing(n) ==
    ~Up(n) => active[n] = {} /\ events[n] = <<>> /\ asked[n] = {} /\ Neighbours(n) = {}

CatchesUp(n) == loop[n] = "On" => Follows(events[n], active[n], Neighbours(n))

NodeInv(n) ==
    asked[n] \subseteq Node \ {n} /\ OneAtATime(n) /\ MetIsKept(n) /\ LeavesNothing(n) /\ CatchesUp(n)

LinksArePairs == \A pair \in links : \E n, m \in Node : n # m /\ pair = {n, m}

MeshInv == TypeOK /\ LinksArePairs /\ \A n \in Node : NodeInv(n)

LEMMA NeighboursOf ==
    ASSUME NEW n \in Node
    PROVE  Neighbours(n) \subseteq Node
BY DEF Neighbours

\* At first all nodes are down, and nobody has met anybody.
LEMMA InitMesh == Init => MeshInv
<1> SUFFICES ASSUME Init PROVE MeshInv
  OBVIOUS
<1>1. TypeOK
  BY MeshAssumption DEF Init, TypeOK
<1>2. LinksArePairs
  BY DEF Init, LinksArePairs
<1>3. ASSUME NEW n \in Node PROVE NodeInv(n)
  BY DEF Init, NodeInv, OneAtATime, MetIsKept, LeavesNothing, CatchesUp, Neighbours
<1> QED BY <1>1, <1>2, <1>3 DEF MeshInv

\* What the others do leaves a node's own part alone.
LEMMA Undisturbed ==
    ASSUME NEW n \in Node, NodeInv(n), loop'[n] = loop[n], events'[n] = events[n],
           active'[n] = active[n], known'[n] = known[n], remembered'[n] = remembered[n],
           met'[n] = met[n], unwritten'[n] = unwritten[n], asked'[n] \subseteq asked[n],
           Neighbours(n)' = Neighbours(n)
    PROVE  NodeInv(n)'
BY DEF NodeInv, OneAtATime, MetIsKept, LeavesNothing, CatchesUp, Up

\* A node that is told of an event has it behind the one it handles, and its neighbours
\* are what the event says.
LEMMA Informed ==
    ASSUME NEW n \in Node, TypeOK, NodeInv(n), Up(n), loop'[n] = loop[n], active'[n] = active[n],
           known'[n] = known[n], remembered'[n] = remembered[n], met'[n] = met[n],
           unwritten'[n] = unwritten[n], asked'[n] \subseteq asked[n], NEW e \in Event,
           loop[n] = "On" => events'[n] = Append(events[n], e),
           Neighbours(n)' = Heeding(Neighbours(n), e)
    PROVE  NodeInv(n)'
<1>1. events[n] \in Seq(Event)
  BY DEF TypeOK
<1>2. asked'[n] \subseteq Node \ {n} /\ MetIsKept(n)' /\ LeavesNothing(n)'
  BY DEF NodeInv, MetIsKept, LeavesNothing, Up
<1>3. OneAtATime(n)'
  <2>1. events[n] # <<>> => /\ Append(events[n], e) # <<>>
                            /\ Head(Append(events[n], e)) = Head(events[n])
    BY <1>1
  <2> QED BY <2>1 DEF NodeInv, OneAtATime
<1>4. CatchesUp(n)'
  BY <1>1, FollowsAppend DEF NodeInv, CatchesUp
<1> QED BY <1>2, <1>3, <1>4 DEF NodeInv

-------------------------------------------------------------------------------
(* Two nodes become neighbours or lose each other.                         *)

LEMMA OtherOf ==
    ASSUME NEW n \in Node, NEW m \in Node, n # m
    PROVE  /\ Other({n, m}) \in [Node -> Node]
           /\ Other({n, m})[n] = m
           /\ Other({n, m})[m] = n
           /\ \A k \in Node : k \notin {n, m} => Other({n, m})[k] = k
<1>1. (CHOOSE k \in {n, m} : k # n) = m
  OBVIOUS
<1>2. (CHOOSE k \in {n, m} : k # m) = n
  OBVIOUS
<1>3. ASSUME NEW k \in Node
      PROVE  Other({n, m})[k] = IF k = n THEN m ELSE IF k = m THEN n ELSE k
  BY <1>1, <1>2 DEF Other
<1>4. Other({n, m}) = [k \in Node |-> Other({n, m})[k]]
  BY DEF Other
<1> QED BY <1>3, <1>4

\* Told tells those of the pair that have an event loop, and nobody else.
LEMMA ToldOf ==
    ASSUME TypeOK, NEW n \in Node, NEW m \in Node, n # m, NEW kind \in {"NeighborUp", "NeighborDown"},
           events' = Told(kind, Other({n, m}))
    PROVE  /\ events' \in [Node -> Seq(Event)]
           /\ \A k \in Node : k \notin {n, m} => events'[k] = events[k]
           /\ \A k \in {n, m} :
                 events'[k] = IF loop[k] = "On"
                              THEN Append(events[k], [kind |-> kind, peer |-> Other({n, m})[k]])
                              ELSE events[k]
<1>0. /\ Other({n, m}) \in [Node -> Node]
      /\ Other({n, m})[n] = m
      /\ Other({n, m})[m] = n
      /\ \A k \in Node : k \notin {n, m} => Other({n, m})[k] = k
  BY OtherOf, Zenon
<1>1. ASSUME NEW k \in Node
      PROVE  events'[k] = IF loop[k] = "On" /\ Other({n, m})[k] # k
                          THEN Append(events[k], [kind |-> kind, peer |-> Other({n, m})[k]])
                          ELSE events[k]
  BY DEF Told
<1>2. ASSUME NEW k \in Node PROVE events'[k] \in Seq(Event)
  <2>1. events[k] \in Seq(Event)
    BY DEF TypeOK
  <2>2. Other({n, m})[k] \in Node
    BY <1>0
  <2> DEFINE e == [kind |-> kind, peer |-> Other({n, m})[k]]
  <2>3. e \in Event
    BY <2>2 DEF Event
  <2> HIDE DEF e
  <2>4. Append(events[k], e) \in Seq(Event)
    BY <2>1, <2>3
  <2> QED BY <1>1, <2>1, <2>4 DEF e
<1>3. events' = [k \in Node |-> events'[k]]
  BY DEF Told
<1>4. events' \in [Node -> Seq(Event)]
  BY <1>2, <1>3
<1> QED BY <1>0, <1>1, <1>4

\* The two see it alike, and no third node does.
LEMMA Joining ==
    ASSUME NEW n \in Node, NEW m \in Node, n # m, links' = links \union {{n, m}}
    PROVE  /\ Neighbours(n)' = Neighbours(n) \union {m}
           /\ Neighbours(m)' = Neighbours(m) \union {n}
           /\ \A k \in Node : k \notin {n, m} => Neighbours(k)' = Neighbours(k)
<1>1. ASSUME NEW k \in Node, NEW l \in Node PROVE {k, l} = {n, m} <=> (k = n /\ l = m) \/ (k = m /\ l = n)
  OBVIOUS
<1>2. ASSUME NEW k \in Node PROVE Neighbours(k)' \subseteq Node /\ Neighbours(k) \subseteq Node
  BY DEF Neighbours
<1>3. ASSUME NEW k \in Node, NEW l \in Node
      PROVE  l \in Neighbours(k)' <=> l \in Neighbours(k) \/ (k = n /\ l = m) \/ (k = m /\ l = n)
  BY <1>1 DEF Neighbours
<1> QED BY <1>2, <1>3

LEMMA Parting ==
    ASSUME NEW n \in Node, NEW m \in Node, n # m, links' = links \ {{n, m}}
    PROVE  /\ Neighbours(n)' = Neighbours(n) \ {m}
           /\ Neighbours(m)' = Neighbours(m) \ {n}
           /\ \A k \in Node : k \notin {n, m} => Neighbours(k)' = Neighbours(k)
<1>1. ASSUME NEW k \in Node, NEW l \in Node PROVE {k, l} = {n, m} <=> (k = n /\ l = m) \/ (k = m /\ l = n)
  OBVIOUS
<1>2. ASSUME NEW k \in Node PROVE Neighbours(k)' \subseteq Node /\ Neighbours(k) \subseteq Node
  BY DEF Neighbours
<1>3. ASSUME NEW k \in Node, NEW l \in Node
      PROVE  l \in Neighbours(k)' <=> l \in Neighbours(k) /\ ~(k = n /\ l = m) /\ ~(k = m /\ l = n)
  BY <1>1 DEF Neighbours
<1> QED BY <1>2, <1>3

-------------------------------------------------------------------------------
(* Every step keeps the invariant.                                         *)

\* The step of one node that changes no link.
LEMMA OneNode ==
    ASSUME MeshInv, NEW n \in Node, TypeOK', links' = links,
           \A k \in Node \ {n} :
              /\ loop'[k] = loop[k] /\ events'[k] = events[k] /\ active'[k] = active[k]
              /\ known'[k] = known[k] /\ remembered'[k] = remembered[k]
              /\ met'[k] = met[k] /\ unwritten'[k] = unwritten[k] /\ asked'[k] = asked[k],
           NodeInv(n)'
    PROVE  MeshInv'
<1>1. LinksArePairs'
  BY DEF MeshInv, LinksArePairs
<1>2. \A k \in Node : Neighbours(k)' = Neighbours(k)
  BY DEF Neighbours
<1>3. ASSUME NEW k \in Node PROVE NodeInv(k)'
  BY <1>2, Undisturbed DEF MeshInv
<1> QED BY <1>1, <1>3 DEF MeshInv

\* The training loop, and the records that leave the channel.
LEMMA SendingMesh ==
    ASSUME MeshInv, NEW n \in Node, Announce(n) \/ Send(n) \/ Broadcast(n)
    PROVE  MeshInv'
<1>1. UNCHANGED <<loop, active, known, remembered, met, unwritten, events, asked, links, cut>>
  BY DEF Announce, Send, Broadcast, peerVars, swarmVars
<1>2. TypeOK
  BY DEF MeshInv
<1>3. to_send' \in [Node -> 0..Batch] /\ channel' \in [Node -> 0..Capacity] /\ passes' \in Nat
  <2>1. CASE Announce(n)
    BY <1>2, <2>1, MeshAssumption DEF Announce, TypeOK
  <2>2. CASE Send(n)
    <3>1. /\ to_send[n] \in 1..Batch /\ channel[n] \in 0..Capacity
          /\ to_send \in [Node -> 0..Batch] /\ channel \in [Node -> 0..Capacity]
          /\ passes' \in Nat
      BY <1>2, <2>2, MeshAssumption DEF Send, TypeOK
    <3>2. to_send' \in [Node -> 0..Batch]
      BY <2>2, <3>1, MeshAssumption DEF Send
    <3>3. channel' \in [Node -> 0..Capacity]
      BY <2>2, <3>1, MeshAssumption DEF Send
    <3> QED BY <3>1, <3>2, <3>3
  <2>3. CASE Broadcast(n)
    BY <1>2, <2>3, MeshAssumption DEF Broadcast, TypeOK
  <2> QED BY <2>1, <2>2, <2>3
<1>4. faults' = faults
  BY DEF Announce, Send, Broadcast
<1>5. TypeOK'
  BY <1>1, <1>2, <1>3, <1>4 DEF TypeOK
<1>6. \A k \in Node : Neighbours(k)' = Neighbours(k)
  BY <1>1 DEF Neighbours
<1>7. NodeInv(n)'
  BY <1>1, <1>6, Undisturbed DEF MeshInv
<1> QED BY <1>1, <1>5, <1>7, OneNode

\* The event loop.
LEMMA EventLoopMesh ==
    ASSUME MeshInv, NEW n \in Node, EventLoop(n)
    PROVE  MeshInv'
<1> DEFINE e == Head(events[n])
<1>1. TypeOK /\ NodeInv(n)
  BY DEF MeshInv
<1>2. loop[n] = "On" /\ events[n] # <<>> /\ events[n] \in Seq(Event)
  BY <1>1 DEF EventLoop, Remember, NeighborUp, NeighborDown, Handling, TypeOK
<1>3. e \in Event /\ Tail(events[n]) \in Seq(Event) /\ e.peer \in Node
  <2>1. e \in Event /\ Tail(events[n]) \in Seq(Event)
    BY <1>2
  <2> QED BY <2>1 DEF Event
<1>4. /\ UNCHANGED <<loop, to_send, channel, passes, asked, links, cut>>
      /\ \A k \in Node : Neighbours(k)' = Neighbours(k)
  BY DEF EventLoop, Remember, NeighborUp, NeighborDown, sendVars, swarmVars, Neighbours
<1> HIDE DEF e
<1>5. ASSUME Remember(n) PROVE MeshInv'
  <2>1. /\ remembered' = [remembered EXCEPT ![n] = TRUE]
        /\ e.kind = "NeighborUp"
        /\ \/ known' = [known EXCEPT ![n] = @ \union {e.peer}] /\ UNCHANGED <<unwritten, faults>>
           \/ unwritten' = [unwritten EXCEPT ![n] = @ \union {e.peer}] /\ faults' = faults + 1
              /\ UNCHANGED known
        /\ UNCHANGED <<active, met, events>>
    BY <1>5 DEF Remember, Handling, Fault, e
  <2>2. TypeOK'
    <3>0. /\ known[n] \union {e.peer} \in SUBSET Node /\ unwritten[n] \union {e.peer} \in SUBSET Node
          /\ known \in [Node -> SUBSET Node] /\ unwritten \in [Node -> SUBSET Node]
      BY <1>1, <1>3 DEF TypeOK
    <3>1. known' \in [Node -> SUBSET Node]
      BY <2>1, <3>0
    <3>2. unwritten' \in [Node -> SUBSET Node]
      BY <2>1, <3>0
    <3>3. remembered' \in [Node -> BOOLEAN]
      BY <1>1, <2>1 DEF TypeOK
    <3>4. faults' \in Nat
      BY <1>1, <2>1 DEF TypeOK
    <3> QED BY <1>1, <1>4, <2>1, <3>1, <3>2, <3>3, <3>4 DEF TypeOK
  <2>3. /\ remembered'[n]
        /\ known[n] \union unwritten[n] \union {e.peer} = known'[n] \union unwritten'[n]
        /\ \A k \in Node \ {n} : remembered'[k] = remembered[k] /\ known'[k] = known[k]
                                 /\ unwritten'[k] = unwritten[k]
    BY <1>1, <2>1 DEF TypeOK
  <2>4. OneAtATime(n)' /\ MetIsKept(n)'
    BY <1>1, <1>2, <1>4, <2>1, <2>3 DEF NodeInv, OneAtATime, MetIsKept, e
  <2>5. NodeInv(n)'
    BY <1>1, <1>4, <2>1, <2>4 DEF NodeInv, LeavesNothing, CatchesUp, Up
  <2> QED BY <1>4, <2>1, <2>2, <2>3, <2>5, OneNode
<1>6. ASSUME NeighborUp(n) \/ NeighborDown(n) PROVE MeshInv'
  <2>1. /\ active' = [active EXCEPT ![n] = Heeding(@, e)]
        /\ events' = [events EXCEPT ![n] = Tail(@)]
        /\ UNCHANGED <<known, unwritten, faults>>
    BY <1>6 DEF NeighborUp, NeighborDown, Handling, Heeding, e
  <2>2. /\ remembered' = [remembered EXCEPT ![n] = FALSE]
        /\ met' \in [Node -> SUBSET Node]
        /\ met'[n] \subseteq known[n] \union unwritten[n]
        /\ \A k \in Node \ {n} : met'[k] = met[k]
    <3>1. CASE NeighborUp(n)
      BY <1>1, <1>3, <3>1 DEF NeighborUp, Handling, NodeInv, OneAtATime, MetIsKept, TypeOK, e
    <3>2. CASE NeighborDown(n)
      <4>1. ~remembered[n]
        BY <1>1, <3>2 DEF NeighborDown, Handling, NodeInv, OneAtATime
      <4>2. remembered' = remembered /\ met' = met
        BY <3>2 DEF NeighborDown
      <4>3. remembered = [remembered EXCEPT ![n] = FALSE]
        BY <1>1, <4>1 DEF TypeOK
      <4> QED BY <1>1, <4>2, <4>3 DEF NodeInv, MetIsKept, TypeOK
    <3> QED BY <1>6, <3>1, <3>2
  <2>3. Heeding(active[n], e) \subseteq Node
    BY <1>1, <1>3 DEF TypeOK, Heeding
  <2>4. TypeOK'
    BY <1>1, <1>3, <1>4, <2>1, <2>2, <2>3 DEF TypeOK
  <2>5. /\ active'[n] = Heeding(active[n], e) /\ events'[n] = Tail(events[n])
        /\ remembered'[n] = FALSE
        /\ \A k \in Node \ {n} : active'[k] = active[k] /\ events'[k] = events[k]
                                 /\ remembered'[k] = remembered[k]
    BY <1>1, <2>1, <2>2 DEF TypeOK
  <2>6. CatchesUp(n)'
    BY <1>1, <1>2, <1>4, <2>5, FollowsTail DEF NodeInv, CatchesUp, e
  <2>7. OneAtATime(n)' /\ MetIsKept(n)' /\ LeavesNothing(n)' /\ asked'[n] \subseteq Node \ {n}
    BY <1>1, <1>2, <1>4, <2>1, <2>2, <2>5 DEF NodeInv, OneAtATime, MetIsKept, LeavesNothing, Up
  <2>8. NodeInv(n)'
    BY <2>6, <2>7 DEF NodeInv
  <2> QED BY <1>4, <2>1, <2>2, <2>4, <2>5, <2>8, OneNode
<1> QED BY <1>5, <1>6 DEF EventLoop

\* The process starts, its event loop ends, and it is offered peers.
LEMMA ProcessMesh ==
    ASSUME MeshInv, NEW n \in Node, Start(n) \/ EventLoopEnds(n) \/ Rejoin(n) \/ Discovered(n)
    PROVE  MeshInv'
<1>1. TypeOK /\ NodeInv(n)
  BY DEF MeshInv
<1>2. links' = links /\ \A k \in Node : Neighbours(k)' = Neighbours(k)
  BY DEF Start, EventLoopEnds, Rejoin, Discovered, swarmVars, Neighbours
<1>3. ASSUME Start(n) PROVE MeshInv'
  <2>1. /\ ~Up(n)
        /\ loop' = [loop EXCEPT ![n] = "On"]
        /\ asked' = [asked EXCEPT ![n] = seed_peers(n) \ {n}]
        /\ UNCHANGED <<to_send, channel, passes, active, known, remembered, met, unwritten, events,
                       links, cut, faults>>
    BY <1>3 DEF Start, sendVars, peerVars
  <2>2. seed_peers(n) \subseteq Node
    BY <1>1, MeshAssumption DEF seed_peers, TypeOK
  <2>3. TypeOK'
    <3>1. seed_peers(n) \ {n} \in SUBSET Node
      BY <2>2
    <3> QED BY <1>1, <2>1, <3>1 DEF TypeOK
  <2>4. /\ loop'[n] = "On" /\ asked'[n] = seed_peers(n) \ {n}
        /\ \A k \in Node \ {n} : loop'[k] = loop[k] /\ asked'[k] = asked[k]
    BY <1>1, <2>1 DEF TypeOK
  <2>5. ~remembered[n] /\ events[n] = <<>> /\ active[n] = {} /\ Neighbours(n) = {}
    BY <1>1, <2>1 DEF NodeInv, OneAtATime, LeavesNothing, Up
  <2>6. CatchesUp(n)'
    BY <1>2, <2>1, <2>5, FollowsEmpty DEF CatchesUp
  <2>7. NodeInv(n)'
    BY <1>1, <2>1, <2>2, <2>4, <2>5, <2>6
       DEF NodeInv, OneAtATime, MetIsKept, LeavesNothing, Up
  <2> QED BY <2>1, <2>3, <2>4, <2>7, OneNode
<1>4. ASSUME EventLoopEnds(n) PROVE MeshInv'
  <2>1. /\ loop[n] = "On" /\ ~remembered[n]
        /\ loop' = [loop EXCEPT ![n] = "Ended"]
        /\ channel' = [channel EXCEPT ![n] = 0]
        /\ events' = [events EXCEPT ![n] = <<>>]
        /\ faults' = faults + 1
        /\ UNCHANGED <<to_send, passes, active, known, remembered, met, unwritten, asked, links, cut>>
    BY <1>4 DEF EventLoopEnds, Fault, peerVars, swarmVars
  <2>2. TypeOK'
    <3>1. channel' \in [Node -> 0..Capacity]
      BY <1>1, <2>1, MeshAssumption DEF TypeOK
    <3>2. events' \in [Node -> Seq(Event)]
      BY <1>1, <2>1 DEF TypeOK
    <3> QED BY <1>1, <2>1, <3>1, <3>2 DEF TypeOK
  <2>3. /\ loop'[n] = "Ended"
        /\ \A k \in Node \ {n} : loop'[k] = loop[k] /\ events'[k] = events[k]
    BY <1>1, <2>1 DEF TypeOK
  <2>4. NodeInv(n)'
    BY <1>1, <2>1, <2>3 DEF NodeInv, OneAtATime, MetIsKept, LeavesNothing, CatchesUp, Up
  <2> QED BY <2>1, <2>2, <2>3, <2>4, OneNode
<1>5. ASSUME NEW offered \in SUBSET Node, n \notin offered, Up(n),
             asked' = [asked EXCEPT ![n] = @ \union offered],
             NEW found \in SUBSET Node,
             known' = [known EXCEPT ![n] = @ \union found],
             NEW lost \in SUBSET Node,
             unwritten' = [unwritten EXCEPT ![n] = @ \union lost],
             NEW seen \in SUBSET (found \union lost),
             met' = [met EXCEPT ![n] = @ \union seen],
             faults' \in Nat,
             UNCHANGED <<loop, to_send, channel, passes, active, remembered, events, links, cut>>
      PROVE  MeshInv'
  <2>1. /\ asked \in [Node -> SUBSET Node] /\ asked[n] \union offered \in SUBSET Node
        /\ known \in [Node -> SUBSET Node] /\ known[n] \union found \in SUBSET Node
        /\ met \in [Node -> SUBSET Node] /\ met[n] \union seen \in SUBSET Node
        /\ unwritten \in [Node -> SUBSET Node] /\ unwritten[n] \union lost \in SUBSET Node
    BY <1>1, <1>5 DEF TypeOK
  <2>2. /\ asked' \in [Node -> SUBSET Node] /\ asked'[n] = asked[n] \union offered
        /\ \A k \in Node \ {n} : asked'[k] = asked[k]
    BY <1>5, <2>1
  <2>3. /\ known' \in [Node -> SUBSET Node] /\ known'[n] = known[n] \union found
        /\ \A k \in Node \ {n} : known'[k] = known[k]
    BY <1>5, <2>1
  <2>4. /\ met' \in [Node -> SUBSET Node] /\ met'[n] = met[n] \union seen
        /\ \A k \in Node \ {n} : met'[k] = met[k]
    BY <1>5, <2>1
  <2>0. /\ unwritten' \in [Node -> SUBSET Node] /\ unwritten'[n] = unwritten[n] \union lost
        /\ \A k \in Node \ {n} : unwritten'[k] = unwritten[k]
    BY <1>5, <2>1
  <2>5. TypeOK'
    BY <1>1, <1>5, <2>2, <2>3, <2>4, <2>0 DEF TypeOK
  <2>6. OneAtATime(n)' /\ MetIsKept(n)' /\ LeavesNothing(n)' /\ asked'[n] \subseteq Node \ {n}
    BY <1>1, <1>5, <2>2, <2>3, <2>4, <2>0 DEF NodeInv, OneAtATime, MetIsKept, LeavesNothing, Up
  <2>7. CatchesUp(n)'
    BY <1>1, <1>2, <1>5 DEF NodeInv, CatchesUp
  <2> QED BY <1>5, <2>2, <2>3, <2>4, <2>0, <2>5, <2>6, <2>7, OneNode DEF NodeInv
<1>6. ASSUME Rejoin(n) PROVE MeshInv'
  <2>1. /\ Up(n) /\ known[n] \ {n} \in SUBSET Node
        /\ known = [known EXCEPT ![n] = @ \union {}]
        /\ met = [met EXCEPT ![n] = @ \union {}]
        /\ unwritten = [unwritten EXCEPT ![n] = @ \union {}]
        /\ {} \in SUBSET Node /\ {} \in SUBSET ({} \union {}) /\ faults \in Nat
    BY <1>1, <1>6 DEF Rejoin, TypeOK
  <2>2. /\ asked' = [asked EXCEPT ![n] = @ \union (known[n] \ {n})]
        /\ UNCHANGED <<loop, to_send, channel, passes, active, known, remembered, met, unwritten,
                       events, links, cut, faults>>
    BY <1>6 DEF Rejoin, sendVars, peerVars
  <2>3. n \notin known[n] \ {n}
    OBVIOUS
  <2> QED BY <1>5, <2>1, <2>2, <2>3
<1>7. ASSUME Discovered(n) PROVE MeshInv'
  <2>1. PICK m \in Node \ {n} :
          /\ met' = [met EXCEPT ![n] = @ \union {m}]
          /\ asked' = [asked EXCEPT ![n] = @ \union {m}]
          /\ \/ known' = [known EXCEPT ![n] = @ \union {m}] /\ UNCHANGED <<unwritten, faults>>
             \/ unwritten' = [unwritten EXCEPT ![n] = @ \union {m}] /\ faults' = faults + 1
                /\ UNCHANGED known
    BY <1>7 DEF Discovered, Fault
  <2>2. /\ Up(n)
        /\ UNCHANGED <<loop, to_send, channel, passes, active, remembered, events, links, cut>>
    BY <1>7 DEF Discovered, sendVars
  <2>3. {m} \in SUBSET Node /\ n \notin {m} /\ {} \in SUBSET Node
    OBVIOUS
  <2>4. CASE known' = [known EXCEPT ![n] = @ \union {m}] /\ UNCHANGED <<unwritten, faults>>
    <3>1. /\ unwritten' = [unwritten EXCEPT ![n] = @ \union {}] /\ faults' \in Nat
          /\ {m} \in SUBSET ({m} \union {})
      BY <1>1, <2>4 DEF TypeOK
    <3> QED BY <1>5, <2>1, <2>2, <2>3, <2>4, <3>1
  <2>5. CASE /\ unwritten' = [unwritten EXCEPT ![n] = @ \union {m}] /\ faults' = faults + 1
             /\ UNCHANGED known
    <3>1. /\ known' = [known EXCEPT ![n] = @ \union {}] /\ faults' \in Nat
          /\ {m} \in SUBSET ({} \union {m})
      BY <1>1, <2>5 DEF TypeOK
    <3> QED BY <1>5, <2>1, <2>2, <2>3, <2>5, <3>1
  <2> QED BY <2>1, <2>4, <2>5
<1> QED BY <1>3, <1>4, <1>6, <1>7

\* Two nodes become neighbours, or a dial comes to nothing.
LEMMA DialMesh ==
    ASSUME MeshInv, NEW n \in Node, Dial(n)
    PROVE  MeshInv'
<1>1. TypeOK /\ LinksArePairs /\ \A k \in Node : NodeInv(k)
  BY DEF MeshInv
<1>2. PICK m \in asked[n] :
         /\ asked' = [asked EXCEPT ![n] = @ \ {m}]
         /\ IF Up(m) /\ {n, m} \notin cut \union links
            THEN /\ links' = links \union {{n, m}}
                 /\ events' = Told("NeighborUp", Other({n, m}))
            ELSE UNCHANGED <<links, events>>
  BY DEF Dial
<1>3. UNCHANGED <<loop, to_send, channel, passes, active, known, remembered, met, unwritten, cut,
                  faults>>
  BY DEF Dial, sendVars, peerVars
<1>4. m \in Node /\ n # m /\ Up(n)
  BY <1>1, <1>2 DEF NodeInv, LeavesNothing
<1>5. /\ asked' \in [Node -> SUBSET Node]
      /\ \A k \in Node : asked'[k] \subseteq asked[k]
  BY <1>1, <1>2 DEF TypeOK
<1>6. CASE Up(m) /\ {n, m} \notin cut \union links
  <2>1. /\ links' = links \union {{n, m}}
        /\ events' = Told("NeighborUp", Other({n, m}))
    BY <1>2, <1>6
  <2>2. /\ events' \in [Node -> Seq(Event)]
        /\ \A k \in Node : k \notin {n, m} => events'[k] = events[k]
        /\ \A k \in {n, m} :
              events'[k] = IF loop[k] = "On"
                           THEN Append(events[k],
                                       [kind |-> "NeighborUp", peer |-> Other({n, m})[k]])
                           ELSE events[k]
    BY <1>1, <1>4, <2>1, ToldOf
  <2>3. Other({n, m})[n] = m /\ Other({n, m})[m] = n
    BY <1>4, OtherOf, Zenon
  <2>4. /\ Neighbours(n)' = Neighbours(n) \union {m}
        /\ Neighbours(m)' = Neighbours(m) \union {n}
        /\ \A k \in Node : k \notin {n, m} => Neighbours(k)' = Neighbours(k)
    BY <1>4, <2>1, Joining
  <2>5. TypeOK'
    <3>1. links' \subseteq Pairs
      BY <1>1, <1>4, <2>1 DEF TypeOK, Pairs
    <3> QED BY <1>1, <1>3, <1>5, <2>2, <3>1 DEF TypeOK
  <2>6. LinksArePairs'
    BY <1>1, <1>4, <2>1 DEF LinksArePairs
  <2> DEFINE UpTo(k) == [kind |-> "NeighborUp", peer |-> k]
  <2>7. ASSUME NEW k \in Node
        PROVE  UpTo(k) \in Event /\ \A S : Heeding(S, UpTo(k)) = S \union {k}
    BY DEF Event, Heeding
  <2>8. /\ loop[n] = "On" => events'[n] = Append(events[n], UpTo(m))
        /\ loop[m] = "On" => events'[m] = Append(events[m], UpTo(n))
    BY <2>2, <2>3
  <2> HIDE DEF UpTo
  <2>9. NodeInv(n)'
    BY <1>1, <1>3, <1>4, <1>5, <2>4, <2>7, <2>8, Informed
  <2>10. NodeInv(m)'
    BY <1>1, <1>3, <1>4, <1>5, <1>6, <2>4, <2>7, <2>8, Informed
  <2>11. ASSUME NEW k \in Node, k \notin {n, m} PROVE NodeInv(k)'
    BY <1>1, <1>3, <1>5, <2>2, <2>4, <2>11, Undisturbed
  <2> QED BY <2>5, <2>6, <2>9, <2>10, <2>11 DEF MeshInv
<1>7. CASE ~(Up(m) /\ {n, m} \notin cut \union links)
  <2>1. UNCHANGED <<links, events>>
    BY <1>2, <1>7
  <2>2. \A k \in Node : Neighbours(k)' = Neighbours(k)
    BY <2>1 DEF Neighbours
  <2>3. TypeOK'
    BY <1>1, <1>3, <1>5, <2>1 DEF TypeOK
  <2>4. \A k \in Node : NodeInv(k)'
    BY <1>1, <1>3, <1>5, <2>1, <2>2, Undisturbed
  <2>5. LinksArePairs'
    BY <1>1, <2>1 DEF LinksArePairs
  <2> QED BY <2>3, <2>4, <2>5 DEF MeshInv
<1> QED BY <1>6, <1>7

\* Two neighbours lose each other.
LEMMA PartMesh ==
    ASSUME MeshInv, Part
    PROVE  MeshInv'
<1>1. TypeOK /\ LinksArePairs /\ \A k \in Node : NodeInv(k)
  BY DEF MeshInv
<1>2. PICK pair \in links : /\ links' = links \ {pair}
                            /\ cut' \in {cut, cut \union {pair}}
                            /\ events' = Told("NeighborDown", Other(pair))
  BY DEF Part
<1>3. PICK n \in Node, m \in Node : n # m /\ pair = {n, m}
  BY <1>1 DEF LinksArePairs
<1>4. /\ UNCHANGED <<loop, to_send, channel, passes, active, known, remembered, met, unwritten,
                     asked>>
      /\ faults' = faults + 1
  BY DEF Part, Fault, sendVars, peerVars
<1>5. /\ events' \in [Node -> Seq(Event)]
      /\ \A k \in Node : k \notin {n, m} => events'[k] = events[k]
      /\ \A k \in {n, m} :
            events'[k] = IF loop[k] = "On"
                         THEN Append(events[k],
                                     [kind |-> "NeighborDown", peer |-> Other({n, m})[k]])
                         ELSE events[k]
  BY <1>1, <1>2, <1>3, ToldOf
<1>6. Other({n, m})[n] = m /\ Other({n, m})[m] = n
  BY <1>3, OtherOf, Zenon
<1>7. /\ Neighbours(n)' = Neighbours(n) \ {m}
      /\ Neighbours(m)' = Neighbours(m) \ {n}
      /\ \A k \in Node : k \notin {n, m} => Neighbours(k)' = Neighbours(k)
  BY <1>2, <1>3, Parting
<1>8. Up(n) /\ Up(m)
  <2>1. m \in Neighbours(n) /\ n \in Neighbours(m)
    BY <1>2, <1>3 DEF Neighbours
  <2> QED BY <1>1, <2>1 DEF NodeInv, LeavesNothing
<1>9. TypeOK'
  <2>1. links' \subseteq Pairs /\ cut' \subseteq Pairs /\ faults' \in Nat
    BY <1>1, <1>2, <1>4 DEF TypeOK
  <2> QED BY <1>1, <1>4, <1>5, <2>1 DEF TypeOK
<1>10. LinksArePairs'
  BY <1>1, <1>2 DEF LinksArePairs
<1> DEFINE DownTo(k) == [kind |-> "NeighborDown", peer |-> k]
<1>11. ASSUME NEW k \in Node
       PROVE  DownTo(k) \in Event /\ \A S : Heeding(S, DownTo(k)) = S \ {k}
  BY DEF Event, Heeding
<1>12. /\ loop[n] = "On" => events'[n] = Append(events[n], DownTo(m))
       /\ loop[m] = "On" => events'[m] = Append(events[m], DownTo(n))
  BY <1>5, <1>6
<1> HIDE DEF DownTo
<1>13. NodeInv(n)'
  BY <1>1, <1>3, <1>4, <1>7, <1>8, <1>11, <1>12, Informed
<1>14. NodeInv(m)'
  BY <1>1, <1>3, <1>4, <1>7, <1>8, <1>11, <1>12, Informed
<1>15. ASSUME NEW k \in Node, k \notin {n, m} PROVE NodeInv(k)'
  BY <1>1, <1>4, <1>5, <1>7, <1>15, Undisturbed
<1> QED BY <1>9, <1>10, <1>13, <1>14, <1>15 DEF MeshInv

\* A process dies: it is gone from the swarm, and its neighbours are told.
LEMMA CrashMesh ==
    ASSUME MeshInv, NEW n \in Node, Crash(n)
    PROVE  MeshInv'
<1> DEFINE gone == [kind |-> "NeighborDown", peer |-> n]
<1>1. TypeOK /\ LinksArePairs /\ \A k \in Node : NodeInv(k)
  BY DEF MeshInv
<1>2. /\ loop' = [loop EXCEPT ![n] = "Off"]
      /\ to_send' = [to_send EXCEPT ![n] = 0]
      /\ channel' = [channel EXCEPT ![n] = 0]
      /\ active' = [active EXCEPT ![n] = {}]
      /\ remembered' = [remembered EXCEPT ![n] = FALSE]
      /\ asked' = [asked EXCEPT ![n] = {}]
      /\ links' = {pair \in links : n \notin pair}
      /\ events' = [m \in Node |->
                      IF m = n THEN <<>>
                      ELSE IF loop[m] = "On" /\ m \in Neighbours(n)
                           THEN Append(events[m], gone)
                           ELSE events[m]]
      /\ faults' = faults + 1
      /\ UNCHANGED <<passes, known, met, unwritten, cut>>
  BY DEF Crash, Fault
<1>3. gone \in Event /\ \A S : Heeding(S, gone) = S \ {n}
  BY DEF Event, Heeding
<1> HIDE DEF gone
<1>4. /\ loop'[n] = "Off" /\ remembered'[n] = FALSE /\ active'[n] = {} /\ asked'[n] = {}
      /\ events'[n] = <<>>
      /\ \A k \in Node \ {n} :
            /\ loop'[k] = loop[k] /\ remembered'[k] = remembered[k] /\ active'[k] = active[k]
            /\ asked'[k] = asked[k]
            /\ events'[k] = IF loop[k] = "On" /\ k \in Neighbours(n)
                            THEN Append(events[k], gone) ELSE events[k]
  BY <1>1, <1>2 DEF TypeOK
<1>5. ASSUME NEW k \in Node, NEW l \in Node
      PROVE  l \in Neighbours(k)' <=> l \in Neighbours(k) /\ k # n /\ l # n
  BY <1>2 DEF Neighbours
<1>6. ASSUME NEW k \in Node PROVE Neighbours(k)' \subseteq Node /\ Neighbours(k) \subseteq Node
  BY DEF Neighbours
<1>7. Neighbours(n)' = {} /\ \A k \in Node \ {n} : Neighbours(k)' = Neighbours(k) \ {n}
  BY <1>5, <1>6
<1>8. TypeOK'
  <2>1. /\ to_send' \in [Node -> 0..Batch] /\ channel' \in [Node -> 0..Capacity]
    BY <1>1, <1>2, MeshAssumption DEF TypeOK
  <2>2. /\ loop' \in [Node -> {"Off", "On", "Ended"}] /\ active' \in [Node -> SUBSET Node]
        /\ asked' \in [Node -> SUBSET Node] /\ remembered' \in [Node -> BOOLEAN]
        /\ faults' \in Nat
    BY <1>1, <1>2 DEF TypeOK
  <2>3. events' \in [Node -> Seq(Event)]
    <3>1. ASSUME NEW k \in Node PROVE events'[k] \in Seq(Event)
      <4>1. events[k] \in Seq(Event) /\ <<>> \in Seq(Event)
        BY <1>1 DEF TypeOK
      <4>2. Append(events[k], gone) \in Seq(Event)
        BY <1>3, <4>1
      <4> QED BY <1>4, <4>1, <4>2
    <3>2. events' = [k \in Node |-> events'[k]]
      BY <1>2
    <3> QED BY <3>1, <3>2
  <2>4. links' \subseteq Pairs
    BY <1>1, <1>2 DEF TypeOK
  <2> QED BY <1>1, <1>2, <2>1, <2>2, <2>3, <2>4 DEF TypeOK
<1>9. LinksArePairs'
  BY <1>1, <1>2 DEF LinksArePairs
<1>10. NodeInv(n)'
  <2>1. /\ asked'[n] \subseteq Node \ {n} /\ OneAtATime(n)' /\ LeavesNothing(n)' /\ CatchesUp(n)'
    BY <1>4, <1>7 DEF OneAtATime, LeavesNothing, CatchesUp
  <2>2. MetIsKept(n)'
    BY <1>1, <1>2 DEF NodeInv, MetIsKept
  <2> QED BY <2>1, <2>2 DEF NodeInv
<1>11. ASSUME NEW k \in Node, k # n PROVE NodeInv(k)'
  <2>1. /\ NodeInv(k) /\ loop'[k] = loop[k] /\ remembered'[k] = remembered[k]
        /\ active'[k] = active[k] /\ asked'[k] \subseteq asked[k] /\ known'[k] = known[k]
        /\ met'[k] = met[k] /\ unwritten'[k] = unwritten[k]
    BY <1>1, <1>2, <1>4, <1>11
  <2>2. n \in Neighbours(k) <=> k \in Neighbours(n)
    <3>1. {n, k} = {k, n}
      OBVIOUS
    <3> QED BY <1>11, <3>1 DEF Neighbours
  <2>3. CASE k \in Neighbours(n)
    <3>1. Up(k)
      BY <1>1, <2>2, <2>3 DEF NodeInv, LeavesNothing
    <3>2. loop[k] = "On" => events'[k] = Append(events[k], gone)
      BY <1>4, <1>11, <2>3
    <3>3. Neighbours(k)' = Heeding(Neighbours(k), gone)
      BY <1>3, <1>7, <1>11
    <3> QED BY <1>1, <1>3, <2>1, <3>1, <3>2, <3>3, Informed
  <2>4. CASE k \notin Neighbours(n)
    <3>1. events'[k] = events[k]
      BY <1>4, <1>11, <2>4
    <3>2. Neighbours(k)' = Neighbours(k) \ {n}
      BY <1>7, <1>11
    <3>3. Neighbours(k)' = Neighbours(k)
      BY <2>2, <2>4, <3>2
    <3> QED BY <2>1, <3>1, <3>3, Undisturbed
  <2> QED BY <2>3, <2>4
<1> QED BY <1>8, <1>9, <1>10, <1>11 DEF MeshInv

LEMMA NextMesh == MeshInv /\ [Next]_vars => MeshInv'
<1> SUFFICES ASSUME MeshInv, [Next]_vars PROVE MeshInv'
  OBVIOUS
<1>1. TypeOK /\ LinksArePairs /\ \A n \in Node : NodeInv(n)
  BY DEF MeshInv
<1>2. ASSUME TypeOK', UNCHANGED <<loop, active, known, remembered, met, unwritten, events, asked,
                                  links>>
      PROVE  MeshInv'
  <2>1. \A k \in Node : Neighbours(k)' = Neighbours(k)
    BY <1>2 DEF Neighbours
  <2>2. \A k \in Node : NodeInv(k)'
    BY <1>1, <1>2, <2>1, Undisturbed
  <2>3. LinksArePairs'
    BY <1>1, <1>2 DEF LinksArePairs
  <2> QED BY <1>2, <2>2, <2>3 DEF MeshInv
<1>3. ASSUME Mend PROVE MeshInv'
  <2>1. /\ cut' \subseteq cut
        /\ UNCHANGED <<loop, to_send, channel, passes, active, known, remembered, met, unwritten,
                       events, asked, links, faults>>
    BY <1>3 DEF Mend, sendVars, peerVars
  <2>2. TypeOK'
    BY <1>1, <2>1 DEF TypeOK
  <2> QED BY <1>2, <2>1, <2>2
<1>4. CASE UNCHANGED vars
  <2>1. UNCHANGED <<loop, to_send, channel, passes, active, known, remembered, met, unwritten,
                    events, asked, links, cut, faults>>
    BY <1>4 DEF vars, sendVars, peerVars, swarmVars
  <2>2. TypeOK'
    BY <1>1, <2>1 DEF TypeOK
  <2> QED BY <1>2, <2>1, <2>2
<1> QED
  BY <1>3, <1>4, SendingMesh, EventLoopMesh, ProcessMesh, DialMesh, PartMesh, CrashMesh DEF Next

LEMMA MeshInvHolds == Spec => []MeshInv
BY InitMesh, NextMesh, PTL DEF Spec

-------------------------------------------------------------------------------
(* The theorems.                                                           *)

\* Every state of the mesh's tasks, files and channel is well typed; the command channel
\* never holds more than its capacity.
THEOREM MeshTypeCorrect == Spec => []TypeOK
<1>1. MeshInv => TypeOK
  BY DEF MeshInv
<1> QED BY <1>1, MeshInvHolds, PTL

\* An event loop that has handled all it was told lists exactly the node's neighbours, for
\* any number of nodes, crashes, partitions and peers that come back.
THEOREM CaughtUpIsRight == Spec => []ActiveAreNeighbours
<1>1. MeshInv => ActiveAreNeighbours
  <2> SUFFICES ASSUME MeshInv, NEW n \in Node, loop[n] = "On", events[n] = <<>>
               PROVE  active[n] = Neighbours(n)
    BY DEF ActiveAreNeighbours
  <2>1. Follows(<<>>, active[n], Neighbours(n))
    BY DEF MeshInv, NodeInv, CatchesUp
  <2>2. active[n] \subseteq Node
    BY DEF MeshInv, TypeOK
  <2> QED BY <2>1, <2>2, FollowsEmpty, NeighboursOf
<1> QED BY <1>1, MeshInvHolds, PTL

\* A process that starts asks the swarm for every peer it, or a process before it, ever met
\* and could write down, however the one before it ended.
THEOREM RedialsEveryPeerMet == Spec => RedialsAll
<1> DEFINE Redials == \A n \in Node : ~Up(n) /\ loop'[n] = "On" =>
                          met[n] \ (unwritten[n] \union {n}) \subseteq asked'[n]
<1>1. MeshInv /\ [Next]_vars => [Redials]_vars
  <2> SUFFICES ASSUME MeshInv, Next, NEW n \in Node, ~Up(n), loop'[n] = "On"
               PROVE  met[n] \ (unwritten[n] \union {n}) \subseteq asked'[n]
    OBVIOUS
  <2>1. loop[n] = "Off" /\ loop \in [Node -> {"Off", "On", "Ended"}]
    BY DEF MeshInv, TypeOK, Up
  <2>2. Start(n)
    BY <2>1 DEF Next, Start, Announce, Send, Broadcast, EventLoop, Remember, NeighborUp,
                NeighborDown, EventLoopEnds, Rejoin, Discovered, Dial, Crash, Part, Mend
  <2>3. asked'[n] = (Seeds[n] \union known[n]) \ {n}
    BY <2>2 DEF Start, seed_peers, MeshInv, TypeOK
  <2>4. met[n] \subseteq known[n] \union unwritten[n]
    BY DEF MeshInv, NodeInv, MetIsKept
  <2> QED BY <2>3, <2>4
<1>2. Spec => [][Next]_vars
  BY PTL DEF Spec
<1> QED BY <1>1, <1>2, MeshInvHolds, PTL DEF RedialsAll
===============================================================================
