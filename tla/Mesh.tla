--------------------------------- MODULE Mesh ---------------------------------
(***************************************************************************)
(* Membership and the event loop of src/src/network/mesh.rs, with the      *)
(* remembered peers of src/src/state.rs.  In each process run              *)
(*                                                                         *)
(*   - the training loop, which hands its records to a bounded channel;    *)
(*   - the event loop, which takes them from the channel to the swarm and  *)
(*     takes the swarm's events;                                           *)
(*   - the rejoin task, which offers every remembered peer to the swarm    *)
(*     once a minute, and the mDNS task, which offers who is on the LAN.   *)
(*                                                                         *)
(* What the records say and what a received one does is the subject of     *)
(* module Federation; here only their number counts.                       *)
(*                                                                         *)
(* The gossip layer is a library, modelled by what the code relies on: it  *)
(* dials each peer it is asked to join once, an accepted dial makes the    *)
(* two neighbours, and both are told of it, in order, and of its end.      *)
(***************************************************************************)
EXTENDS Integers, Sequences, FiniteSets

CONSTANTS
    Node,           \* the participants
    Seeds,          \* Seeds[n]: n's network.peers
    Lan,            \* the pairs of nodes that mDNS can introduce to each other
    Capacity,       \* of the command channel; 100 in the code
    Batch,          \* how many records a pass announces
    MaxPasses,      \* bound: passes the federation's loops announce
    MaxFaults       \* bound: faults of all kinds

ASSUME MeshAssumption ==
    /\ Seeds \in [Node -> SUBSET Node]
    /\ Lan \subseteq {{n, m} : n, m \in Node}
    /\ Capacity \in Nat \ {0} /\ Batch \in Nat \ {0}
    /\ MaxPasses \in Nat /\ MaxFaults \in Nat

VARIABLES
    loop,           \* the event loop: "Off" while the process is down, "On", or "Ended"
    to_send,        \* records the training loop has still to hand over
    channel,        \* records in the command channel
    active,         \* active_peers, in memory
    known,          \* on disk: the remembered peers
    events,         \* what the gossip layer has told and the event loop not yet handled
    remembered,     \* the event loop has remembered the peer of the event it handles
    asked,          \* peers the gossip layer was asked to join and has not yet dialled
    links,          \* the pairs of neighbours in the swarm
    cut,            \* the pairs that cannot reach each other
    met,            \* auxiliary: the peers the process, or one before it, has met
    unwritten,      \* auxiliary: those whose write to the disk failed
    passes,         \* bounded by MaxPasses
    faults          \* bounded by MaxFaults

sendVars  == <<to_send, channel, passes>>
peerVars  == <<active, known, remembered, met, unwritten>>
swarmVars == <<asked, links, cut>>
vars == <<loop, sendVars, peerVars, events, swarmVars, faults>>

Pairs == {{n, m} : n, m \in Node}
Event == [kind : {"NeighborUp", "NeighborDown"}, peer : Node]

TypeOK ==
    /\ loop \in [Node -> {"Off", "On", "Ended"}]
    /\ to_send \in [Node -> 0..Batch]
    /\ channel \in [Node -> 0..Capacity]
    /\ active \in [Node -> SUBSET Node]
    /\ known \in [Node -> SUBSET Node]
    /\ events \in [Node -> Seq(Event)]
    /\ remembered \in [Node -> BOOLEAN]
    /\ asked \in [Node -> SUBSET Node]
    /\ links \subseteq Pairs
    /\ cut \subseteq Pairs
    /\ met \in [Node -> SUBSET Node]
    /\ unwritten \in [Node -> SUBSET Node]
    /\ passes \in Nat
    /\ faults \in Nat

Up(n) == loop[n] # "Off"
Neighbours(n) == {m \in Node \ {n} : {n, m} \in links}

Init ==
    /\ loop = [n \in Node |-> "Off"]
    /\ to_send = [n \in Node |-> 0]
    /\ channel = [n \in Node |-> 0]
    /\ active = [n \in Node |-> {}]
    /\ known = [n \in Node |-> {}]
    /\ events = [n \in Node |-> <<>>]
    /\ remembered = [n \in Node |-> FALSE]
    /\ asked = [n \in Node |-> {}]
    /\ links = {}
    /\ cut = {}
    /\ met = [n \in Node |-> {}]
    /\ unwritten = [n \in Node |-> {}]
    /\ passes = 0
    /\ faults = 0

Fault ==
    /\ faults < MaxFaults
    /\ faults' = faults + 1

-------------------------------------------------------------------------------
(* The process and its training loop.                                      *)

\* Mutation of seed_peers: the configured peers only.
seed_peers_of_config(n) == Seeds[n]

\* The configured peers and all remembered ones.
seed_peers(n) == Seeds[n] \union known[n]

\* The swarm is joined through the seeds; nobody need be there.
Start(n) ==
    /\ ~Up(n)
    /\ loop' = [loop EXCEPT ![n] = "On"]
    /\ asked' = [asked EXCEPT ![n] = seed_peers(n) \ {n}]
    /\ UNCHANGED <<sendVars, peerVars, events, links, cut, faults>>

\* The pass has its records and takes the network's read lock.
Announce(n) ==
    /\ Up(n)
    /\ to_send[n] = 0
    /\ passes < MaxPasses
    /\ passes' = passes + 1
    /\ to_send' = [to_send EXCEPT ![n] = Batch]
    /\ UNCHANGED <<loop, channel, peerVars, events, swarmVars, faults>>

\* Mutation of Send: the channel has no bound.
SendUnbounded(n) ==
    /\ to_send[n] > 0
    /\ to_send' = [to_send EXCEPT ![n] = @ - 1]
    /\ channel' = [channel EXCEPT ![n] = @ + 1]
    /\ UNCHANGED <<loop, passes, peerVars, events, swarmVars, faults>>

\* Mutation of Send: the end of the event loop does not close the channel.
SendToNobody(n) ==
    /\ to_send[n] > 0
    /\ channel[n] < Capacity
    /\ to_send' = [to_send EXCEPT ![n] = @ - 1]
    /\ channel' = [channel EXCEPT ![n] = @ + 1]
    /\ UNCHANGED <<loop, passes, peerVars, events, swarmVars, faults>>

\* Handing over waits while the channel is full.  The event loop owns the receiver: when it
\* has ended, the send fails at once and the error is dropped, and so is the record.
Send(n) ==
    /\ to_send[n] > 0
    /\ to_send' = [to_send EXCEPT ![n] = @ - 1]
    /\ \/ /\ loop[n] = "On"
          /\ channel[n] < Capacity
          /\ channel' = [channel EXCEPT ![n] = @ + 1]
       \/ /\ loop[n] = "Ended"
          /\ UNCHANGED channel
    /\ UNCHANGED <<loop, passes, peerVars, events, swarmVars, faults>>

-------------------------------------------------------------------------------
(* The event loop.                                                         *)

Broadcast(n) ==
    /\ loop[n] = "On"
    /\ ~remembered[n]
    /\ channel[n] > 0
    /\ channel' = [channel EXCEPT ![n] = @ - 1]
    /\ UNCHANGED <<loop, to_send, passes, peerVars, events, swarmVars, faults>>

Handling(n, kind) ==
    /\ loop[n] = "On"
    /\ events[n] # <<>>
    /\ Head(events[n]).kind = kind

\* NeighborUp, first half: the peer is written to the disk.  A failure is only logged.
Remember(n) ==
    /\ Handling(n, "NeighborUp")
    /\ ~remembered[n]
    /\ remembered' = [remembered EXCEPT ![n] = TRUE]
    /\ LET m == Head(events[n]).peer IN
       \/ /\ known' = [known EXCEPT ![n] = @ \union {m}]
          /\ UNCHANGED <<unwritten, faults>>
       \/ /\ Fault
          /\ unwritten' = [unwritten EXCEPT ![n] = @ \union {m}]
          /\ UNCHANGED known
    /\ UNCHANGED <<loop, sendVars, active, met, events, swarmVars>>

\* Mutation of NeighborUp: it does not wait for the write.
NeighborUpUnwaited(n) ==
    /\ Handling(n, "NeighborUp")
    /\ LET m == Head(events[n]).peer IN
          /\ active' = [active EXCEPT ![n] = @ \union {m}]
          /\ met' = [met EXCEPT ![n] = @ \union {m}]
    /\ remembered' = [remembered EXCEPT ![n] = FALSE]
    /\ events' = [events EXCEPT ![n] = Tail(@)]
    /\ UNCHANGED <<loop, sendVars, known, unwritten, swarmVars, faults>>

\* Second half: it is active.
NeighborUp(n) ==
    /\ Handling(n, "NeighborUp")
    /\ remembered[n]
    /\ LET m == Head(events[n]).peer IN
          /\ active' = [active EXCEPT ![n] = @ \union {m}]
          /\ met' = [met EXCEPT ![n] = @ \union {m}]
    /\ remembered' = [remembered EXCEPT ![n] = FALSE]
    /\ events' = [events EXCEPT ![n] = Tail(@)]
    /\ UNCHANGED <<loop, sendVars, known, unwritten, swarmVars, faults>>

\* Mutation of NeighborDown: only a peer that was never written is taken off.
NeighborDownUnknown(n) ==
    /\ Handling(n, "NeighborDown")
    /\ active' = [active EXCEPT ![n] = @ \ ({Head(events[n]).peer} \ known[n])]
    /\ events' = [events EXCEPT ![n] = Tail(@)]
    /\ UNCHANGED <<loop, sendVars, known, remembered, met, unwritten, swarmVars, faults>>

NeighborDown(n) ==
    /\ Handling(n, "NeighborDown")
    /\ active' = [active EXCEPT ![n] = @ \ {Head(events[n]).peer}]
    /\ events' = [events EXCEPT ![n] = Tail(@)]
    /\ UNCHANGED <<loop, sendVars, known, remembered, met, unwritten, swarmVars, faults>>

\* The stream of events fails or ends, and with it the event loop and what it owns.  The
\* other tasks know nothing of it.
EventLoopEnds(n) ==
    /\ loop[n] = "On"
    /\ ~remembered[n]
    /\ Fault
    /\ loop' = [loop EXCEPT ![n] = "Ended"]
    /\ channel' = [channel EXCEPT ![n] = 0]
    /\ events' = [events EXCEPT ![n] = <<>>]
    /\ UNCHANGED <<to_send, passes, peerVars, swarmVars>>

-------------------------------------------------------------------------------
(* The tasks that look for peers.                                          *)

\* Mutation of Rejoin: the active peers are offered.
RejoinActive(n) ==
    /\ Up(n)
    /\ active[n] \ {n} # {}
    /\ asked' = [asked EXCEPT ![n] = @ \union (active[n] \ {n})]
    /\ UNCHANGED <<loop, sendVars, peerVars, events, links, cut, faults>>

Rejoin(n) ==
    /\ Up(n)
    /\ known[n] \ {n} # {}
    /\ asked' = [asked EXCEPT ![n] = @ \union (known[n] \ {n})]
    /\ UNCHANGED <<loop, sendVars, peerVars, events, links, cut, faults>>

\* mDNS discovers m on the local network; it is written to the disk, if that does not fail, and
\* then joined.
Discovered(n) ==
    /\ Up(n)
    /\ \E m \in Node \ {n} :
          /\ Up(m)
          /\ {n, m} \in Lan \ cut
          /\ met' = [met EXCEPT ![n] = @ \union {m}]
          /\ asked' = [asked EXCEPT ![n] = @ \union {m}]
          /\ \/ /\ known' = [known EXCEPT ![n] = @ \union {m}]
                /\ UNCHANGED <<unwritten, faults>>
             \/ /\ Fault
                /\ unwritten' = [unwritten EXCEPT ![n] = @ \union {m}]
                /\ UNCHANGED known
    /\ UNCHANGED <<loop, sendVars, active, remembered, events, links, cut>>

-------------------------------------------------------------------------------
(* The gossip layer and the network.                                       *)

\* Who has an event loop is told.
Told(kind, peer_of) ==
    [n \in Node |-> IF loop[n] = "On" /\ peer_of[n] # n
                    THEN Append(events[n], [kind |-> kind, peer |-> peer_of[n]])
                    ELSE events[n]]

Other(pair) ==
    [n \in Node |-> IF n \in pair THEN CHOOSE m \in pair : m # n ELSE n]

Dial(n) ==
    \E m \in asked[n] :
        /\ asked' = [asked EXCEPT ![n] = @ \ {m}]
        /\ IF Up(m) /\ {n, m} \notin cut \union links
           THEN /\ links' = links \union {{n, m}}
                /\ events' = Told("NeighborUp", Other({n, m}))
           ELSE UNCHANGED <<links, events>>
        /\ UNCHANGED <<loop, sendVars, peerVars, cut, faults>>

\* Two neighbours lose each other: for the moment, or until the network mends.
Part ==
    /\ Fault
    /\ \E pair \in links :
          /\ links' = links \ {pair}
          /\ cut' \in {cut, cut \union {pair}}
          /\ events' = Told("NeighborDown", Other(pair))
    /\ UNCHANGED <<loop, sendVars, peerVars, asked>>

Mend ==
    /\ \E pair \in cut : cut' = cut \ {pair}
    /\ UNCHANGED <<loop, sendVars, peerVars, events, asked, links, faults>>

\* The process dies.  Its neighbours are told; the disk stays.
Crash(n) ==
    /\ Up(n)
    /\ Fault
    /\ loop' = [loop EXCEPT ![n] = "Off"]
    /\ to_send' = [to_send EXCEPT ![n] = 0]
    /\ channel' = [channel EXCEPT ![n] = 0]
    /\ active' = [active EXCEPT ![n] = {}]
    /\ remembered' = [remembered EXCEPT ![n] = FALSE]
    /\ asked' = [asked EXCEPT ![n] = {}]
    /\ links' = {pair \in links : n \notin pair}
    /\ events' = [m \in Node |->
                    IF m = n THEN <<>>
                    ELSE IF loop[m] = "On" /\ m \in Neighbours(n)
                         THEN Append(events[m], [kind |-> "NeighborDown", peer |-> n])
                         ELSE events[m]]
    /\ UNCHANGED <<passes, known, met, unwritten, cut>>

-------------------------------------------------------------------------------
EventLoop(n) == Remember(n) \/ NeighborUp(n) \/ NeighborDown(n)

Next ==
    \/ \E n \in Node :
          \/ Start(n) \/ Announce(n) \/ Send(n) \/ Broadcast(n) \/ EventLoop(n)
          \/ EventLoopEnds(n) \/ Rejoin(n) \/ Discovered(n) \/ Dial(n) \/ Crash(n)
    \/ Part \/ Mend

\* The tasks are scheduled, either branch of the event loop's select is taken in the end,
\* and the gossip layer dials.  Nobody need start, be discovered or get the network mended.
Fairness ==
    \A n \in Node :
        /\ WF_vars(Send(n)) /\ WF_vars(Broadcast(n)) /\ WF_vars(EventLoop(n))
        /\ WF_vars(Rejoin(n)) /\ WF_vars(Dial(n))

Spec == Init /\ [][Next]_vars /\ Fairness

-------------------------------------------------------------------------------
(* Properties.                                                             *)

\* What GET /peers calls the live neighbours are the neighbours, once the event loop has
\* caught up: across crashes on either side, partitions and peers that come back.
ActiveAreNeighbours ==
    \A n \in Node : loop[n] = "On" /\ events[n] = <<>> => active[n] = Neighbours(n)

\* README.md:246 "every peer ever met is redialled on start": also one met just before a
\* crash, unless its write to the disk failed.
RedialsAll ==
    [][\A n \in Node : ~Up(n) /\ loop'[n] = "On" =>
            met[n] \ (unwritten[n] \union {n}) \subseteq asked'[n]]_vars

\* A pass gets rid of its records, however small the channel is and though the event loop
\* may end in the middle of it.
AnnounceEnds ==
    \A n \in Node : to_send[n] > 0 ~> to_send[n] = 0

\* mesh.rs:20 "This is what heals a split federation": two nodes of which one remembers
\* the other are neighbours again and again, if they stay up and can reach each other; no
\* seed and no third node is needed.
Heals ==
    \A n \in Node : \A m \in Node \ {n} :
        <>[](Up(n) /\ Up(m) /\ {n, m} \notin cut /\ m \in known[n])
            => []<>({n, m} \in links)
==============================================================================
