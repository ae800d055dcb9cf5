------------------------------ MODULE Federation ------------------------------
(***************************************************************************)
(* The federation: every node runs the training loop of src/src/main.rs    *)
(* over its own history, and the mesh of src/src/network/mesh.rs carries   *)
(* each record to the others.  A pass of the loop is                       *)
(*                                                                         *)
(*   Clock --Stage--> Staged --Launch--> Training --EngineOutput/          *)
(*   EngineFailure--> Recording --RecordNext*, Announce--> Announced       *)
(*   --SetRound--> Barrier --Rank--> Clock, or --Exit--> Exited            *)
(*                                                                         *)
(* and Receive interleaves with all of it but Recording, when the loop     *)
(* holds the history's write lock.  When the actions of the clock and of   *)
(* the barrier happen is the subject of module Epoch.                      *)
(*                                                                         *)
(* A history lives in memory: a crash loses it.  The staged deltas, the    *)
(* round in RocksDB and the ML engine's state file are on disk and stay.   *)
(*                                                                         *)
(* The gossip layer is a library, modelled by what the code relies on: it  *)
(* brings a broadcast at most once to each process that was up when it was *)
(* sent, in any order, or never, and never back to its sender.             *)
(***************************************************************************)
EXTENDS History

CONSTANTS
    TotalEpochs,    \* rounds after which the engine reports is_finished; 0 is "never"
    MaxPasses,      \* bound: passes of the loop the federation starts
    MaxFaults       \* bound: failed rounds and crashes of the whole federation

ASSUME NodeAssumption == IsFiniteSet(Node)

ASSUME BoundsAssumption == TotalEpochs \in Nat /\ MaxPasses \in Nat /\ MaxFaults \in Nat

VARIABLES
    pc,             \* where the node's training loop is
    hist,           \* UpdateHistory.peer_updates, in memory
    args,           \* the peers on the engine's command line
    pending,        \* the records this round built: my_update, then the reviews
    written,        \* how many of them the recording loop has done
    is_final,       \* epoch_is_final
    completed,      \* completed_epochs; from the engine's answer on, current_round_num
    outbox,         \* broadcasts handed over and not yet on the wire
    wire,           \* records in flight to a node
    files,          \* on disk: whose update each staged network_deltas/<peer>_delta.b64 is
    db_round,       \* on disk: meta:round
    engine_round,   \* on disk: "round" of the engine's state.json
    made,           \* auxiliary: how many records the node has built
    ledger,         \* auxiliary: the records a node's successful rounds have produced
    passes,         \* bounded by MaxPasses
    faults          \* bounded by MaxFaults

loopVars == <<pc, args, pending, written, is_final, completed>>
diskVars == <<files, db_round, engine_round>>
meshVars == <<outbox, wire>>
auxVars  == <<made, ledger, passes, faults>>
vars == <<loopVars, hist, meshVars, diskVars, auxVars>>

Stopped == {"Down", "Exited"}
Up(n) == pc[n] \notin Stopped

TypeOK ==
    /\ pc \in [Node -> {"Clock", "Staged", "Training", "Recording", "Announced",
                        "Barrier"} \union Stopped]
    /\ hist \in [Node -> [Node -> Seq(UpdateRecord)]]
    /\ args \in [Node -> SUBSET Node]
    /\ pending \in [Node -> Seq(UpdateRecord)]
    /\ written \in [Node -> Nat]
    /\ is_final \in [Node -> BOOLEAN]
    /\ completed \in [Node -> Nat]
    /\ outbox \in [Node -> Seq(UpdateRecord)]
    /\ wire \in [Node -> SUBSET UpdateRecord]
    /\ files \in [Node -> [Node -> Hash \union {NoHash}]]
    /\ db_round \in [Node -> Nat]
    /\ engine_round \in [Node -> Nat]
    /\ made \in [Node -> Nat]
    /\ ledger \in [Node -> SUBSET UpdateRecord]
    /\ passes \in Nat
    /\ faults \in Nat

Init ==
    /\ pc = [n \in Node |-> "Clock"]
    /\ hist = [n \in Node |-> EmptyHistory]
    /\ args = [n \in Node |-> {}]
    /\ pending = [n \in Node |-> <<>>]
    /\ written = [n \in Node |-> 0]
    /\ is_final = [n \in Node |-> FALSE]
    /\ completed = [n \in Node |-> 0]
    /\ outbox = [n \in Node |-> <<>>]
    /\ wire = [n \in Node |-> {}]
    /\ files = [n \in Node |-> [m \in Node |-> NoHash]]
    /\ db_round = [n \in Node |-> 0]
    /\ engine_round = [n \in Node |-> 0]
    /\ made = [n \in Node |-> 0]
    /\ ledger = [n \in Node |-> {}]
    /\ passes = 0
    /\ faults = 0

Goto(n, place) == pc' = [pc EXCEPT ![n] = place]

-------------------------------------------------------------------------------
(* One pass of the loop.                                                   *)

\* Mutation of StagedFiles: the node stages its own update too.
StagedFilesOfAll(n) ==
    [m \in Node |-> IF UpdatePositions(hist[n][m]) # {}
                    THEN LatestUpdateHash(hist[n][m])
                    ELSE files[n][m]]

StagedFiles(n) ==
    [m \in Node |-> IF m # n /\ UpdatePositions(hist[n][m]) # {}
                    THEN LatestUpdateHash(hist[n][m])
                    ELSE files[n][m]]

\* At the epoch boundary, under the history's read lock: the latest delta of every peer
\* goes to disk.  The file of a peer without an update on record stays as it was.
Stage(n) ==
    /\ pc[n] = "Clock"
    /\ passes < MaxPasses
    /\ files' = [files EXCEPT ![n] = StagedFiles(n)]
    /\ passes' = passes + 1
    /\ Goto(n, "Staged")
    /\ UNCHANGED <<args, pending, written, is_final, completed, hist, meshVars,
                   db_round, engine_round, made, ledger, faults>>

\* Under a second read lock: the peers on record are the engine's arguments.
Launch(n) ==
    /\ pc[n] = "Staged"
    /\ args' = [args EXCEPT ![n] = Participants(hist[n]) \ {n}]
    /\ Goto(n, "Training")
    /\ UNCHANGED <<pending, written, is_final, completed, hist, meshVars, diskVars, auxVars>>

\* Mutation of Reviewable: a peer without an update on record is not skipped.
ReviewableUnskipped(n) == args[n] \union {n}

\* The peers a review can be written for: the engine weighs its arguments and the node
\* itself, and the loop skips those without an update on record.
Reviewable(n) ==
    {m \in args[n] \union {n} : UpdatePositions(hist[n][m]) # {}}

\* The hash map of weights is iterated in any order.
Orders(S) ==
    {o \in [1..Cardinality(S) -> S] : \A i, j \in DOMAIN o : o[i] = o[j] => i = j}

\* Mutation of Reviews: the tail does not move, all chain to the update.
ReviewsUnchained(n, order, score) ==
    [i \in DOMAIN order |->
        ReviewOf(n, <<n, made[n] + 1>>, made[n] + 1 + i, order[i],
                 LatestUpdateHash(hist[n][order[i]]), score[order[i]])]

\* Each review is chained to the one before it, the first to the round's own update.
Reviews(n, order, score) ==
    [i \in DOMAIN order |->
        ReviewOf(n, <<n, made[n] + i>>, made[n] + 1 + i, order[i],
                 LatestUpdateHash(hist[n][order[i]]), score[order[i]])]

Finish(n, round) == TotalEpochs > 0 /\ round >= TotalEpochs

\* The engine exits well: its round is in state.json, and the update and the reviews are
\* built from what the history holds now, not from what was staged.
EngineOutput(n) ==
    /\ pc[n] = "Training"
    /\ engine_round' = [engine_round EXCEPT ![n] = @ + 1]
    /\ is_final' = [is_final EXCEPT ![n] = Finish(n, engine_round[n] + 1)]
    /\ completed' = [completed EXCEPT ![n] = engine_round[n] + 1]
    /\ \E order \in Orders(Reviewable(n)), score \in [Reviewable(n) -> Weight] :
          LET update == UpdateOf(n, TailHash(hist[n][n]), made[n] + 1)
              built  == <<update>> \o Reviews(n, order, score)
          IN  /\ pending' = [pending EXCEPT ![n] = built]
              /\ made' = [made EXCEPT ![n] = @ + Len(built)]
              /\ ledger' = [ledger EXCEPT ![n] = @ \union RecordsIn(built)]
    /\ written' = [written EXCEPT ![n] = 0]
    /\ Goto(n, "Recording")
    /\ UNCHANGED <<args, hist, meshVars, files, db_round, passes, faults>>

\* The round that a failing engine leaves in state.json: it has counted its own if it wrote the
\* file, and it has lost the count if it was writing it (see EngineContract).
RoundLeft(n) == {engine_round[n], engine_round[n] + 1, 0}

\* The engine fails, or prints nothing that parses: the round number goes up all the same.
EngineFailure(n) ==
    /\ pc[n] = "Training"
    /\ faults < MaxFaults
    /\ faults' = faults + 1
    /\ \E left \in RoundLeft(n) : engine_round' = [engine_round EXCEPT ![n] = left]
    /\ is_final' = [is_final EXCEPT ![n] = FALSE]
    /\ completed' = [completed EXCEPT ![n] = @ + 1]
    /\ pending' = [pending EXCEPT ![n] = <<FailedUpdate(n, TailHash(hist[n][n]))>>]
    /\ written' = [written EXCEPT ![n] = 0]
    /\ Goto(n, "Recording")
    /\ UNCHANGED <<args, hist, meshVars, files, db_round, made, ledger, passes>>

\* Mutation of RecordNext: the batch goes to the mesh while the loop still records it.
RecordNextSharing(n) ==
    /\ pc[n] = "Recording"
    /\ written[n] < Len(pending[n])
    /\ hist' = [hist EXCEPT ![n] = record_update(@, pending[n][written[n] + 1])]
    /\ written' = [written EXCEPT ![n] = @ + 1]
    /\ outbox' = [outbox EXCEPT ![n] = @ \o pending[n]]
    /\ UNCHANGED <<pc, args, pending, is_final, completed, wire, diskVars, auxVars>>

\* One record_update of the loop that holds the write lock.
RecordNext(n) ==
    /\ pc[n] = "Recording"
    /\ written[n] < Len(pending[n])
    /\ hist' = [hist EXCEPT ![n] = record_update(@, pending[n][written[n] + 1])]
    /\ written' = [written EXCEPT ![n] = @ + 1]
    /\ UNCHANGED <<pc, args, pending, is_final, completed, meshVars, diskVars, auxVars>>

\* The lock is released and the records go to the mesh, a failed round's update too.
Announce(n) ==
    /\ pc[n] = "Recording"
    /\ written[n] = Len(pending[n])
    /\ outbox' = [outbox EXCEPT ![n] = @ \o pending[n]]
    /\ pending' = [pending EXCEPT ![n] = <<>>]
    /\ written' = [written EXCEPT ![n] = 0]
    /\ Goto(n, "Announced")
    /\ UNCHANGED <<args, is_final, completed, hist, wire, diskVars, auxVars>>

SetRound(n) ==
    /\ pc[n] = "Announced"
    /\ db_round' = [db_round EXCEPT ![n] = completed[n]]
    /\ Goto(n, "Barrier")
    /\ UNCHANGED <<args, pending, written, is_final, completed, hist, meshVars,
                   files, engine_round, auxVars>>

\* The process is gone, and with it all it kept in memory.
LoseMemory(n) ==
    /\ hist' = [hist EXCEPT ![n] = EmptyHistory]
    /\ args' = [args EXCEPT ![n] = {}]
    /\ pending' = [pending EXCEPT ![n] = <<>>]
    /\ written' = [written EXCEPT ![n] = 0]
    /\ is_final' = [is_final EXCEPT ![n] = FALSE]
    /\ completed' = [completed EXCEPT ![n] = 0]
    /\ outbox' = [outbox EXCEPT ![n] = <<>>]
    /\ wire' = [wire EXCEPT ![n] = {}]

\* Mutation of Rank: a barrier that has no deadline and waits for every participant.
RankWhenAllReported(n) ==
    /\ pc[n] = "Barrier"
    /\ ~is_final[n]
    /\ Participants(hist[n]) = Node
    /\ Goto(n, "Clock")
    /\ UNCHANGED <<args, pending, written, is_final, completed, hist, meshVars,
                   diskVars, auxVars>>

\* The deadline has passed: the cohort is ranked (module Trust) and only logged.
Rank(n) ==
    /\ pc[n] = "Barrier"
    /\ ~is_final[n]
    /\ Goto(n, "Clock")
    /\ UNCHANGED <<args, pending, written, is_final, completed, hist, meshVars,
                   diskVars, auxVars>>

\* After the last round the process ends, whatever is still queued for the mesh.
Exit(n) ==
    /\ pc[n] = "Barrier"
    /\ is_final[n]
    /\ LoseMemory(n)
    /\ Goto(n, "Exited")
    /\ UNCHANGED <<diskVars, auxVars>>

-------------------------------------------------------------------------------
(* The mesh.                                                               *)

\* Mutation of Broadcast: the sender hears its own records.
BroadcastToAll(n) ==
    /\ Up(n)
    /\ outbox[n] # <<>>
    /\ wire' = [m \in Node |-> IF Up(m) THEN wire[m] \union {Head(outbox[n])} ELSE wire[m]]
    /\ outbox' = [outbox EXCEPT ![n] = Tail(@)]
    /\ UNCHANGED <<loopVars, hist, diskVars, auxVars>>

\* The event loop takes a queued record and broadcasts it to the swarm.
Broadcast(n) ==
    /\ Up(n)
    /\ outbox[n] # <<>>
    /\ wire' = [m \in Node |-> IF m # n /\ Up(m) THEN wire[m] \union {Head(outbox[n])}
                                                 ELSE wire[m]]
    /\ outbox' = [outbox EXCEPT ![n] = Tail(@)]
    /\ UNCHANGED <<loopVars, hist, diskVars, auxVars>>

\* A record arrives and is recorded under the write lock.
Receive(n) ==
    /\ Up(n)
    /\ pc[n] # "Recording"
    /\ \E r \in wire[n] :
          /\ hist' = [hist EXCEPT ![n] = record_update(@, r)]
          /\ wire' = [wire EXCEPT ![n] = @ \ {r}]
    /\ UNCHANGED <<loopVars, outbox, diskVars, auxVars>>

-------------------------------------------------------------------------------
(* Crashes.                                                                *)

\* The process dies.  A running engine is a child process that may still reach the end of
\* its round and write state.json.
Crash(n) ==
    /\ Up(n)
    /\ faults < MaxFaults
    /\ faults' = faults + 1
    /\ LoseMemory(n)
    /\ \E left \in RoundLeft(n) :
          /\ left = engine_round[n] \/ pc[n] = "Training"
          /\ engine_round' = [engine_round EXCEPT ![n] = left]
    /\ Goto(n, "Down")
    /\ UNCHANGED <<files, db_round, made, ledger, passes>>

\* main: the identity is loaded from disk and the loop starts with completed_epochs = 0.
Restart(n) ==
    /\ pc[n] = "Down"
    /\ Goto(n, "Clock")
    /\ UNCHANGED <<args, pending, written, is_final, completed, hist, meshVars,
                   diskVars, auxVars>>

-------------------------------------------------------------------------------
Loop(n) ==
    \/ Stage(n) \/ Launch(n) \/ EngineOutput(n) \/ EngineFailure(n)
    \/ RecordNext(n) \/ Announce(n) \/ SetRound(n) \/ Rank(n) \/ Exit(n)

Mesh(n) == Broadcast(n) \/ Receive(n)

Next == \E n \in Node : Loop(n) \/ Mesh(n) \/ Crash(n) \/ Restart(n)

Spec == Init /\ [][Next]_vars

-------------------------------------------------------------------------------
(* Safety.                                                                 *)

\* Every log holds only what its author's successful rounds produced: the update of a
\* failed round is recorded nowhere, though it is handed to record_update and broadcast.
OnlyGenuine ==
    \A n, a \in Node : RecordsIn(hist[n][a]) \subseteq ledger[a]

\* record_update does not look whether a record is there already, and still no log holds
\* one twice: one recording at home, one delivery to each process.
NoRepeats ==
    \A n, a \in Node : \A i, j \in DOMAIN hist[n][a] :
        hist[n][a][i] = hist[n][a][j] => i = j

\* A node's own log is a hash chain from the zero hash, across failed rounds and in every
\* order the reviews are built in.
OwnLogIsChain ==
    \A n \in Node : \A i \in DOMAIN hist[n][n] :
        hist[n][n][i].prev_hash = IF i = 1 THEN Genesis ELSE hist[n][n][i - 1].hash

\* A review names a model update its target really produced.
ReviewsAnchored ==
    \A n \in Node : \A r \in ledger[n] :
        IsReview(r) => \E u \in ledger[r.kind.target_node] :
                          IsUpdate(u) /\ u.hash = r.kind.update_hash

\* A staged file holds the delta of a model update of the peer it is named after, never
\* the node's own and never a failed round's empty delta.
StagedGenuine ==
    \A n, m \in Node : files[n][m] # NoHash =>
        m # n /\ \E u \in ledger[m] : IsUpdate(u) /\ u.hash = files[n][m]

\* What the author has still to record is on no wire and on no peer's log: the loop
\* records a round's work locally before it shares any of it.
LocalFirst ==
    \A a, n \in Node : n # a =>
        \A i \in DOMAIN pending[a] : i > written[a] /\ Intact(pending[a][i]) =>
            pending[a][i] \notin wire[n] \union RecordsIn(hist[n][a])

\* src/src/main.rs:275 "Record one peer review per evaluated peer": the update a review
\* of another node names would be the one whose delta was staged for this round's engine.
ReviewsNameEvaluatedUpdates ==
    \A n \in Node : \A i \in DOMAIN pending[n] :
        LET k == pending[n][i].kind IN
        IsReview(pending[n][i]) /\ k.target_node \in args[n] =>
            files[n][k.target_node] \in {k.update_hash, NoHash}

\* src/src/state.rs:63 "how many federated epochs this node has completed": a count of
\* what is done does not go back.  A failed round counts on from the loop's own count, and a
\* successful one sets it to the engine's round (main.rs:244, 258).
RoundNeverGoesBack == [][\A n \in Node : db_round'[n] >= db_round[n]]_db_round

\* The records, seen from outside: see RecordStore.
Store == INSTANCE RecordStore WITH produced <- ledger, held <- hist

ImplementsStore == Store!Spec

-------------------------------------------------------------------------------
(* Liveness.                                                               *)

\* The loop's task is scheduled, and the engine ends one way or the other.
FairLoop == \A n \in Node : WF_vars(Loop(n))

\* The event loop is polled, and the swarm delivers.
FairMesh == \A n \in Node : WF_vars(Broadcast(n)) /\ WF_vars(Receive(n))

LoopSpec == Spec /\ FairLoop

\* A pass, once begun, comes to its end whatever the peers and the mesh do: no node waits
\* on another.
PassEnds ==
    \A n \in Node : pc[n] = "Staged" ~> pc[n] \in {"Clock"} \union Stopped

AllShared == \A n, a \in Node : RecordsIn(hist[n][a]) = ledger[a]

\* When no process stops and the swarm delivers, all nodes end up with all that was ever
\* produced, though records overtake each other and nobody asks for a missing one.
Convergence ==
    FairMesh /\ [](\A n \in Node : Up(n)) => <>[]AllShared
==============================================================================
