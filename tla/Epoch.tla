-------------------------------- MODULE Epoch --------------------------------
(***************************************************************************)
(* When the training loop of src/src/main.rs does what it does: the epoch  *)
(* boundary, the engine's run, the sync barrier with its polls, and the    *)
(* ranking at the deadline, on several nodes under one wall clock.  What a *)
(* pass records and broadcasts is the subject of module Federation.        *)
(*                                                                         *)
(* The clock counts half seconds, the polling interval of the barrier; the *)
(* code reads it in whole seconds (chrono's timestamp()) and sleeps whole  *)
(* seconds, so the fractions it drops are part of the model.  A step of    *)
(* the loop takes no time, and a sleep ends when it is due: Tick waits for *)
(* both.  Only the engine takes as long as it likes.                       *)
(***************************************************************************)
EXTENDS Integers, FiniteSets

CONSTANTS
    Node,           \* the participants
    Duration,       \* epoch_duration_secs
    Deadline,       \* sync_deadline_secs
    Expected,       \* expected_peers
    Horizon,        \* bound: half seconds the clock runs
    MaxCrashes      \* bound: crashes of the whole federation

ASSUME TimesAssumption ==
    /\ Duration \in Nat \ {0}
    /\ Deadline \in Nat
    /\ Expected \in Nat
    /\ Horizon \in Nat
    /\ MaxCrashes \in Nat

VARIABLES
    now,            \* the wall clock, in half seconds
    pc,             \* where the node's loop is
    wake,           \* when the sleep the node is in ends
    epoch_start,    \* the boundary of the node's current epoch, in seconds
    known,          \* the participants on the node's record (keys of peer_updates)
    shared,         \* the participants that have broadcast an update
    on_time,        \* auxiliary: the last engine run ended by its deadline
    crashes         \* bounded by MaxCrashes

vars == <<now, pc, wake, epoch_start, known, shared, on_time, crashes>>

timestamp == now \div 2

sync_target_time(n) == epoch_start[n] + Deadline

TypeOK ==
    /\ now \in Nat
    /\ pc \in [Node -> {"Down", "Clock", "Aligning", "Training", "Barrier", "Remainder"}]
    /\ wake \in [Node -> Nat]
    /\ epoch_start \in [Node -> Nat]
    /\ known \in [Node -> SUBSET Node]
    /\ shared \in SUBSET Node
    /\ on_time \in [Node -> BOOLEAN]
    /\ crashes \in Nat

Init ==
    /\ now = 0
    /\ pc = [n \in Node |-> "Down"]
    /\ wake = [n \in Node |-> 0]
    /\ epoch_start = [n \in Node |-> 0]
    /\ known = [n \in Node |-> {}]
    /\ shared = {}
    /\ on_time = [n \in Node |-> FALSE]
    /\ crashes = 0

Goto(n, place) == pc' = [pc EXCEPT ![n] = place]

-------------------------------------------------------------------------------
(* The loop.                                                               *)

Start(n) ==
    /\ pc[n] = "Down"
    /\ Goto(n, "Clock")
    /\ UNCHANGED <<now, wake, epoch_start, known, shared, on_time, crashes>>

\* Mutation of next_boundary: the wait is taken off the time.
next_boundary_before(t) == t - (Duration - (t % Duration))

\* Mutation of next_boundary: a whole epoch from now.
next_boundary_from_now(t) == t + Duration

\* A time on a boundary waits for the one after it.
next_boundary(t) == t + (Duration - (t % Duration))

Align(n) ==
    /\ pc[n] = "Clock"
    /\ epoch_start' = [epoch_start EXCEPT ![n] = next_boundary(timestamp)]
    /\ wake' = [wake EXCEPT ![n] = now + 2 * (next_boundary(timestamp) - timestamp)]
    /\ Goto(n, "Aligning")
    /\ UNCHANGED <<now, known, shared, on_time, crashes>>

BeginEpoch(n) ==
    /\ pc[n] = "Aligning"
    /\ now >= wake[n]
    /\ Goto(n, "Training")
    /\ UNCHANGED <<now, wake, epoch_start, known, shared, on_time, crashes>>

\* The engine ends; a round that succeeds is recorded and broadcast at once.
EngineEnds(n) ==
    /\ pc[n] = "Training"
    /\ \/ /\ known' = [known EXCEPT ![n] = @ \union {n}]
          /\ shared' = shared \union {n}
       \/ UNCHANGED <<known, shared>>
    /\ on_time' = [on_time EXCEPT ![n] = timestamp <= sync_target_time(n)]
    /\ wake' = [wake EXCEPT ![n] = now]
    /\ Goto(n, "Barrier")
    /\ UNCHANGED <<now, epoch_start, crashes>>

AllReported(n) == Cardinality(known[n]) >= Expected

DeadlineHit(n) == timestamp >= sync_target_time(n)

\* Mutation of Remaining: the barrier's early release ends the wait.
RemainingUnlessReported(n) ==
    IF sync_target_time(n) > timestamp /\ ~AllReported(n)
    THEN 2 * (sync_target_time(n) - timestamp) ELSE 0

\* What is left to the deadline once the barrier is released, slept in one go.
Remaining(n) ==
    IF sync_target_time(n) > timestamp THEN 2 * (sync_target_time(n) - timestamp) ELSE 0

\* Mutation of Poll: the deadline is not looked at.
PollForeverUntilReported(n) ==
    /\ pc[n] = "Barrier"
    /\ now >= wake[n]
    /\ IF AllReported(n)
       THEN /\ Goto(n, "Remainder")
            /\ wake' = [wake EXCEPT ![n] = now + Remaining(n)]
       ELSE /\ wake' = [wake EXCEPT ![n] = now + 1]
            /\ UNCHANGED pc
    /\ UNCHANGED <<now, epoch_start, known, shared, on_time, crashes>>

\* One poll of the barrier: every half second until enough participants are on record
\* or the deadline is reached.
Poll(n) ==
    /\ pc[n] = "Barrier"
    /\ now >= wake[n]
    /\ IF AllReported(n) \/ DeadlineHit(n)
       THEN /\ Goto(n, "Remainder")
            /\ wake' = [wake EXCEPT ![n] = now + Remaining(n)]
       ELSE /\ wake' = [wake EXCEPT ![n] = now + 1]
            /\ UNCHANGED pc
    /\ UNCHANGED <<now, epoch_start, known, shared, on_time, crashes>>

\* The cohort is ranked and the next pass begins.
Rank(n) ==
    /\ pc[n] = "Remainder"
    /\ now >= wake[n]
    /\ Goto(n, "Clock")
    /\ UNCHANGED <<now, wake, epoch_start, known, shared, on_time, crashes>>

-------------------------------------------------------------------------------
(* The others, the crashes and the clock.                                  *)

Up(n) == pc[n] # "Down"

\* Another participant's update arrives, in this epoch or any later one.
Report(n) ==
    /\ Up(n)
    /\ \E m \in shared \ known[n] : known' = [known EXCEPT ![n] = @ \union {m}]
    /\ UNCHANGED <<now, pc, wake, epoch_start, shared, on_time, crashes>>

Crash(n) ==
    /\ Up(n)
    /\ crashes < MaxCrashes
    /\ crashes' = crashes + 1
    /\ known' = [known EXCEPT ![n] = {}]
    /\ on_time' = [on_time EXCEPT ![n] = FALSE]
    /\ Goto(n, "Down")
    /\ UNCHANGED <<now, wake, epoch_start, shared>>

Sleeping == {"Aligning", "Barrier", "Remainder"}

Due(n) == pc[n] = "Clock" \/ (pc[n] \in Sleeping /\ now >= wake[n])

Tick ==
    /\ now < Horizon
    /\ \A n \in Node : ~Due(n)
    /\ now' = now + 1
    /\ UNCHANGED <<pc, wake, epoch_start, known, shared, on_time, crashes>>

Loop(n) == Align(n) \/ BeginEpoch(n) \/ Poll(n) \/ Rank(n)

Next ==
    \/ \E n \in Node : Loop(n) \/ EngineEnds(n) \/ Start(n) \/ Report(n) \/ Crash(n)
    \/ Tick

\* The loop's task is scheduled and time goes on; the engine need not end, and no other
\* participant need report.
Spec == Init /\ [][Next]_vars /\ WF_vars(Tick) /\ \A n \in Node : WF_vars(Loop(n))

-------------------------------------------------------------------------------
(* Properties.                                                             *)

InEpoch(n) == pc[n] \in {"Training", "Barrier", "Remainder"}

\* A pass works for the epoch whose boundary has just been reached: the boundary is a
\* multiple of the duration, and no node begins before it or in a later second.
EpochAligned ==
    \A n \in Node :
        /\ epoch_start[n] % Duration = 0
        /\ InEpoch(n) => epoch_start[n] <= timestamp
        /\ pc[n] = "Aligning" => timestamp <= epoch_start[n]

\* A node ranks its cohort neither before the deadline nor, unless its engine overran,
\* in a later second: the fractions the code drops from the clock do not add up.
RanksAtDeadline ==
    \A n \in Node : pc[n] = "Remainder" /\ now >= wake[n] =>
        /\ timestamp >= sync_target_time(n)
        /\ on_time[n] => timestamp = sync_target_time(n)

\* Two nodes whose deadlines both lie ahead are in the same epoch, whenever each was
\* started and however long its engine took before.
SameEpoch ==
    \A m, n \in Node :
        /\ InEpoch(m) /\ InEpoch(n)
        /\ timestamp < sync_target_time(m) /\ timestamp < sync_target_time(n)
        => epoch_start[m] = epoch_start[n]

\* src/src/main.rs:110 "FEDERATED TRAINING LOOP (one pass per epoch)": a pass whose engine
\* kept the deadline is followed by a pass in the next epoch.
OnePassPerEpoch ==
    [][\A n \in Node : pc[n] = "Clock" /\ pc'[n] = "Aligning" /\ on_time[n] =>
            epoch_start'[n] = epoch_start[n] + Duration]_vars

\* src/src/config.rs:38 "Once updates from this many nodes are on record, the sync barrier
\* is released early": no node that has counted that many still sleeps to the deadline.
ReleasedEarly ==
    \A n \in Node : pc[n] = "Remainder" /\ AllReported(n) => now >= wake[n]

AtBarrier(n) == pc[n] \in {"Barrier", "Remainder"}

InHorizon(n) == epoch_start[n] + Deadline + 1 < Horizon \div 2

\* The barrier ends whether or not anybody else reports.
BarrierEnds ==
    \A n \in Node : (AtBarrier(n) /\ InHorizon(n)) ~> ~AtBarrier(n)
==============================================================================
