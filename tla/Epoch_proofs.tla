------------------------------ MODULE Epoch_proofs ------------------------------
(***************************************************************************)
(* Theorems about Epoch for every set of nodes, every epoch duration, sync *)
(* deadline and number of expected participants, and a clock without end.  *)
(* The clock counts half seconds and the code whole ones, so each bound is *)
(* on the half seconds of a second: twice the second, or one more.         *)
(***************************************************************************)
EXTENDS Epoch, TLAPS

-------------------------------------------------------------------------------
(* Seconds and epoch boundaries.                                           *)

\* A half second is in the first or the second half of its second.
LEMMA HalfSeconds ==
    ASSUME NEW t \in Nat
    PROVE  t \div 2 \in Nat /\ 2 * (t \div 2) <= t /\ t <= 2 * (t \div 2) + 1
<1>1. t \div 2 \in Int
  OBVIOUS
<1>2. t \div 2 >= 0
  OBVIOUS
<1>3. 2 * (t \div 2) <= t
  OBVIOUS
<1>4. t < 2 * (t \div 2) + 2
  OBVIOUS
<1> QED BY <1>1, <1>2, <1>3, <1>4

\* The clock shows a second from its first half on.
LEMMA SecondReached ==
    ASSUME NEW t \in Nat, NEW s \in Nat
    PROVE  /\ 2 * s <= t <=> s <= t \div 2
           /\ t <= 2 * s + 1 <=> t \div 2 <= s
BY HalfSeconds

\* A multiple of the duration is no more than one epoch from where next_boundary was asked.
LEMMA NextBoundary ==
    ASSUME NEW t \in Nat
    PROVE  /\ next_boundary(t) \in Nat
           /\ next_boundary(t) % Duration = 0
           /\ t < next_boundary(t)
           /\ next_boundary(t) <= t + Duration
<1> DEFINE q == t \div Duration
           r == t % Duration
<1>1. Duration \in Nat /\ Duration > 0
  BY TimesAssumption
<1>2. q \in Int /\ q >= 0
  BY <1>1
<1>3. r \in 0..(Duration - 1)
  BY <1>1
<1>4. t % Duration = t - Duration * q
  BY <1>1
<1> HIDE DEF q, r
<1>5. next_boundary(t) = t + (Duration - r)
  BY DEF next_boundary, r
<1>6. r = t - Duration * q
  BY <1>4 DEF r
<1>7. next_boundary(t) = Duration * (q + 1)
  BY <1>1, <1>2, <1>3, <1>5, <1>6
<1>8. (Duration * (q + 1)) % Duration = 0
  BY <1>1, <1>2
<1> QED BY <1>1, <1>3, <1>5, <1>7, <1>8

\* The end of an epoch is a boundary.
LEMMA FollowingBoundary ==
    ASSUME NEW b \in Nat, b % Duration = 0
    PROVE  b + Duration \in Nat /\ (b + Duration) % Duration = 0
<1> DEFINE i == b \div Duration
<1>1. Duration \in Nat /\ Duration > 0
  BY TimesAssumption
<1>2. i \in Int /\ b = Duration * i
  BY <1>1
<1> HIDE DEF i
<1>3. b + Duration = Duration * (i + 1)
  BY <1>1, <1>2
<1>4. (Duration * (i + 1)) % Duration = 0
  BY <1>1, <1>2
<1> QED BY <1>1, <1>3, <1>4

\* Two boundaries less than an epoch apart are the same.
LEMMA SameBoundary ==
    ASSUME NEW b \in Nat, NEW c \in Nat, b % Duration = 0, c % Duration = 0,
           b < c + Duration, c < b + Duration
    PROVE  b = c
<1> DEFINE i == b \div Duration
           j == c \div Duration
<1>1. Duration \in Nat /\ Duration > 0
  BY TimesAssumption
<1>2. i \in Int /\ i >= 0 /\ j \in Int /\ j >= 0
  BY <1>1
<1>3. b = Duration * i
  BY <1>1
<1>4. c = Duration * j
  BY <1>1
<1> HIDE DEF i, j
<1>5. ASSUME NEW k \in Nat, NEW l \in Nat, Duration * k < Duration * l + Duration
      PROVE  k <= l
  BY <1>1, <1>5
<1>6. i <= j /\ j <= i
  BY <1>2, <1>3, <1>4, <1>5
<1> QED BY <1>2, <1>3, <1>4, <1>6

-------------------------------------------------------------------------------
(* The invariant: how far the clock and the sleeps can be from the         *)
(* boundary and the deadline at each place of the loop.                    *)

Boundaries(n) ==
    /\ epoch_start[n] % Duration = 0
    /\ pc[n] = "Aligning" => /\ 2 * epoch_start[n] <= wake[n]
                             /\ wake[n] <= 2 * epoch_start[n] + 1
    /\ InEpoch(n) => 2 * epoch_start[n] <= now

Waits(n) ==
    /\ pc[n] \in Sleeping => now <= wake[n]
    /\ pc[n] = "Remainder" => 2 * sync_target_time(n) <= wake[n]
    /\ AtBarrier(n) /\ on_time[n] => wake[n] <= 2 * sync_target_time(n) + 1
    /\ pc[n] = "Clock" /\ on_time[n] => /\ 2 * sync_target_time(n) <= now
                                        /\ now <= 2 * sync_target_time(n) + 1
    /\ pc[n] = "Down" => ~on_time[n]

NodeInv(n) == Boundaries(n) /\ Waits(n)

EpochInv == TypeOK /\ \A n \in Node : NodeInv(n)

\* At first all nodes are down.
LEMMA InitEpoch == Init => EpochInv
<1> SUFFICES ASSUME Init PROVE EpochInv
  OBVIOUS
<1>1. TypeOK
  BY DEF Init, TypeOK
<1>2. 0 % Duration = 0
  BY TimesAssumption
<1>3. ASSUME NEW n \in Node PROVE NodeInv(n)
  BY <1>2 DEF Init, NodeInv, Boundaries, Waits, InEpoch, AtBarrier, Sleeping
<1> QED BY <1>1, <1>3 DEF EpochInv

\* A node whose own part of the state stays is not touched by what another node does.
LEMMA Undisturbed ==
    ASSUME NEW m \in Node, NodeInv(m), now' = now, pc'[m] = pc[m], wake'[m] = wake[m],
           epoch_start'[m] = epoch_start[m], on_time'[m] = on_time[m]
    PROVE  NodeInv(m)'
BY DEF NodeInv, Boundaries, Waits, InEpoch, AtBarrier, sync_target_time

\* Every step keeps the clock and the sleeps within their bounds.
LEMMA NextEpoch == EpochInv /\ [Next]_vars => EpochInv'
<1> SUFFICES ASSUME EpochInv, [Next]_vars PROVE EpochInv'
  OBVIOUS
<1> USE DEF Goto
<1>1. /\ now \in Nat /\ Deadline \in Nat
      /\ \A n \in Node : wake[n] \in Nat /\ epoch_start[n] \in Nat /\ NodeInv(n)
  BY TimesAssumption DEF EpochInv, TypeOK
<1>2. /\ timestamp \in Nat /\ 2 * timestamp <= now /\ now <= 2 * timestamp + 1
      /\ \A n \in Node : sync_target_time(n) \in Nat
  BY <1>1, HalfSeconds DEF timestamp, sync_target_time
\* The actions of one node.
<1>3. ASSUME NEW n \in Node, now' = now, TypeOK',
             \A m \in Node \ {n} : /\ pc'[m] = pc[m] /\ wake'[m] = wake[m]
                                   /\ epoch_start'[m] = epoch_start[m]
                                   /\ on_time'[m] = on_time[m],
             NodeInv(n)'
      PROVE  EpochInv'
  BY <1>1, <1>3, Undisturbed DEF EpochInv
<1>4. ASSUME NEW n \in Node, Start(n) PROVE EpochInv'
  <2>1. TypeOK'
    BY <1>4 DEF Start, EpochInv, TypeOK
  <2>2. /\ pc[n] = "Down" /\ pc'[n] = "Clock"
        /\ \A m \in Node \ {n} : pc'[m] = pc[m]
        /\ UNCHANGED <<now, wake, epoch_start, on_time>>
    BY <1>4 DEF Start, EpochInv, TypeOK
  <2>3. NodeInv(n)'
    BY <1>1, <2>2 DEF NodeInv, Boundaries, Waits, InEpoch, AtBarrier, Sleeping
  <2> QED BY <1>3, <2>1, <2>2, <2>3
<1>5. ASSUME NEW n \in Node, Align(n) PROVE EpochInv'
  <2> DEFINE b == next_boundary(timestamp)
  <2>1. b \in Nat /\ b % Duration = 0 /\ timestamp < b
    BY <1>2, NextBoundary
  <2>2. /\ epoch_start' = [epoch_start EXCEPT ![n] = b]
        /\ wake' = [wake EXCEPT ![n] = now + 2 * (b - timestamp)]
        /\ pc' = [pc EXCEPT ![n] = "Aligning"]
        /\ UNCHANGED <<now, known, shared, on_time, crashes>>
    BY <1>5 DEF Align
  <2> HIDE DEF b
  <2>3. now + 2 * (b - timestamp) \in Nat
    BY <1>1, <1>2, <2>1
  <2>4. TypeOK'
    BY <2>1, <2>2, <2>3 DEF EpochInv, TypeOK
  <2>5. /\ pc'[n] = "Aligning" /\ epoch_start'[n] = b
        /\ wake'[n] = now + 2 * (b - timestamp)
        /\ \A m \in Node \ {n} : /\ pc'[m] = pc[m] /\ wake'[m] = wake[m]
                                 /\ epoch_start'[m] = epoch_start[m]
                                 /\ on_time'[m] = on_time[m]
    BY <2>2 DEF EpochInv, TypeOK
  <2>6. 2 * b <= wake'[n] /\ wake'[n] <= 2 * b + 1 /\ now <= wake'[n]
    BY <1>1, <1>2, <2>1, <2>5
  <2>7. NodeInv(n)'
    BY <2>1, <2>2, <2>5, <2>6 DEF NodeInv, Boundaries, Waits, InEpoch, AtBarrier, Sleeping
  <2> QED BY <1>3, <2>2, <2>4, <2>5, <2>7
<1>6. ASSUME NEW n \in Node, BeginEpoch(n) PROVE EpochInv'
  <2>1. TypeOK'
    BY <1>6 DEF BeginEpoch, EpochInv, TypeOK
  <2>2. /\ pc[n] = "Aligning" /\ pc'[n] = "Training" /\ now >= wake[n]
        /\ \A m \in Node \ {n} : pc'[m] = pc[m]
        /\ UNCHANGED <<now, wake, epoch_start, on_time>>
    BY <1>6 DEF BeginEpoch, EpochInv, TypeOK
  <2>3. NodeInv(n)'
    BY <1>1, <2>2 DEF NodeInv, Boundaries, Waits, InEpoch, AtBarrier, Sleeping
  <2> QED BY <1>3, <2>1, <2>2, <2>3
<1>7. ASSUME NEW n \in Node, EngineEnds(n) PROVE EpochInv'
  <2>1. (timestamp <= sync_target_time(n)) \in BOOLEAN
    OBVIOUS
  <2>2. known' \in [Node -> SUBSET Node] /\ shared' \in SUBSET Node
    BY <1>7 DEF EngineEnds, EpochInv, TypeOK
  <2>3. /\ on_time' = [on_time EXCEPT ![n] = timestamp <= sync_target_time(n)]
        /\ wake' = [wake EXCEPT ![n] = now]
        /\ pc' = [pc EXCEPT ![n] = "Barrier"]
        /\ pc[n] = "Training"
        /\ UNCHANGED <<now, epoch_start, crashes>>
    BY <1>7 DEF EngineEnds
  <2>4. TypeOK'
    BY <1>1, <2>1, <2>2, <2>3 DEF EpochInv, TypeOK
  <2>5. /\ pc'[n] = "Barrier" /\ wake'[n] = now
        /\ on_time'[n] = (timestamp <= sync_target_time(n))
        /\ sync_target_time(n)' = sync_target_time(n)
        /\ \A m \in Node \ {n} : /\ pc'[m] = pc[m] /\ wake'[m] = wake[m]
                                 /\ on_time'[m] = on_time[m]
    BY <2>3 DEF EpochInv, TypeOK, sync_target_time
  <2>6. on_time'[n] => wake'[n] <= 2 * sync_target_time(n) + 1
    <3>1. on_time'[n] => timestamp <= sync_target_time(n)
      BY <2>5, Zenon
    <3> QED BY <1>1, <1>2, <2>5, <3>1
  <2>7. NodeInv(n)'
    BY <1>1, <2>3, <2>5, <2>6 DEF NodeInv, Boundaries, Waits, InEpoch, AtBarrier, Sleeping
  <2> QED BY <1>3, <2>3, <2>4, <2>5, <2>7
<1>8. ASSUME NEW n \in Node, Poll(n) PROVE EpochInv'
  <2> DEFINE target == sync_target_time(n)
             released == AllReported(n) \/ DeadlineHit(n)
             until == IF released THEN now + Remaining(n) ELSE now + 1
             place == IF released THEN "Remainder" ELSE "Barrier"
  <2>1. /\ target \in Nat
        /\ pc[n] = "Barrier"
        /\ wake[n] = now
        /\ on_time[n] => now <= 2 * target + 1
        /\ 2 * epoch_start[n] <= now
    BY <1>1, <1>2, <1>8 DEF Poll, NodeInv, Boundaries, Waits, AtBarrier, InEpoch, Sleeping
  <2>2. /\ Remaining(n) \in Nat
        /\ 2 * target <= now + Remaining(n)
        /\ now + Remaining(n) <= 2 * target + 1 \/ Remaining(n) = 0
    <3>1. CASE target > timestamp
      <4>1. Remaining(n) = 2 * (target - timestamp)
        BY <3>1 DEF Remaining
      <4> QED BY <1>1, <1>2, <2>1, <3>1, <4>1
    <3>2. CASE ~(target > timestamp)
      <4>1. Remaining(n) = 0
        BY <3>2 DEF Remaining
      <4> QED BY <1>1, <1>2, <2>1, <3>2, <4>1
    <3> QED BY <3>1, <3>2
  <2>3. ~released => now + 1 <= 2 * target + 1
    BY <1>1, <1>2, <2>1 DEF DeadlineHit
  <2>4. /\ until \in Nat /\ now <= until
        /\ on_time[n] => until <= 2 * target + 1
        /\ released => 2 * target <= until
    BY <1>1, <2>1, <2>2, <2>3
  <2>5. /\ pc' = [pc EXCEPT ![n] = place]
        /\ wake' = [wake EXCEPT ![n] = until]
        /\ UNCHANGED <<now, epoch_start, known, shared, on_time, crashes>>
    <3>1. CASE released
      BY <1>8, <3>1 DEF Poll
    <3>2. CASE ~released
      <4>1. pc' = pc /\ wake' = [wake EXCEPT ![n] = now + 1]
        BY <1>8, <3>2 DEF Poll
      <4>2. pc = [pc EXCEPT ![n] = "Barrier"]
        BY <2>1 DEF EpochInv, TypeOK
      <4> QED BY <1>8, <3>2, <4>1, <4>2 DEF Poll
    <3> QED BY <3>1, <3>2
  <2>6. /\ pc'[n] = place /\ wake'[n] = until
        /\ sync_target_time(n)' = target
        /\ \A m \in Node \ {n} : pc'[m] = pc[m] /\ wake'[m] = wake[m]
    BY <2>5 DEF EpochInv, TypeOK, sync_target_time
  <2>7. place \in {"Remainder", "Barrier"} /\ (place = "Remainder" => released)
    OBVIOUS
  <2> HIDE DEF until, place, released, target
  <2>8. TypeOK'
    BY <2>4, <2>5, <2>7 DEF EpochInv, TypeOK
  <2>9. NodeInv(n)'
    BY <1>1, <2>1, <2>4, <2>5, <2>6, <2>7
       DEF NodeInv, Boundaries, Waits, InEpoch, AtBarrier, Sleeping
  <2> QED BY <1>3, <2>5, <2>6, <2>8, <2>9
<1>9. ASSUME NEW n \in Node, Rank(n) PROVE EpochInv'
  <2>1. TypeOK'
    BY <1>9 DEF Rank, EpochInv, TypeOK
  <2>2. /\ pc[n] = "Remainder" /\ pc'[n] = "Clock" /\ now >= wake[n]
        /\ \A m \in Node \ {n} : pc'[m] = pc[m]
        /\ UNCHANGED <<now, wake, epoch_start, on_time>>
    BY <1>9 DEF Rank, EpochInv, TypeOK
  <2>3. sync_target_time(n)' = sync_target_time(n)
    BY <2>2 DEF sync_target_time
  <2>4. /\ 2 * sync_target_time(n) <= now
        /\ on_time[n] => now <= 2 * sync_target_time(n) + 1
    BY <1>1, <1>2, <2>2 DEF NodeInv, Waits, AtBarrier, Sleeping
  <2>5. NodeInv(n)'
    BY <1>1, <2>2, <2>3, <2>4 DEF NodeInv, Boundaries, Waits, InEpoch, AtBarrier, Sleeping
  <2> QED BY <1>3, <2>1, <2>2, <2>5
<1>10. ASSUME NEW n \in Node, Report(n) PROVE EpochInv'
  <2>1. TypeOK'
    BY <1>10 DEF Report, EpochInv, TypeOK
  <2>2. UNCHANGED <<now, pc, wake, epoch_start, on_time>>
    BY <1>10 DEF Report
  <2>3. \A m \in Node : NodeInv(m)'
    BY <1>1, <2>2, Undisturbed
  <2> QED BY <2>1, <2>3 DEF EpochInv
<1>11. ASSUME NEW n \in Node, Crash(n) PROVE EpochInv'
  <2>1. TypeOK'
    BY <1>11 DEF Crash, EpochInv, TypeOK
  <2>2. /\ pc'[n] = "Down" /\ ~on_time'[n]
        /\ \A m \in Node \ {n} : pc'[m] = pc[m] /\ on_time'[m] = on_time[m]
        /\ UNCHANGED <<now, wake, epoch_start>>
    BY <1>11 DEF Crash, EpochInv, TypeOK
  <2>3. NodeInv(n)'
    BY <1>1, <2>2 DEF NodeInv, Boundaries, Waits, InEpoch, AtBarrier, Sleeping
  <2> QED BY <1>3, <2>1, <2>2, <2>3
\* The clock: no sleep is overslept, and no node is between a rank and its next boundary.
<1>12. ASSUME Tick PROVE EpochInv'
  <2>1. TypeOK'
    BY <1>12 DEF Tick, EpochInv, TypeOK
  <2>2. now' = now + 1 /\ UNCHANGED <<pc, wake, epoch_start, on_time>>
    BY <1>12 DEF Tick
  <2>3. ASSUME NEW n \in Node PROVE NodeInv(n)'
    <3>1. pc[n] # "Clock" /\ (pc[n] \in Sleeping => now < wake[n])
      BY <1>1, <1>12 DEF Tick, Due
    <3>2. sync_target_time(n)' = sync_target_time(n)
      BY <2>2 DEF sync_target_time
    <3>3. NodeInv(n)
      BY <1>1
    <3>4. Boundaries(n)'
      BY <1>1, <2>2, <3>3 DEF NodeInv, Boundaries, InEpoch
    <3>5. Waits(n)'
      BY <1>1, <1>2, <2>2, <3>1, <3>2, <3>3 DEF NodeInv, Waits, AtBarrier, Sleeping
    <3> QED BY <3>4, <3>5 DEF NodeInv
  <2> QED BY <2>1, <2>3 DEF EpochInv
<1>13. CASE UNCHANGED vars
  <2>1. TypeOK'
    BY <1>13 DEF vars, EpochInv, TypeOK
  <2>2. \A m \in Node : NodeInv(m)'
    BY <1>1, <1>13, Undisturbed DEF vars
  <2> QED BY <2>1, <2>2 DEF EpochInv
<1> QED
  BY <1>4, <1>5, <1>6, <1>7, <1>8, <1>9, <1>10, <1>11, <1>12, <1>13 DEF Next, Loop

LEMMA EpochInvHolds == Spec => []EpochInv
BY InitEpoch, NextEpoch, PTL DEF Spec

-------------------------------------------------------------------------------
(* The theorems.                                                           *)

\* Every state of main.rs's loops on the clock is well typed.
THEOREM EpochTypeCorrect == Spec => []TypeOK
<1>1. EpochInv => TypeOK
  BY DEF EpochInv
<1> QED BY <1>1, EpochInvHolds, PTL

\* A pass works for the epoch whose boundary has just been reached: the sleep to
\* next_boundary ends in the boundary's own second, never before it.
THEOREM EpochsAligned == Spec => []EpochAligned
<1>1. EpochInv => EpochAligned
  <2> SUFFICES ASSUME EpochInv, NEW n \in Node
               PROVE  /\ epoch_start[n] % Duration = 0
                      /\ InEpoch(n) => epoch_start[n] <= timestamp
                      /\ pc[n] = "Aligning" => timestamp <= epoch_start[n]
    BY DEF EpochAligned
  <2>1. now \in Nat /\ wake[n] \in Nat /\ epoch_start[n] \in Nat /\ NodeInv(n)
    BY DEF EpochInv, TypeOK
  <2>2. /\ 2 * epoch_start[n] <= now <=> epoch_start[n] <= timestamp
        /\ now <= 2 * epoch_start[n] + 1 <=> timestamp <= epoch_start[n]
    BY <2>1, SecondReached DEF timestamp
  <2>3. pc[n] = "Aligning" => now <= 2 * epoch_start[n] + 1
    BY <2>1 DEF NodeInv, Boundaries, Waits, Sleeping
  <2> QED BY <2>1, <2>2, <2>3 DEF NodeInv, Boundaries
<1> QED BY <1>1, EpochInvHolds, PTL

\* The cohort is ranked no earlier than the deadline and, when the engine kept it, in the
\* deadline's second, whatever the polls and the last sleep of the barrier drop.
THEOREM RanksAtTheDeadline == Spec => []RanksAtDeadline
<1>1. EpochInv => RanksAtDeadline
  <2> SUFFICES ASSUME EpochInv, NEW n \in Node, pc[n] = "Remainder", now >= wake[n]
               PROVE  /\ timestamp >= sync_target_time(n)
                      /\ on_time[n] => timestamp = sync_target_time(n)
    BY DEF RanksAtDeadline
  <2>1. /\ now \in Nat /\ wake[n] \in Nat /\ NodeInv(n)
        /\ sync_target_time(n) \in Nat /\ timestamp \in Nat
    BY HalfSeconds, TimesAssumption DEF EpochInv, TypeOK, sync_target_time, timestamp
  <2>2. /\ 2 * sync_target_time(n) <= now <=> sync_target_time(n) <= timestamp
        /\ now <= 2 * sync_target_time(n) + 1 <=> timestamp <= sync_target_time(n)
    BY <2>1, SecondReached DEF timestamp
  <2>3. /\ 2 * sync_target_time(n) <= now
        /\ on_time[n] => now <= 2 * sync_target_time(n) + 1
    BY <2>1 DEF NodeInv, Waits, AtBarrier, Sleeping
  <2> QED BY <2>1, <2>2, <2>3
<1> QED BY <1>1, EpochInvHolds, PTL

\* Nodes whose deadlines both lie ahead are in the same epoch, when the deadline is no
\* later than the end of the epoch it belongs to.
THEOREM SameEpochBeforeDeadline ==
    ASSUME Deadline <= Duration
    PROVE  Spec => []SameEpoch
<1>1. EpochInv => SameEpoch
  <2> SUFFICES ASSUME EpochInv, NEW m \in Node, NEW n \in Node, InEpoch(m), InEpoch(n),
                      timestamp < sync_target_time(m), timestamp < sync_target_time(n)
               PROVE  epoch_start[m] = epoch_start[n]
    BY DEF SameEpoch
  <2>1. /\ now \in Nat /\ timestamp \in Nat /\ Deadline \in Nat /\ Duration \in Nat
        /\ epoch_start[m] \in Nat /\ epoch_start[n] \in Nat
        /\ NodeInv(m) /\ NodeInv(n)
    BY HalfSeconds, TimesAssumption DEF EpochInv, TypeOK, timestamp
  <2>2. epoch_start[m] <= timestamp /\ epoch_start[n] <= timestamp
    BY <2>1, SecondReached DEF NodeInv, Boundaries, timestamp
  <2>3. /\ epoch_start[m] < epoch_start[n] + Duration
        /\ epoch_start[n] < epoch_start[m] + Duration
    BY <2>1, <2>2 DEF sync_target_time
  <2> QED BY <2>1, <2>3, SameBoundary DEF NodeInv, Boundaries
<1> QED BY <1>1, EpochInvHolds, PTL

\* A pass whose engine kept its deadline is followed by a pass in the very next epoch,
\* when the deadline lies inside the epoch; with a deadline at its end the loop asks for
\* the next boundary on the boundary itself, and an epoch is skipped.
THEOREM OnePassEveryEpoch ==
    ASSUME Deadline < Duration
    PROVE  Spec => OnePassPerEpoch
<1> DEFINE OnePass == \A n \in Node : pc[n] = "Clock" /\ pc'[n] = "Aligning" /\ on_time[n] =>
                          epoch_start'[n] = epoch_start[n] + Duration
<1>1. EpochInv /\ [Next]_vars => [OnePass]_vars
  <2> SUFFICES ASSUME EpochInv, Next, NEW n \in Node,
                      pc[n] = "Clock", pc'[n] = "Aligning", on_time[n]
               PROVE  epoch_start'[n] = epoch_start[n] + Duration
    OBVIOUS
  <2>1. Align(n)
    <3>1. pc \in [Node -> {"Down", "Clock", "Aligning", "Training", "Barrier", "Remainder"}]
      BY DEF EpochInv, TypeOK
    <3> QED BY <3>1 DEF Next, Loop, Align, BeginEpoch, Poll, Rank, EngineEnds, Start, Report,
                        Crash, Tick, Goto
  <2>2. /\ now \in Nat /\ timestamp \in Nat /\ Deadline \in Nat /\ Duration \in Nat
        /\ epoch_start[n] \in Nat /\ sync_target_time(n) \in Nat /\ NodeInv(n)
    BY HalfSeconds, TimesAssumption DEF EpochInv, TypeOK, timestamp, sync_target_time
  <2>3. timestamp = sync_target_time(n)
    BY <2>2, SecondReached DEF NodeInv, Waits, timestamp
  <2>4. epoch_start'[n] = next_boundary(timestamp)
    BY <2>1 DEF Align, EpochInv, TypeOK
  <2> DEFINE b == next_boundary(timestamp)
             c == epoch_start[n] + Duration
  <2>5. b \in Nat /\ b % Duration = 0 /\ timestamp < b /\ b <= timestamp + Duration
    BY <2>2, NextBoundary
  <2>6. c \in Nat /\ c % Duration = 0
    BY <2>2, FollowingBoundary DEF NodeInv, Boundaries
  <2>7. b < c + Duration /\ c < b + Duration
    BY <2>2, <2>3, <2>5 DEF sync_target_time
  <2> HIDE DEF b, c
  <2>8. b = c
    BY <2>5, <2>6, <2>7, SameBoundary
  <2> QED BY <2>4, <2>8 DEF b, c
<1>2. Spec => [][Next]_vars
  BY PTL DEF Spec
<1> QED BY <1>1, <1>2, EpochInvHolds, PTL DEF OnePassPerEpoch
===============================================================================
