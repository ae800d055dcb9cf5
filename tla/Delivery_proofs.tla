---------------------------- MODULE Delivery_proofs ----------------------------
(***************************************************************************)
(* Where the records of Federation are: each intact record, built once, is *)
(* handed on from its author's batch to the author's outbox, from there to *)
(* the wires of the processes that are up, and from a wire to a log, and   *)
(* is never in two of these places on the same way.  From it follow that   *)
(* no log repeats a record, that a node's peers do not see what the node   *)
(* has still to record, that the federation implements RecordStore, that   *)
(* nothing goes missing while nobody stops, and that nodes with the same   *)
(* records rank the participants alike, the most trusted first.            *)
(***************************************************************************)
EXTENDS Cohort, Federation_proofs, FiniteLemmas

\* A log or queue holds no intact record twice.
Distinct(log) ==
    \A i, j \in DOMAIN log : Intact(log[i]) /\ log[i] = log[j] => i = j

\* A node numbers the records it builds.
Counted ==
    \A a \in Node : \A r \in ledger[a] : r.node_id = a /\ r.content <= made[a]

OnceAtHome(a) ==
    /\ Distinct(outbox[a])
    /\ Distinct(pending[a])
    /\ \A r \in RecordsIn(pending[a]) \intersect RecordsIn(outbox[a]) : ~Intact(r)
    /\ \A i \in DOMAIN pending[a] :
          i > written[a] /\ Intact(pending[a][i])
              => pending[a][i] \notin RecordsIn(hist[a][a])

Unshared(a) == RecordsIn(pending[a]) \union RecordsIn(outbox[a])

OnceAbroad(n, a) ==
    /\ Distinct(hist[n][a])
    /\ \A r \in RecordsIn(hist[n][a]) : r \notin wire[n]
    /\ n # a => \A r \in Unshared(a) :
                   Intact(r) => r \notin wire[n] /\ r \notin RecordsIn(hist[n][a])

DeliveryInv ==
    /\ Counted
    /\ \A a \in Node : OnceAtHome(a) /\ \A n \in Node : OnceAbroad(n, a)

-------------------------------------------------------------------------------
(* Logs and queues without repeats.                                        *)

\* A new record may be appended.
LEMMA DistinctAppend ==
    ASSUME NEW log \in Seq(UpdateRecord), NEW r \in UpdateRecord,
           Distinct(log), r \notin RecordsIn(log)
    PROVE  Distinct(Append(log, r))
<1> DEFINE longer == Append(log, r)
<1>1. /\ Len(log) \in Nat /\ DOMAIN log = 1..Len(log)
      /\ DOMAIN longer = 1..(Len(log) + 1)
      /\ \A i \in 1..Len(log) : longer[i] = log[i]
      /\ longer[Len(log) + 1] = r
  BY LenProperties, AppendProperties
<1> HIDE DEF longer
<1>2. \A i \in 1..Len(log) : log[i] # r
  BY <1>1 DEF RecordsIn
<1>3. \A i \in 1..(Len(log) + 1) : i \in 1..Len(log) \/ i = Len(log) + 1
  BY <1>1
<1>4. ASSUME NEW i \in DOMAIN longer, NEW j \in DOMAIN longer,
             Intact(longer[i]), longer[i] = longer[j]
      PROVE  i = j
  BY <1>1, <1>2, <1>3, <1>4 DEF Distinct
<1> QED BY <1>4 DEF Distinct, longer

\* Two that share no intact record may be joined.
LEMMA DistinctConcat ==
    ASSUME NEW s \in Seq(UpdateRecord), NEW t \in Seq(UpdateRecord),
           Distinct(s), Distinct(t),
           \A r \in RecordsIn(t) \intersect RecordsIn(s) : ~Intact(r)
    PROVE  Distinct(s \o t)
<1> DEFINE joined == s \o t
<1>1. /\ Len(s) \in Nat /\ DOMAIN s = 1..Len(s)
      /\ Len(t) \in Nat /\ DOMAIN t = 1..Len(t)
  BY LenProperties
<1>2. /\ DOMAIN joined = 1..(Len(s) + Len(t))
      /\ \A i \in 1..(Len(s) + Len(t)) :
            joined[i] = IF i <= Len(s) THEN s[i] ELSE t[i - Len(s)]
  BY <1>1, LenProperties, ConcatProperties
<1> HIDE DEF joined
<1>3. ASSUME NEW i \in DOMAIN joined, NEW j \in DOMAIN joined,
             Intact(joined[i]), joined[i] = joined[j]
      PROVE  i = j
  <2>1. CASE i <= Len(s) /\ j <= Len(s)
    BY <1>1, <1>2, <1>3, <2>1 DEF Distinct
  <2>2. CASE i > Len(s) /\ j > Len(s)
    <3>1. i - Len(s) \in DOMAIN t /\ j - Len(s) \in DOMAIN t
      BY <1>1, <1>2, <2>2
    <3>2. joined[i] = t[i - Len(s)] /\ joined[j] = t[j - Len(s)]
      BY <1>1, <1>2, <2>2
    <3>3. i - Len(s) = j - Len(s)
      BY <1>3, <3>1, <3>2 DEF Distinct
    <3> QED BY <1>1, <1>2, <3>3
  <2>3. ASSUME NEW k \in DOMAIN joined, NEW l \in DOMAIN joined, k <= Len(s), l > Len(s),
               Intact(joined[k])
        PROVE  joined[k] # joined[l]
    <3>1. joined[k] \in RecordsIn(s)
      BY <1>1, <1>2, <2>3 DEF RecordsIn
    <3>2. l - Len(s) \in DOMAIN t /\ joined[l] = t[l - Len(s)]
      BY <1>1, <1>2, <2>3
    <3>3. joined[l] \in RecordsIn(t)
      BY <3>2 DEF RecordsIn
    <3> QED BY <2>3, <3>1, <3>3
  <2> QED BY <1>1, <1>2, <1>3, <2>1, <2>2, <2>3
<1> QED BY <1>3 DEF Distinct, joined

\* What is taken off is not in the rest.
LEMMA DistinctTail ==
    ASSUME NEW s \in Seq(UpdateRecord), s # <<>>, Distinct(s)
    PROVE  Distinct(Tail(s)) /\ (Intact(Head(s)) => Head(s) \notin RecordsIn(Tail(s)))
<1>1. /\ Len(s) \in Nat \ {0} /\ DOMAIN s = 1..Len(s) /\ Head(s) = s[1]
      /\ DOMAIN Tail(s) = 1..(Len(s) - 1)
      /\ \A i \in 1..(Len(s) - 1) : Tail(s)[i] = s[i + 1]
  BY LenProperties, EmptySeq, HeadTailProperties
<1>2. Distinct(Tail(s))
  <2> SUFFICES ASSUME NEW i \in DOMAIN Tail(s), NEW j \in DOMAIN Tail(s),
                      Intact(Tail(s)[i]), Tail(s)[i] = Tail(s)[j]
               PROVE  i = j
    BY DEF Distinct
  <2>1. i + 1 \in DOMAIN s /\ j + 1 \in DOMAIN s
    BY <1>1
  <2>2. i + 1 = j + 1
    BY <1>1, <2>1 DEF Distinct
  <2> QED BY <1>1, <2>2
<1>3. ASSUME Intact(Head(s)), NEW i \in DOMAIN Tail(s) PROVE Tail(s)[i] # Head(s)
  <2>1. i + 1 \in DOMAIN s /\ 1 \in DOMAIN s /\ i + 1 # 1
    BY <1>1
  <2> QED BY <1>1, <1>3, <2>1 DEF Distinct
<1> QED BY <1>2, <1>3 DEF RecordsIn

\* The empty one has none.
LEMMA DistinctEmpty == Distinct(<<>>)
BY DEF Distinct

-------------------------------------------------------------------------------
(* What a round builds is new.                                             *)

\* The records of a successful round carry the next numbers of their author.
LEMMA BuiltNumbered ==
    ASSUME TypeInv, NEW n \in Node,
           NEW order \in Orders(Reviewable(n)), NEW score \in [Reviewable(n) -> Weight]
    PROVE  LET built == <<UpdateOf(n, TailHash(hist[n][n]), made[n] + 1)>>
                           \o Reviews(n, order, score)
           IN  \A i \in DOMAIN built :
                  /\ built[i].content = made[n] + i
                  /\ i \in 1..Len(built)
<1> DEFINE first   == <<UpdateOf(n, TailHash(hist[n][n]), made[n] + 1)>>
           reviews == Reviews(n, order, score)
           built   == first \o reviews
<1>1. PICK k \in Nat : order \in [1..k -> Reviewable(n)]
  BY OrderType DEF TypeInv
<1>2. made[n] \in Nat
  BY DEF TypeInv, TypeOK
<1>3. /\ first \in Seq(UpdateRecord) /\ Len(first) = 1
      /\ first[1].content = made[n] + 1
  <2>1. UpdateOf(n, TailHash(hist[n][n]), made[n] + 1) \in UpdateRecord
    BY <1>2, OwnTailType, UpdateOfType
  <2> QED BY <2>1 DEF UpdateOf
<1>4. /\ reviews \in Seq(UpdateRecord) /\ Len(reviews) = k
      /\ \A i \in 1..k : reviews[i].content = made[n] + 1 + i
  <2>1. reviews \in Seq(UpdateRecord) /\ DOMAIN reviews = 1..k
    BY <1>1, ReviewsType DEF Reviews
  <2>2. Len(reviews) = k
    BY <1>1, <2>1, LenProperties
  <2> QED BY <1>1, <2>1, <2>2 DEF Reviews, ReviewOf
<1> HIDE DEF first, reviews
<1>5. built \in Seq(UpdateRecord)
  BY <1>3, <1>4, ConcatProperties
<1>6. /\ Len(built) = 1 + k /\ DOMAIN built = 1..(1 + k)
      /\ built[1] = first[1]
      /\ \A i \in 2..(1 + k) : built[i] = reviews[i - 1]
  <2>1. first \in Seq(UpdateRecord) /\ reviews \in Seq(UpdateRecord)
    BY <1>3, <1>4
  <2>2. /\ Len(built) = Len(first) + Len(reviews)
        /\ \A i \in 1..(Len(first) + Len(reviews)) :
              built[i] = IF i <= Len(first) THEN first[i] ELSE reviews[i - Len(first)]
    BY <2>1, ConcatProperties
  <2>3. DOMAIN built = 1..Len(built)
    BY <1>5, LenProperties
  <2> QED BY <1>1, <1>3, <1>4, <2>2, <2>3
<1> HIDE DEF built
<1>7. ASSUME NEW i \in 1..(1 + k) PROVE built[i].content = made[n] + i
  <2>1. CASE i = 1
    BY <1>3, <1>6, <2>1
  <2>2. CASE i # 1
    <3>1. i - 1 \in 1..k /\ built[i] = reviews[i - 1]
      BY <1>1, <1>6, <2>2
    <3>2. built[i].content = made[n] + 1 + (i - 1)
      BY <1>4, <3>1
    <3> QED BY <1>1, <1>2, <3>2
  <2> QED BY <2>1, <2>2
<1>8. \A i \in DOMAIN built : built[i].content = made[n] + i /\ i \in 1..Len(built)
  BY <1>6, <1>7
<1> QED BY <1>8 DEF built, first, reviews

\* An intact record that is in no ledger is on no wire, in no outbox and on no log.
LEMMA NewIsNowhere ==
    ASSUME GenuineInv, NEW a \in Node, NEW r, Intact(r), r.node_id = a, r \notin ledger[a],
           NEW n \in Node
    PROVE  /\ r \notin RecordsIn(outbox[n])
           /\ r \notin wire[n]
           /\ r \notin RecordsIn(hist[n][a])
BY DEF GenuineInv, OnlyGenuine, Genuine, InFlight

\* At first nothing is recorded and nothing is under way.
LEMMA InitDelivery == Init => DeliveryInv
BY RecordsInEmpty, DistinctEmpty
   DEF Init, EmptyHistory, DeliveryInv, Counted, OnceAtHome, OnceAbroad, Unshared

\* A node that forgets leaves fewer records to be delivered.
LEMMA ForgettingDelivery ==
    ASSUME TypeInv, DeliveryInv, NEW n \in Node, LoseMemory(n), UNCHANGED <<ledger, made>>
    PROVE  DeliveryInv'
<1>1. Counted'
  BY DEF DeliveryInv, Counted
<1>2. ASSUME NEW a \in Node
      PROVE  \/ a = n /\ hist'[a] = EmptyHistory /\ pending'[a] = <<>> /\ outbox'[a] = <<>>
                      /\ wire'[a] = {}
             \/ a # n /\ hist'[a] = hist[a] /\ pending'[a] = pending[a]
                      /\ outbox'[a] = outbox[a] /\ wire'[a] = wire[a]
                      /\ written'[a] = written[a]
  BY DEF LoseMemory, TypeInv, TypeOK
<1>3. ASSUME NEW a \in Node PROVE OnceAtHome(a)'
  BY <1>2, RecordsInEmpty, DistinctEmpty DEF DeliveryInv, OnceAtHome
<1>4. ASSUME NEW a \in Node PROVE Unshared(a)' \subseteq Unshared(a)
  BY <1>2, RecordsInEmpty DEF Unshared
<1>5. ASSUME NEW m \in Node, NEW a \in Node PROVE OnceAbroad(m, a)'
  <2>1. \/ hist'[m][a] = hist[m][a] /\ wire'[m] = wire[m]
        \/ hist'[m][a] = <<>> /\ wire'[m] = {}
    BY <1>2 DEF EmptyHistory
  <2>2. OnceAbroad(m, a)
    BY DEF DeliveryInv
  <2> QED BY <1>4, <2>1, <2>2, RecordsInEmpty, DistinctEmpty DEF OnceAbroad
<1> QED BY <1>1, <1>3, <1>5 DEF DeliveryInv

\* A pass that has built records of a node, new ones or one that is not intact.
LEMMA BuildingDelivery ==
    ASSUME TypeInv, GenuineInv, DeliveryInv, NEW n \in Node, NEW built \in Seq(UpdateRecord),
           pending' = [pending EXCEPT ![n] = built], UNCHANGED <<hist, outbox, wire>>,
           Counted', Distinct(built),
           \A r \in RecordsIn(built) : Intact(r) => r.node_id = n /\ r \notin ledger[n],
           \A m \in Node \ {n} : written'[m] = written[m]
    PROVE  DeliveryInv'
<1>1. ASSUME NEW r \in RecordsIn(built), Intact(r), NEW m \in Node
      PROVE  /\ r \notin RecordsIn(outbox[m])
             /\ r \notin wire[m]
             /\ r \notin RecordsIn(hist[m][n])
  BY <1>1, NewIsNowhere
<1>2. ASSUME NEW a \in Node PROVE OnceAtHome(a)' /\ \A m \in Node : OnceAbroad(m, a)'
  <2>1. OnceAtHome(a) /\ \A m \in Node : OnceAbroad(m, a)
    BY DEF DeliveryInv
  <2>2. CASE a = n
    <3>1. pending'[a] = built
      BY <2>2 DEF TypeInv, TypeOK
    <3>2. \A i \in DOMAIN built : built[i] \in RecordsIn(built)
      BY DEF RecordsIn
    <3>3. OnceAtHome(a)'
      BY <1>1, <2>1, <2>2, <3>1, <3>2 DEF OnceAtHome
    <3>4. ASSUME NEW m \in Node PROVE OnceAbroad(m, a)'
      BY <1>1, <2>1, <2>2, <3>1 DEF OnceAbroad, Unshared
    <3> QED BY <3>3, <3>4
  <2>3. CASE a # n
    <3>1. pending'[a] = pending[a] /\ written'[a] = written[a]
      BY <2>3 DEF TypeInv, TypeOK
    <3> QED BY <2>1, <3>1 DEF OnceAtHome, OnceAbroad, Unshared
  <2> QED BY <2>2, <2>3
<1> QED BY <1>2 DEF DeliveryInv

\* An author's broadcast leaves its outbox for the wires.
LEMMA BroadcastDelivery ==
    ASSUME TypeInv, GenuineInv, ChainInv, DeliveryInv, NEW n \in Node, Broadcast(n)
    PROVE  DeliveryInv'
<1> DEFINE r == Head(outbox[n])
<1>1. /\ outbox[n] \in Seq(UpdateRecord) /\ outbox[n] # <<>>
      /\ outbox' = [outbox EXCEPT ![n] = Tail(outbox[n])]
      /\ UNCHANGED <<hist, pending, written, made, ledger>>
  BY DEF Broadcast, TypeInv, TypeOK, loopVars, auxVars
<1>2. /\ r \in RecordsIn(outbox[n]) /\ RecordsIn(Tail(outbox[n])) \subseteq RecordsIn(outbox[n])
      /\ outbox'[n] = Tail(outbox[n])
  BY <1>1, RecordsInTail DEF TypeInv, TypeOK
<1>3. r.node_id = n
  BY <1>2 DEF ChainInv, NodeChain, NoEcho
<1>4. ASSUME NEW m \in Node, NEW x \in wire'[m] PROVE x \in wire[m] \/ (m # n /\ x = r)
  BY <1>4 DEF Broadcast
<1> HIDE DEF r
<1>5. Distinct(Tail(outbox[n])) /\ (Intact(r) => r \notin RecordsIn(Tail(outbox[n])))
  BY <1>1, DistinctTail DEF DeliveryInv, OnceAtHome, r
<1>6. ASSUME NEW a \in Node PROVE OnceAtHome(a)'
  <2>1. outbox'[a] = outbox[a] \/ (a = n /\ outbox'[a] = Tail(outbox[a]))
    BY <1>1 DEF TypeInv, TypeOK
  <2> QED BY <1>1, <1>2, <1>5, <2>1 DEF DeliveryInv, OnceAtHome
<1>7. ASSUME NEW m \in Node, NEW a \in Node PROVE OnceAbroad(m, a)'
  <2>1. OnceAbroad(m, a) /\ OnceAbroad(m, n) /\ OnceAtHome(n)
    BY DEF DeliveryInv
  <2>2. ASSUME NEW x \in RecordsIn(hist[m][a]) PROVE x \notin wire'[m]
    <3>1. x \notin wire[m] /\ x.node_id = a /\ Intact(x)
      BY <2>1, <2>2 DEF OnceAbroad, DeliveryInv, Counted, GenuineInv, OnlyGenuine, TypeInv,
         HistIntact
    <3>2. m # n /\ Intact(r) => r \notin RecordsIn(hist[m][n])
      BY <1>2, <2>1 DEF OnceAbroad, Unshared
    <3> QED BY <1>3, <1>4, <2>2, <3>1, <3>2
  <2>3. ASSUME m # a, NEW x \in Unshared(a)', Intact(x)
        PROVE  x \notin wire'[m] /\ x \notin RecordsIn(hist[m][a])
    <3>1. x \in Unshared(a) /\ x.node_id = a
      BY <1>1, <1>2, <2>3 DEF Unshared, ChainInv, NodeChain, NoEcho, TypeInv, TypeOK
    <3>2. x # r
      <4>1. CASE a = n
        <5>1. x \in RecordsIn(pending[n]) \/ x \in RecordsIn(Tail(outbox[n]))
          BY <1>1, <1>2, <2>3, <4>1 DEF Unshared
        <5> QED BY <1>2, <1>5, <2>1, <2>3, <5>1 DEF OnceAtHome
      <4>2. CASE a # n
        BY <1>3, <3>1, <4>2
      <4> QED BY <4>1, <4>2
    <3> QED BY <1>4, <2>1, <2>3, <3>1, <3>2 DEF OnceAbroad
  <2> QED BY <1>1, <2>1, <2>2, <2>3 DEF OnceAbroad
<1>8. Counted'
  BY <1>1 DEF DeliveryInv, Counted
<1> QED BY <1>6, <1>7, <1>8 DEF DeliveryInv

\* The announced batch joins the outbox.
LEMMA AnnounceDelivery ==
    ASSUME TypeInv, DeliveryInv, NEW n \in Node, Announce(n)
    PROVE  DeliveryInv'
<1>1. /\ outbox' = [outbox EXCEPT ![n] = outbox[n] \o pending[n]]
      /\ pending' = [pending EXCEPT ![n] = <<>>]
      /\ written' = [written EXCEPT ![n] = 0]
      /\ UNCHANGED <<hist, wire, made, ledger>>
  BY DEF Announce, auxVars
<1>2. RecordsIn(outbox[n] \o pending[n]) = RecordsIn(outbox[n]) \union RecordsIn(pending[n])
  BY RecordsInConcat DEF TypeInv, TypeOK
<1>3. Distinct(outbox[n] \o pending[n])
  BY DistinctConcat DEF DeliveryInv, OnceAtHome, TypeInv, TypeOK
<1>4. ASSUME NEW a \in Node
      PROVE  \/ a = n /\ outbox'[a] = outbox[n] \o pending[n] /\ pending'[a] = <<>>
             \/ a # n /\ outbox'[a] = outbox[a] /\ pending'[a] = pending[a]
                      /\ written'[a] = written[a]
  BY <1>1 DEF TypeInv, TypeOK
<1>5. ASSUME NEW a \in Node PROVE OnceAtHome(a)'
  <2>1. CASE a = n
    <3>1. outbox'[a] = outbox[n] \o pending[n] /\ pending'[a] = <<>>
      BY <1>4, <2>1
    <3>2. DOMAIN <<>> = {}
      OBVIOUS
    <3> QED BY <1>3, <3>1, <3>2, RecordsInEmpty, DistinctEmpty DEF OnceAtHome
  <2>2. CASE a # n
    BY <1>1, <1>4, <2>2 DEF DeliveryInv, OnceAtHome
  <2> QED BY <2>1, <2>2
<1>6. ASSUME NEW a \in Node PROVE Unshared(a)' = Unshared(a)
  BY <1>2, <1>4, RecordsInEmpty DEF Unshared
<1>7. ASSUME NEW m \in Node, NEW a \in Node PROVE OnceAbroad(m, a)'
  BY <1>1, <1>6 DEF DeliveryInv, OnceAbroad
<1>8. Counted'
  BY <1>1 DEF DeliveryInv, Counted
<1> QED BY <1>5, <1>7, <1>8 DEF DeliveryInv

\* What record_update does to the log it is about, and that it leaves the others alone.
LEMMA RecordingLog ==
    ASSUME TypeInv, NEW n \in Node, NEW r \in UpdateRecord, Intact(r),
           hist' = [hist EXCEPT ![n] = record_update(hist[n], r)]
    PROVE  /\ r.node_id \in Node
           /\ hist'[n][r.node_id] = Append(hist[n][r.node_id], r)
           /\ RecordsIn(hist'[n][r.node_id]) = RecordsIn(hist[n][r.node_id]) \union {r}
           /\ \A m, a \in Node : m # n \/ a # r.node_id => hist'[m][a] = hist[m][a]
<1>1. r.node_id \in Node
  BY DEF UpdateRecord
<1>2. /\ hist'[n][r.node_id] = Append(hist[n][r.node_id], r)
      /\ \A m, a \in Node : m # n \/ a # r.node_id => hist'[m][a] = hist[m][a]
  BY <1>1 DEF record_update, TypeInv, TypeOK
<1>3. hist[n][r.node_id] \in Seq(UpdateRecord)
  BY <1>1 DEF TypeInv, TypeOK
<1>4. RecordsIn(Append(hist[n][r.node_id], r)) = RecordsIn(hist[n][r.node_id]) \union {r}
  BY <1>3, RecordsInAppend
<1> QED BY <1>1, <1>2, <1>4

\* A record on the way to a node is in none of its logs.
LEMMA NotYetHeard ==
    ASSUME DeliveryInv, NEW n \in Node, NEW r \in wire[n], NEW a \in Node
    PROVE  r \notin RecordsIn(hist[n][a])
<1>1. OnceAbroad(n, a)
  BY DEF DeliveryInv
<1> QED BY <1>1 DEF OnceAbroad

\* A record arrives and is off the wire.
LEMMA ReceiveDelivery ==
    ASSUME TypeInv, ChainInv, DeliveryInv, NEW n \in Node, NEW r \in wire[n],
           hist' = [hist EXCEPT ![n] = record_update(hist[n], r)],
           wire' = [wire EXCEPT ![n] = wire[n] \ {r}],
           UNCHANGED <<pending, written, outbox, made, ledger>>
    PROVE  DeliveryInv'
<1>1. r \in UpdateRecord /\ r.node_id \in Node /\ r.node_id # n
  BY DEF TypeInv, TypeOK, UpdateRecord, ChainInv, NodeChain, NoEcho
<1>2. Counted'
  BY DEF DeliveryInv, Counted
<1>3. \A m \in Node : wire'[m] \subseteq wire[m] /\ (m = n => r \notin wire'[m])
  BY DEF TypeInv, TypeOK
<1>4. \A a, m \in Node : OnceAtHome(a) /\ OnceAbroad(m, a)
  BY DEF DeliveryInv
<1>5. CASE ~Intact(r)
  <2>1. UNCHANGED hist
    BY <1>5 DEF record_update, TypeInv, TypeOK
  <2> QED BY <1>2, <1>3, <1>4, <2>1 DEF DeliveryInv, OnceAtHome, OnceAbroad, Unshared
<1>6. CASE Intact(r)
  <2> DEFINE a == r.node_id
  <2>1. /\ hist'[n][a] = Append(hist[n][a], r)
        /\ RecordsIn(hist'[n][a]) = RecordsIn(hist[n][a]) \union {r}
        /\ \A m, b \in Node : m # n \/ b # a => hist'[m][b] = hist[m][b]
    BY <1>1, <1>6, RecordingLog
  <2> HIDE DEF a
  <2>2. ASSUME NEW b \in Node PROVE OnceAtHome(b)'
    <3>1. hist'[b][b] = hist[b][b]
      BY <1>1, <2>1 DEF a
    <3> QED BY <1>4, <3>1 DEF OnceAtHome
  <2>3. ASSUME NEW m \in Node, NEW b \in Node PROVE OnceAbroad(m, b)'
    <3>1. CASE m # n \/ b # a
      <4>1. hist'[m][b] = hist[m][b] /\ wire'[m] \subseteq wire[m]
        BY <1>3, <2>1, <3>1
      <4> QED BY <1>4, <4>1 DEF OnceAbroad, Unshared
    <3>2. CASE m = n /\ b = a
      <4>1. OnceAbroad(n, a) /\ a # n
        BY <1>1, <1>4 DEF a
      <4>2. r \notin RecordsIn(hist[n][a]) /\ hist[n][a] \in Seq(UpdateRecord)
        <5>1. r \notin RecordsIn(hist[n][a])
          BY <1>1, NotYetHeard DEF a
        <5>2. hist \in [Node -> [Node -> Seq(UpdateRecord)]]
          BY DEF TypeInv, TypeOK
        <5>3. a \in Node
          BY <1>1 DEF a
        <5>4. hist[n][a] \in Seq(UpdateRecord)
          BY <5>2, <5>3
        <5> QED BY <5>1, <5>4
      <4>3. Distinct(hist'[n][a])
        BY <1>1, <2>1, <4>1, <4>2, DistinctAppend DEF OnceAbroad
      <4>4. \A x \in RecordsIn(hist'[n][a]) : x \notin wire'[n]
        BY <1>3, <2>1, <4>1 DEF OnceAbroad
      <4>5. \A x \in Unshared(a) :
                Intact(x) => x \notin wire'[n] /\ x \notin RecordsIn(hist'[n][a])
        BY <1>3, <2>1, <4>1 DEF OnceAbroad
      <4> QED BY <3>2, <4>3, <4>4, <4>5 DEF OnceAbroad, Unshared
    <3> QED BY <3>1, <3>2
  <2> QED BY <1>2, <2>2, <2>3 DEF DeliveryInv
<1> QED BY <1>5, <1>6

\* The loop records the next of its own.
LEMMA RecordNextDelivery ==
    ASSUME TypeInv, ChainInv, DeliveryInv, NEW n \in Node, RecordNext(n)
    PROVE  DeliveryInv'
<1> DEFINE k == written[n] + 1
           r == pending[n][k]
<1>1. /\ pending[n] \in Seq(UpdateRecord) /\ Len(pending[n]) \in Nat
      /\ DOMAIN pending[n] = 1..Len(pending[n])
      /\ written[n] \in Nat /\ k \in DOMAIN pending[n]
  BY LenProperties DEF RecordNext, TypeInv, TypeOK
<1>2. r \in UpdateRecord /\ r \in RecordsIn(pending[n]) /\ r.node_id = n
  BY <1>1, ElementOfSeq DEF ChainInv, NodeChain, NoEcho, RecordsIn
<1>3. /\ hist' = [hist EXCEPT ![n] = record_update(hist[n], r)]
      /\ written' = [written EXCEPT ![n] = k]
      /\ UNCHANGED <<pending, outbox, wire, made, ledger>>
  BY DEF RecordNext, meshVars, auxVars
<1>4. \A m \in Node : written'[m] = IF m = n THEN k ELSE written[m]
  BY <1>3 DEF TypeInv, TypeOK
<1>5. \A a, m \in Node : OnceAtHome(a) /\ OnceAbroad(m, a)
  BY DEF DeliveryInv
<1>6. Counted'
  BY <1>3 DEF DeliveryInv, Counted
<1>7. CASE ~Intact(r)
  <2>1. UNCHANGED hist
    BY <1>3, <1>7 DEF record_update, TypeInv, TypeOK
  <2>2. ASSUME NEW a \in Node, NEW i \in DOMAIN pending[a], i > written'[a]
        PROVE  i > written[a]
    BY <1>1, <1>4, <2>2
  <2> QED BY <1>3, <1>5, <1>6, <2>1, <2>2 DEF DeliveryInv, OnceAtHome, OnceAbroad, Unshared
<1>8. CASE Intact(r)
  <2> HIDE DEF r
  <2>1. /\ hist'[n][n] = Append(hist[n][n], r)
        /\ RecordsIn(hist'[n][n]) = RecordsIn(hist[n][n]) \union {r}
        /\ \A m, a \in Node : m # n \/ a # n => hist'[m][a] = hist[m][a]
    <3>1. /\ hist'[n][r.node_id] = Append(hist[n][r.node_id], r)
          /\ RecordsIn(hist'[n][r.node_id]) = RecordsIn(hist[n][r.node_id]) \union {r}
          /\ \A m, a \in Node : m # n \/ a # r.node_id => hist'[m][a] = hist[m][a]
      BY <1>2, <1>3, <1>8, RecordingLog
    <3> QED BY <1>2, <3>1
  <2>2. r \notin RecordsIn(hist[n][n])
    BY <1>1, <1>5, <1>8 DEF OnceAtHome, r
  <2>3. ASSUME NEW a \in Node PROVE OnceAtHome(a)'
    <3>1. CASE a = n
      <4>1. ASSUME NEW i \in DOMAIN pending[n], i > k, Intact(pending[n][i])
            PROVE  pending[n][i] \notin RecordsIn(hist'[n][n])
        <5>1. pending[n][i] \notin RecordsIn(hist[n][n])
          BY <1>1, <1>5, <4>1 DEF OnceAtHome
        <5>2. pending[n][i] # r
          BY <1>1, <1>5, <4>1 DEF OnceAtHome, Distinct, r
        <5> QED BY <2>1, <5>1, <5>2
      <4> QED BY <1>3, <1>4, <1>5, <3>1, <4>1 DEF OnceAtHome
    <3>2. CASE a # n
      <4>1. hist'[a][a] = hist[a][a] /\ written'[a] = written[a]
        BY <1>4, <2>1, <3>2
      <4> QED BY <1>3, <1>5, <4>1 DEF OnceAtHome
    <3> QED BY <3>1, <3>2
  <2>4. ASSUME NEW m \in Node, NEW a \in Node PROVE OnceAbroad(m, a)'
    <3>1. CASE m # n \/ a # n
      BY <1>3, <1>5, <2>1, <3>1 DEF OnceAbroad, Unshared
    <3>2. CASE m = n /\ a = n
      <4>1. Distinct(hist'[n][n])
        <5>1. hist[n][n] \in Seq(UpdateRecord) /\ Distinct(hist[n][n])
          BY <1>5 DEF OnceAbroad, TypeInv, TypeOK
        <5>2. Distinct(Append(hist[n][n], r))
          BY <1>2, <2>2, <5>1, DistinctAppend
        <5> QED BY <2>1, <5>2
      <4>2. r \notin wire[n]
        BY <1>2 DEF ChainInv, NodeChain, NoEcho
      <4> QED BY <1>3, <1>5, <2>1, <3>2, <4>1, <4>2 DEF OnceAbroad
    <3> QED BY <3>1, <3>2
  <2> QED BY <1>6, <2>3, <2>4 DEF DeliveryInv
<1> QED BY <1>7, <1>8

\* Every step keeps the records apart.
LEMMA NextDelivery ==
    TypeInv /\ GenuineInv /\ ChainInv /\ DeliveryInv /\ [Next]_vars => DeliveryInv'
<1> SUFFICES ASSUME TypeInv, GenuineInv, ChainInv, DeliveryInv, [Next]_vars
             PROVE  DeliveryInv'
  OBVIOUS
<1>1. ASSUME UNCHANGED <<hist, pending, written, outbox, wire, made, ledger>>
      PROVE  DeliveryInv'
  BY <1>1 DEF DeliveryInv, Counted, OnceAtHome, OnceAbroad, Unshared
<1>2. ASSUME NEW n \in Node, EngineOutput(n) PROVE DeliveryInv'
  <2>1. PICK order \in Orders(Reviewable(n)), score \in [Reviewable(n) -> Weight] :
            LET update == UpdateOf(n, TailHash(hist[n][n]), made[n] + 1)
                built  == <<update>> \o Reviews(n, order, score)
            IN  /\ pending' = [pending EXCEPT ![n] = built]
                /\ made' = [made EXCEPT ![n] = @ + Len(built)]
                /\ ledger' = [ledger EXCEPT ![n] = @ \union RecordsIn(built)]
    BY <1>2 DEF EngineOutput
  <2> DEFINE built == <<UpdateOf(n, TailHash(hist[n][n]), made[n] + 1)>>
                         \o Reviews(n, order, score)
  <2>2. built \in Seq(UpdateRecord) /\ \A r \in RecordsIn(built) : r.node_id = n
    BY BuiltType
  <2>3. \A i \in DOMAIN built : built[i].content = made[n] + i /\ i \in 1..Len(built)
    BY BuiltNumbered
  <2>4. /\ pending' = [pending EXCEPT ![n] = built]
        /\ made' = [made EXCEPT ![n] = @ + Len(built)]
        /\ ledger' = [ledger EXCEPT ![n] = @ \union RecordsIn(built)]
        /\ written' = [written EXCEPT ![n] = 0]
        /\ UNCHANGED <<hist, outbox, wire>>
    BY <1>2, <2>1 DEF EngineOutput, meshVars
  <2> HIDE DEF built
  <2>5. made[n] \in Nat /\ Len(built) \in Nat
    BY <2>2, LenProperties DEF TypeInv, TypeOK
  <2>6. \A r \in RecordsIn(built) : r.content > made[n] /\ r.content <= made[n] + Len(built)
    BY <2>3, <2>5 DEF RecordsIn
  <2>7. Distinct(built)
    <3> SUFFICES ASSUME NEW i \in DOMAIN built, NEW j \in DOMAIN built, built[i] = built[j]
                 PROVE  i = j
      BY DEF Distinct
    <3>1. made[n] + i = made[n] + j /\ i \in Nat /\ j \in Nat
      BY <2>3, <2>5
    <3> QED BY <2>5, <3>1
  <2>8. \A r \in ledger[n] : r.content \in Nat /\ r.content <= made[n]
    BY DEF DeliveryInv, Counted, TypeInv, TypeOK, UpdateRecord
  <2>9. \A r \in RecordsIn(built) : r.node_id = n /\ r \notin ledger[n]
    BY <2>2, <2>5, <2>6, <2>8
  <2>10. Counted'
    <3> SUFFICES ASSUME NEW a \in Node, NEW r \in ledger'[a]
                 PROVE  r.node_id = a /\ r.content <= made'[a]
      BY DEF Counted
    <3>1. CASE a = n
      <4>1. made'[a] = made[n] + Len(built) /\ ledger'[a] = ledger[n] \union RecordsIn(built)
        BY <2>4, <3>1 DEF TypeInv, TypeOK
      <4>2. CASE r \in ledger[n]
        BY <2>5, <2>8, <3>1, <4>1, <4>2 DEF DeliveryInv, Counted
      <4>3. CASE r \in RecordsIn(built)
        BY <2>2, <2>6, <3>1, <4>1, <4>3
      <4> QED BY <4>1, <4>2, <4>3
    <3>2. CASE a # n
      <4>1. made'[a] = made[a] /\ ledger'[a] = ledger[a]
        BY <2>4, <3>2 DEF TypeInv, TypeOK
      <4> QED BY <4>1 DEF DeliveryInv, Counted
    <3> QED BY <3>1, <3>2
  <2>11. \A m \in Node \ {n} : written'[m] = written[m]
    BY <2>4 DEF TypeInv, TypeOK
  <2> QED BY <2>2, <2>4, <2>7, <2>9, <2>10, <2>11, BuildingDelivery
<1>3. ASSUME NEW n \in Node, EngineFailure(n) PROVE DeliveryInv'
  <2> DEFINE failed == FailedUpdate(n, TailHash(hist[n][n]))
             built  == <<failed>>
  <2>1. failed \in UpdateRecord /\ ~Intact(failed)
    BY OwnTailType, FailedUpdateType
  <2>2. /\ pending' = [pending EXCEPT ![n] = built]
        /\ written' = [written EXCEPT ![n] = 0]
        /\ UNCHANGED <<hist, outbox, wire, made, ledger>>
    BY <1>3 DEF EngineFailure, meshVars
  <2> HIDE DEF failed
  <2>3. built \in Seq(UpdateRecord) /\ RecordsIn(built) = {failed} /\ Distinct(built)
    BY <2>1 DEF RecordsIn, Distinct
  <2> HIDE DEF built
  <2>4. Counted' /\ \A m \in Node \ {n} : written'[m] = written[m]
    BY <2>2 DEF DeliveryInv, Counted, TypeInv, TypeOK
  <2> QED BY <2>1, <2>2, <2>3, <2>4, BuildingDelivery
<1>4. ASSUME NEW n \in Node, RecordNext(n) PROVE DeliveryInv'
  BY <1>4, RecordNextDelivery
<1>5. ASSUME NEW n \in Node, Announce(n) PROVE DeliveryInv'
  BY <1>5, AnnounceDelivery
<1>6. ASSUME NEW n \in Node, Broadcast(n) PROVE DeliveryInv'
  BY <1>6, BroadcastDelivery
<1>7. ASSUME NEW n \in Node, Receive(n) PROVE DeliveryInv'
  <2>1. PICK r \in wire[n] : /\ hist' = [hist EXCEPT ![n] = record_update(hist[n], r)]
                             /\ wire' = [wire EXCEPT ![n] = wire[n] \ {r}]
    BY <1>7 DEF Receive
  <2>2. UNCHANGED <<pending, written, outbox, made, ledger>>
    BY <1>7 DEF Receive, loopVars, auxVars
  <2> QED BY <2>1, <2>2, ReceiveDelivery
<1>8. ASSUME NEW n \in Node, Exit(n) \/ Crash(n) PROVE DeliveryInv'
  BY <1>8, ForgettingDelivery DEF Exit, Crash, auxVars
<1>9. ASSUME NEW n \in Node,
             Stage(n) \/ Launch(n) \/ SetRound(n) \/ Rank(n) \/ Restart(n)
      PROVE  UNCHANGED <<hist, pending, written, outbox, wire, made, ledger>>
  BY <1>9 DEF Stage, Launch, SetRound, Rank, Restart, meshVars, auxVars
<1>10. ASSUME UNCHANGED vars
       PROVE  UNCHANGED <<hist, pending, written, outbox, wire, made, ledger>>
  BY <1>10 DEF vars, loopVars, meshVars, auxVars
<1> QED
  BY <1>1, <1>2, <1>3, <1>4, <1>5, <1>6, <1>7, <1>8, <1>9, <1>10 DEF Next, Loop, Mesh

-------------------------------------------------------------------------------
(* What follows.                                                           *)

\* All that has been shown of a reachable state of the federation.
Inv == TypeInv /\ GenuineInv /\ ChainInv /\ DeliveryInv

LEMMA InvHolds == Spec => []Inv
<1>1. Init => Inv
  BY InitType, InitGenuine, InitChain, InitDelivery DEF Inv
<1>2. Inv /\ [Next]_vars => Inv'
  BY NextType, NextGenuine, NextChain, NextDelivery DEF Inv
<1> QED BY <1>1, <1>2, PTL DEF Spec

\* No log ever holds a record twice, though record_update looks for no duplicate: across
\* crashes, restarts and records that overtake each other, each is recorded once at home
\* and delivered once to each process.
THEOREM LogsDoNotRepeat == Spec => []NoRepeats
<1>1. Inv => NoRepeats
  <2> SUFFICES ASSUME Inv, NEW n \in Node, NEW a \in Node,
                      NEW i \in DOMAIN hist[n][a], NEW j \in DOMAIN hist[n][a],
                      hist[n][a][i] = hist[n][a][j]
               PROVE  i = j
    BY DEF NoRepeats
  <2>1. Intact(hist[n][a][i])
    BY DEF Inv, TypeInv, HistIntact, RecordsIn
  <2>2. Distinct(hist[n][a])
    BY DEF Inv, DeliveryInv, OnceAbroad
  <2> QED BY <2>1, <2>2 DEF Distinct
<1> QED BY <1>1, InvHolds, PTL

\* What a node's loop has still to record of a round is on no other node's wire or log.
THEOREM RecordedBeforeShared == Spec => []LocalFirst
<1>1. Inv => LocalFirst
  <2> SUFFICES ASSUME Inv, NEW a \in Node, NEW n \in Node, n # a,
                      NEW i \in DOMAIN pending[a], Intact(pending[a][i])
               PROVE  pending[a][i] \notin wire[n] \union RecordsIn(hist[n][a])
    BY DEF LocalFirst
  <2>1. pending[a][i] \in Unshared(a)
    BY DEF Unshared, RecordsIn
  <2> QED BY <2>1 DEF Inv, DeliveryInv, OnceAbroad
<1> QED BY <1>1, InvHolds, PTL

-------------------------------------------------------------------------------
(* The refinement of RecordStore: what was produced is the ledger, what a  *)
(* process holds is its history.  A round publishes, recording and         *)
(* receiving teach one record, an end of the process makes it forget, and  *)
(* the rest is not seen from outside.                                      *)

\* Recording an intact record teaches the process a record it did not hold.
LEMMA RecordingLearns ==
    ASSUME Inv, NEW n \in Node, NEW r \in UpdateRecord, Genuine(r),
           Intact(r) => r \notin RecordsIn(hist[n][r.node_id]),
           hist' = [hist EXCEPT ![n] = record_update(hist[n], r)], UNCHANGED ledger
    PROVE  Store!Learn(n, r.node_id) \/ UNCHANGED <<ledger, hist>>
<1>1. r.node_id \in Node
  BY DEF UpdateRecord
<1>2. CASE Intact(r)
  <2>1. r \in ledger[r.node_id]
    BY <1>2 DEF Genuine
  <2>2. \A i \in DOMAIN hist[n][r.node_id] : hist[n][r.node_id][i] # r
    BY <1>2 DEF RecordsIn
  <2>3. hist' = [hist EXCEPT ![n][r.node_id] = Append(@, r)]
    <3>1. hist' = [hist EXCEPT ![n] = [hist[n] EXCEPT ![r.node_id] =
                                          Append(hist[n][r.node_id], r)]]
      BY <1>2 DEF record_update
    <3> QED BY <1>1, <3>1 DEF Inv, TypeInv, TypeOK
  <2> QED BY <2>1, <2>2, <2>3 DEF Store!Learn
<1>3. CASE ~Intact(r)
  <2>1. UNCHANGED hist
    BY <1>3 DEF record_update, Inv, TypeInv, TypeOK
  <2> QED BY <2>1
<1> QED BY <1>2, <1>3

\* Every step of the federation is one of the store, or not seen by it.
LEMMA NextRefines == Inv /\ [Next]_vars => [Store!Next]_<<ledger, hist>>
<1> SUFFICES ASSUME Inv, [Next]_vars PROVE Store!Next \/ UNCHANGED <<ledger, hist>>
  OBVIOUS
<1>1. ASSUME NEW n \in Node, EngineOutput(n) PROVE Store!Publish(n)
  <2>1. PICK S : ledger' = [ledger EXCEPT ![n] = @ \union S]
    BY <1>1 DEF EngineOutput
  <2>2. ledger[n] \subseteq ledger'[n] /\ ledger' = [ledger EXCEPT ![n] = ledger'[n]]
    BY <2>1 DEF Inv, TypeInv, TypeOK
  <2>3. UNCHANGED hist
    BY <1>1 DEF EngineOutput
  <2> QED BY <2>2, <2>3 DEF Store!Publish
<1>2. ASSUME NEW n \in Node, RecordNext(n)
      PROVE  (\E a \in Node : Store!Learn(n, a)) \/ UNCHANGED <<ledger, hist>>
  <2> DEFINE k == written[n] + 1
             r == pending[n][k]
  <2>1. /\ pending[n] \in Seq(UpdateRecord) /\ k \in 1..Len(pending[n])
        /\ k \in DOMAIN pending[n] /\ k > written[n]
    BY <1>2, LenProperties DEF RecordNext, Inv, TypeInv, TypeOK
  <2>2. r \in UpdateRecord /\ r \in RecordsIn(pending[n])
    BY <2>1, ElementOfSeq DEF RecordsIn
  <2>3. r.node_id = n /\ Genuine(r)
    BY <2>2 DEF Inv, ChainInv, NodeChain, NoEcho, GenuineInv, InFlight
  <2>4. Intact(r) => r \notin RecordsIn(hist[n][n])
    BY <2>1 DEF Inv, DeliveryInv, OnceAtHome
  <2>5. hist' = [hist EXCEPT ![n] = record_update(hist[n], r)] /\ UNCHANGED ledger
    BY <1>2 DEF RecordNext, auxVars
  <2> HIDE DEF r
  <2>6. Intact(r) => r \notin RecordsIn(hist[n][r.node_id])
    BY <2>3, <2>4
  <2> QED BY <2>2, <2>3, <2>5, <2>6, RecordingLearns
<1>3. ASSUME NEW n \in Node, Receive(n)
      PROVE  (\E a \in Node : Store!Learn(n, a)) \/ UNCHANGED <<ledger, hist>>
  <2>1. PICK r \in wire[n] : hist' = [hist EXCEPT ![n] = record_update(hist[n], r)]
    BY <1>3 DEF Receive
  <2>2. r \in UpdateRecord /\ r.node_id \in Node /\ Genuine(r)
    BY DEF Inv, TypeInv, TypeOK, UpdateRecord, GenuineInv, InFlight
  <2>3. r \notin RecordsIn(hist[n][r.node_id])
    BY <2>2 DEF Inv, DeliveryInv, OnceAbroad
  <2>4. UNCHANGED ledger
    BY <1>3 DEF Receive, auxVars
  <2>5. Store!Learn(n, r.node_id) \/ UNCHANGED <<ledger, hist>>
    BY <2>1, <2>2, <2>3, <2>4, RecordingLearns
  <2> QED BY <2>2, <2>5
<1>4. ASSUME NEW n \in Node, Exit(n) \/ Crash(n) PROVE Store!Forget(n)
  <2>1. hist' = [hist EXCEPT ![n] = EmptyHistory] /\ UNCHANGED ledger
    BY <1>4 DEF Exit, Crash, LoseMemory, auxVars
  <2> QED BY <2>1 DEF Store!Forget, Store!EmptyLogs, EmptyHistory
<1>5. ASSUME NEW n \in Node,
             \/ Stage(n) \/ Launch(n) \/ EngineFailure(n) \/ Announce(n) \/ SetRound(n)
             \/ Rank(n) \/ Broadcast(n) \/ Restart(n)
      PROVE  UNCHANGED <<ledger, hist>>
  BY <1>5 DEF Stage, Launch, EngineFailure, Announce, SetRound, Rank, Broadcast, Restart,
     auxVars
<1>6. ASSUME UNCHANGED vars PROVE UNCHANGED <<ledger, hist>>
  BY <1>6 DEF vars, auxVars
<1> QED
  BY <1>1, <1>2, <1>3, <1>4, <1>5, <1>6 DEF Next, Loop, Mesh, Store!Next

\* The federation keeps the promises of RecordStore: a log only grows, by one published
\* record at a time that is not on it, until its process ends and forgets all logs at once.
THEOREM FederationImplementsStore == Spec => ImplementsStore
<1>1. Init => Store!Init
  BY DEF Init, Store!Init, Store!EmptyLogs, EmptyHistory
<1>2. Inv /\ [Next]_vars => [Store!Next]_<<ledger, hist>>
  BY NextRefines
<1> QED BY <1>1, <1>2, InvHolds, PTL DEF Spec, Store!Spec, ImplementsStore

-------------------------------------------------------------------------------
(* Nothing goes missing while nobody stops.                                *)

\* The records of a on their way to the log that n has of it.
UnderWay(a, n) ==
    IF n = a THEN {pending[a][i] : i \in {j \in DOMAIN pending[a] : j > written[a]}}
             ELSE RecordsIn(pending[a]) \union RecordsIn(outbox[a]) \union wire[n]

Accounted(a, n) == ledger[a] \subseteq RecordsIn(hist[n][a]) \union UnderWay(a, n)

\* A batch has been announced before the next one is built, and all that was produced is intact.
Batches ==
    /\ \A n \in Node : pc[n] # "Recording" => pending[n] = <<>>
    /\ \A a \in Node : \A r \in ledger[a] : Intact(r)

LEMMA NextBatches == Inv /\ Batches /\ [Next]_vars => Batches'
<1> SUFFICES ASSUME Inv, Batches, [Next]_vars PROVE Batches'
  OBVIOUS
<1> USE DEF Goto
<1>1. TypeInv /\ pc \in [Node -> {"Clock", "Staged", "Training", "Recording", "Announced",
                                  "Barrier"} \union Stopped]
      /\ pending \in [Node -> Seq(UpdateRecord)]
  BY DEF Inv, TypeInv, TypeOK
<1>2. ASSUME NEW n \in Node, EngineOutput(n) PROVE Batches'
  <2>1. PICK order \in Orders(Reviewable(n)), score \in [Reviewable(n) -> Weight] :
            ledger' = [ledger EXCEPT ![n] = @ \union
                RecordsIn(<<UpdateOf(n, TailHash(hist[n][n]), made[n] + 1)>>
                              \o Reviews(n, order, score))]
    BY <1>2 DEF EngineOutput
  <2>2. \A r \in RecordsIn(<<UpdateOf(n, TailHash(hist[n][n]), made[n] + 1)>>
                               \o Reviews(n, order, score)) : Intact(r)
    BY <1>1, BuiltType
  <2>3. \A a \in Node : \A r \in ledger'[a] : Intact(r)
    BY <1>1, <2>1, <2>2 DEF Batches, TypeInv, TypeOK
  <2>4. pc' = [pc EXCEPT ![n] = "Recording"] /\ \A m \in Node \ {n} : pending'[m] = pending[m]
    BY <1>1, <1>2 DEF EngineOutput
  <2> QED BY <1>1, <2>3, <2>4 DEF Batches
<1>3. ASSUME NEW n \in Node, EngineFailure(n) PROVE Batches'
  <2>1. /\ pc' = [pc EXCEPT ![n] = "Recording"] /\ ledger' = ledger
        /\ \A m \in Node \ {n} : pending'[m] = pending[m]
    BY <1>1, <1>3 DEF EngineFailure
  <2> QED BY <1>1, <2>1 DEF Batches
<1>4. ASSUME NEW n \in Node, Announce(n) \/ Exit(n) \/ Crash(n) PROVE Batches'
  <2>1. pending' = [pending EXCEPT ![n] = <<>>] /\ ledger' = ledger
        /\ \A m \in Node \ {n} : pc'[m] = pc[m]
    BY <1>1, <1>4 DEF Announce, Exit, Crash, LoseMemory, auxVars
  <2> QED BY <1>1, <2>1 DEF Batches
<1>5. ASSUME NEW n \in Node, \/ Stage(n) \/ Launch(n) \/ SetRound(n) \/ Rank(n) \/ Restart(n)
                             \/ RecordNext(n) \/ Broadcast(n) \/ Receive(n)
      PROVE  Batches'
  <2>1. /\ pending' = pending /\ ledger' = ledger
        /\ \A m \in Node : pc'[m] = pc[m] \/ pc[m] # "Recording"
    BY <1>1, <1>5 DEF Stage, Launch, SetRound, Rank, Restart, RecordNext, Broadcast, Receive,
       loopVars, auxVars
  <2> QED BY <2>1 DEF Batches
<1>6. CASE UNCHANGED vars
  BY <1>6 DEF vars, loopVars, auxVars, Batches
<1> QED BY <1>2, <1>3, <1>4, <1>5, <1>6 DEF Next, Loop, Mesh

LEMMA BatchesHold == Spec => []Batches
<1>1. Init => Batches
  BY DEF Init, Batches
<1>2. Inv /\ Batches /\ [Next]_vars => Batches'
  BY NextBatches
<1> QED BY <1>1, <1>2, InvHolds, PTL DEF Spec

\* A queue is its head and its tail.
LEMMA RecordsInHeadTail ==
    ASSUME NEW S, NEW s \in Seq(S), s # <<>>
    PROVE  RecordsIn(s) \subseteq {Head(s)} \union RecordsIn(Tail(s))
<1>1. /\ Len(s) \in Nat \ {0} /\ DOMAIN s = 1..Len(s)
      /\ Tail(s) \in Seq(S) /\ Len(Tail(s)) = Len(s) - 1
      /\ DOMAIN Tail(s) = 1..(Len(s) - 1)
  BY LenProperties, EmptySeq, HeadTailProperties
<1>2. Head(s) = s[1]
  OBVIOUS
<1>3. ASSUME NEW i \in DOMAIN s, i # 1 PROVE s[i] \in RecordsIn(Tail(s))
  <2>1. i - 1 \in 1..(Len(s) - 1) /\ (i - 1) + 1 = i
    BY <1>1, <1>3
  <2>2. Tail(s)[i - 1] = s[(i - 1) + 1]
    BY <1>1, <2>1, HeadTailProperties
  <2> QED BY <1>1, <2>1, <2>2 DEF RecordsIn
<1> QED BY <1>2, <1>3 DEF RecordsIn

\* What record_update does to the log that n has of a when n records r.
LEMMA RecordingAccounts ==
    ASSUME Inv, Batches, NEW n \in Node, NEW a \in Node, NEW r \in UpdateRecord,
           hist' = [hist EXCEPT ![n] = record_update(hist[n], r)],
           r \in ledger[a] => r.node_id = a
    PROVE  /\ RecordsIn(hist[n][a]) \subseteq RecordsIn(hist'[n][a])
           /\ r \in ledger[a] => r \in RecordsIn(hist'[n][a])
<1>1. CASE Intact(r)
  <2>1. /\ RecordsIn(hist'[n][r.node_id]) = RecordsIn(hist[n][r.node_id]) \union {r}
        /\ a # r.node_id => hist'[n][a] = hist[n][a]
    <3>1. TypeInv
      BY DEF Inv
    <3>2. /\ RecordsIn(hist'[n][r.node_id]) = RecordsIn(hist[n][r.node_id]) \union {r}
          /\ \A m, b \in Node : m # n \/ b # r.node_id => hist'[m][b] = hist[m][b]
      BY <1>1, <3>1, RecordingLog
    <3> QED BY <3>2
  <2> QED BY <2>1
<1>2. CASE ~Intact(r)
  <2>1. hist' = hist
    BY <1>2 DEF record_update, Inv, TypeInv, TypeOK
  <2> QED BY <1>2, <2>1 DEF Batches
<1> QED BY <1>1, <1>2

LEMMA NextAccounted ==
    ASSUME Inv, Batches, [Next]_vars, NEW a \in Node, NEW n \in Node, Accounted(a, n),
           Up(a)', Up(n)'
    PROVE  Accounted(a, n)'
<1> USE DEF Goto
<1>1. /\ pc \in [Node -> {"Clock", "Staged", "Training", "Recording", "Announced", "Barrier"}
                             \union Stopped]
      /\ pending \in [Node -> Seq(UpdateRecord)] /\ outbox \in [Node -> Seq(UpdateRecord)]
      /\ hist \in [Node -> [Node -> Seq(UpdateRecord)]] /\ wire \in [Node -> SUBSET UpdateRecord]
      /\ written \in [Node -> Nat] /\ ledger \in [Node -> SUBSET UpdateRecord]
  BY DEF Inv, TypeInv, TypeOK
<1>2. \A r \in ledger[a] : Intact(r) /\ r.node_id = a
  BY DEF Batches, Inv, DeliveryInv, Counted
<1>3. ASSUME NEW m \in Node, EngineOutput(m) \/ EngineFailure(m) PROVE Accounted(a, n)'
  <2>1. /\ UNCHANGED <<hist, outbox, wire>>
        /\ m # a => ledger'[a] = ledger[a] /\ pending'[a] = pending[a] /\ written'[a] = written[a]
        /\ m = a => ledger'[a] \subseteq ledger[a] \union RecordsIn(pending'[a])
                    /\ written'[a] = 0 /\ pending[a] = <<>>
    <3>1. CASE EngineOutput(m)
      <4>1. PICK built : /\ pending' = [pending EXCEPT ![m] = built]
                         /\ ledger' = [ledger EXCEPT ![m] = @ \union RecordsIn(built)]
        BY <3>1 DEF EngineOutput
      <4>2. /\ pc[m] = "Training" /\ written' = [written EXCEPT ![m] = 0]
            /\ UNCHANGED <<hist, outbox, wire>>
        BY <3>1 DEF EngineOutput, meshVars
      <4> QED BY <1>1, <4>1, <4>2 DEF Batches
    <3>2. CASE EngineFailure(m)
      <4>1. /\ pc[m] = "Training" /\ written' = [written EXCEPT ![m] = 0]
            /\ pending' = [pending EXCEPT ![m] = <<FailedUpdate(m, TailHash(hist[m][m]))>>]
            /\ UNCHANGED <<hist, outbox, wire, ledger>>
        BY <3>2 DEF EngineFailure, meshVars
      <4> QED BY <1>1, <4>1 DEF Batches
    <3> QED BY <1>3, <3>1, <3>2
  <2>2. CASE m # a
    BY <2>1, <2>2 DEF Accounted, UnderWay
  <2>3. CASE m = a
    <3>1. pending'[a] \in Seq(UpdateRecord)
      <4>1. TypeInv'
        BY NextType DEF Inv
      <4> QED BY <4>1 DEF TypeInv, TypeOK
    <3>2. \A i \in DOMAIN pending'[a] : i > 0
      BY <3>1, LenProperties
    <3>3. RecordsIn(pending'[a]) \subseteq UnderWay(a, n)'
      BY <2>1, <2>3, <3>2 DEF UnderWay, RecordsIn
    <3>4. UnderWay(a, n) \subseteq UnderWay(a, n)'
      BY <2>1, <2>3, RecordsInEmpty DEF UnderWay, RecordsIn
    <3> QED BY <2>1, <2>3, <3>3, <3>4 DEF Accounted
  <2> QED BY <2>2, <2>3
<1>4. ASSUME NEW m \in Node, RecordNext(m) PROVE Accounted(a, n)'
  <2> DEFINE k == written[m] + 1
             r == pending[m][k]
  <2>1. k \in DOMAIN pending[m] /\ r \in UpdateRecord /\ r.node_id = m
    <3>1. k \in DOMAIN pending[m] /\ k \in 1..Len(pending[m])
      <4>1. written[m] \in Nat /\ pending[m] \in Seq(UpdateRecord) /\ written[m] < Len(pending[m])
        BY <1>1, <1>4 DEF RecordNext
      <4> QED BY <4>1, LenProperties
    <3>2. r \in UpdateRecord /\ r \in RecordsIn(pending[m])
      BY <1>1, <3>1, ElementOfSeq DEF RecordsIn
    <3> QED BY <3>1, <3>2 DEF Inv, ChainInv, NodeChain, NoEcho
  <2>2. /\ hist' = [hist EXCEPT ![m] = record_update(hist[m], r)]
        /\ written' = [written EXCEPT ![m] = written[m] + 1]
        /\ UNCHANGED <<pending, outbox, wire, ledger>>
    BY <1>4 DEF RecordNext, meshVars, auxVars
  <2>3. /\ RecordsIn(hist[m][a]) \subseteq RecordsIn(hist'[m][a])
        /\ r \in ledger[a] => r \in RecordsIn(hist'[m][a])
    <3> HIDE DEF r
    <3> QED BY <1>2, <2>1, <2>2, RecordingAccounts
  <2>4. RecordsIn(hist[n][a]) \subseteq RecordsIn(hist'[n][a])
    BY <1>1, <2>2, <2>3
  <2>5. CASE n # a \/ m # a
    <3>1. UnderWay(a, n)' = UnderWay(a, n)
      BY <1>1, <2>2, <2>5 DEF UnderWay
    <3> QED BY <2>2, <2>4, <3>1 DEF Accounted
  <2>6. CASE n = a /\ m = a
    <3>1. \A i \in DOMAIN pending[a] : i > written[a] => i = k \/ i > written'[a]
      BY <1>1, <2>2, <2>6, LenProperties
    <3>2. UnderWay(a, n) \subseteq UnderWay(a, n)' \union {r}
      BY <2>2, <2>6, <3>1 DEF UnderWay
    <3> QED BY <2>2, <2>3, <2>6, <3>2 DEF Accounted
  <2> QED BY <2>5, <2>6
<1>5. ASSUME NEW m \in Node, Announce(m) PROVE Accounted(a, n)'
  <2>1. /\ written[m] = Len(pending[m])
        /\ outbox' = [outbox EXCEPT ![m] = outbox[m] \o pending[m]]
        /\ pending' = [pending EXCEPT ![m] = <<>>]
        /\ written' = [written EXCEPT ![m] = 0]
        /\ UNCHANGED <<hist, wire, ledger>>
    BY <1>5 DEF Announce, auxVars
  <2>2. CASE m # a
    BY <1>1, <2>1, <2>2 DEF Accounted, UnderWay
  <2>3. CASE m = a /\ n = a
    <3>1. \A i \in DOMAIN pending[a] : ~(i > written[a])
      BY <1>1, <2>1, <2>3, LenProperties
    <3> QED BY <2>1, <2>3, <3>1 DEF Accounted, UnderWay
  <2>4. CASE m = a /\ n # a
    <3>1. RecordsIn(outbox[a] \o pending[a]) = RecordsIn(outbox[a]) \union RecordsIn(pending[a])
      BY <1>1, RecordsInConcat
    <3>2. outbox'[a] = outbox[a] \o pending[a]
      BY <1>1, <2>1, <2>4
    <3> QED BY <2>1, <2>4, <3>1, <3>2 DEF Accounted, UnderWay
  <2> QED BY <2>2, <2>3, <2>4
<1>6. ASSUME NEW m \in Node, Broadcast(m) PROVE Accounted(a, n)'
  <2>1. /\ UNCHANGED <<pc, hist, pending, written, ledger>> /\ outbox[m] # <<>>
        /\ outbox' = [outbox EXCEPT ![m] = Tail(outbox[m])]
    BY <1>6 DEF Broadcast, loopVars, auxVars
  <2>2. Up(n)
    BY <2>1 DEF Up
  <2>3. wire[n] \subseteq wire'[n] /\ (n # m => Head(outbox[m]) \in wire'[n])
    BY <1>6, <2>2 DEF Broadcast
  <2>4. CASE n = a
    BY <2>1, <2>4 DEF Accounted, UnderWay
  <2>5. CASE n # a /\ m # a
    BY <1>1, <2>1, <2>3, <2>5 DEF Accounted, UnderWay
  <2>6. CASE n # a /\ m = a
    <3>1. RecordsIn(outbox[a]) \subseteq {Head(outbox[a])} \union RecordsIn(outbox'[a])
      BY <1>1, <2>1, <2>6, RecordsInHeadTail
    <3> QED BY <2>1, <2>3, <2>6, <3>1 DEF Accounted, UnderWay
  <2> QED BY <2>4, <2>5, <2>6
<1>7. ASSUME NEW m \in Node, Receive(m) PROVE Accounted(a, n)'
  <2>1. PICK r \in wire[m] : /\ hist' = [hist EXCEPT ![m] = record_update(hist[m], r)]
                             /\ wire' = [wire EXCEPT ![m] = wire[m] \ {r}]
    BY <1>7 DEF Receive
  <2>2. UNCHANGED <<pending, written, outbox, ledger>>
    BY <1>7 DEF Receive, loopVars, auxVars
  <2>3. /\ RecordsIn(hist[m][a]) \subseteq RecordsIn(hist'[m][a])
        /\ r \in ledger[a] => r \in RecordsIn(hist'[m][a])
    BY <1>1, <1>2, <2>1, RecordingAccounts
  <2>4. CASE m # n
    BY <1>1, <2>1, <2>2, <2>4 DEF Accounted, UnderWay
  <2>5. CASE m = n
    <3>1. UnderWay(a, n) \subseteq UnderWay(a, n)' \union {r}
      BY <1>1, <2>1, <2>2, <2>5 DEF UnderWay
    <3> QED BY <2>2, <2>3, <2>5, <3>1 DEF Accounted
  <2> QED BY <2>4, <2>5
<1>8. ASSUME NEW m \in Node, Exit(m) \/ Crash(m) PROVE Accounted(a, n)'
  <2>1. LoseMemory(m) /\ ledger' = ledger /\ pc'[m] \in Stopped
    BY <1>1, <1>8 DEF Exit, Crash, auxVars, Stopped
  <2>2. m # a /\ m # n
    BY <2>1 DEF Up
  <2> QED BY <1>1, <2>1, <2>2 DEF LoseMemory, Accounted, UnderWay
<1>9. ASSUME \/ \E m \in Node : Stage(m) \/ Launch(m) \/ SetRound(m) \/ Rank(m) \/ Restart(m)
             \/ UNCHANGED vars
      PROVE  Accounted(a, n)'
  <2>1. UNCHANGED <<hist, pending, written, outbox, wire, ledger>>
    BY <1>9 DEF Stage, Launch, SetRound, Rank, Restart, vars, loopVars, meshVars, auxVars
  <2> QED BY <2>1 DEF Accounted, UnderWay
<1> QED BY <1>3, <1>4, <1>5, <1>6, <1>7, <1>8, <1>9 DEF Next, Loop, Mesh

\* As long as neither process stops, each record its author produced is on the other's log or on
\* the way to it: no lock, failed round or overtaking record drops one (main.rs, mesh.rs).  Only
\* a process that stops loses records.
THEOREM NothingGoesMissing ==
    ASSUME NEW a \in Node, NEW n \in Node
    PROVE  Spec /\ [](Up(a) /\ Up(n)) =>
               [](ledger[a] \subseteq RecordsIn(hist[n][a]) \union UnderWay(a, n))
<1>1. Init => Accounted(a, n)
  BY DEF Init, Accounted
<1>2. Inv /\ Batches /\ [Next]_vars /\ Accounted(a, n) /\ (Up(a) /\ Up(n))' => Accounted(a, n)'
  BY NextAccounted
<1>3. Accounted(a, n) => ledger[a] \subseteq RecordsIn(hist[n][a]) \union UnderWay(a, n)
  BY DEF Accounted
<1> QED BY <1>1, <1>2, <1>3, InvHolds, BatchesHold, PTL DEF Spec

\* The safety half of Convergence: if no process ever stops, then whenever nothing is under way
\* all nodes hold all that was produced, and nothing else.
THEOREM StillMeansShared ==
    Spec /\ [](\A n \in Node : Up(n)) =>
        []((\A a, n \in Node : UnderWay(a, n) = {}) => AllShared)
<1> DEFINE AllAccounted == \A a, n \in Node : Accounted(a, n)
<1>1. Init => AllAccounted
  BY DEF Init, Accounted
<1>2. Inv /\ Batches /\ [Next]_vars /\ AllAccounted /\ (\A n \in Node : Up(n))' => AllAccounted'
  BY NextAccounted
<1>3. Inv /\ AllAccounted => ((\A a, n \in Node : UnderWay(a, n) = {}) => AllShared)
  BY DEF Inv, GenuineInv, OnlyGenuine, Accounted, AllShared
<1> QED BY <1>1, <1>2, <1>3, InvHolds, BatchesHold, PTL DEF Spec

-------------------------------------------------------------------------------
(* The ranking of Cohort depends on which records a history holds, and not *)
(* on the order of them.  What is shown of a ranking holds for every       *)
(* history whose logs repeat nothing, and LogsDoNotRepeat shows that of    *)
(* every history of Federation.                                            *)

Histories == [Node -> Seq(UpdateRecord)]

NoLogRepeats(h) == \A a \in Node : \A i, j \in DOMAIN h[a] : h[a][i] = h[a][j] => i = j

\* The places of a history, and the record at one.
Place(h, p) == p = <<p[1], p[2]>> /\ p[1] \in Node /\ p[2] \in DOMAIN h[p[1]]

RecordAt(h, p) == h[p[1]][p[2]]

LEMMA ReviewPlace ==
    ASSUME NEW h \in Histories, NEW m, NEW p
    PROVE  p \in ReviewsOf(h, m) <=>
               /\ Place(h, p)
               /\ IsReview(RecordAt(h, p)) /\ RecordAt(h, p).kind.target_node = m
BY DEF ReviewsOf, Place, RecordAt

\* A record has one place only in a history that repeats nothing.
LEMMA OnePlace ==
    ASSUME NEW h \in Histories, NoLogRepeats(h), NEW p, Place(h, p), NEW q, Place(h, q),
           p[1] = q[1], RecordAt(h, p) = RecordAt(h, q)
    PROVE  p = q
<1>1. p[2] = q[2]
  BY DEF NoLogRepeats, Place, RecordAt
<1> QED BY <1>1 DEF Place

\* A history holds finitely many reviews.
LEMMA ReviewsFinite ==
    ASSUME NEW h \in Histories, NEW m
    PROVE  IsFiniteSet(ReviewsOf(h, m))
<1> DEFINE Places == {{a} \X DOMAIN h[a] : a \in Node}
<1>1. IsFiniteSet(Places)
  <2> DEFINE f == [a \in Node |-> {a} \X DOMAIN h[a]]
  <2>1. f \in Surjection(Node, Places)
    BY DEF Surjection
  <2> HIDE DEF f, Places
  <2> QED BY <2>1, NodeAssumption, FS_Surjection
<1>2. ASSUME NEW a \in Node PROVE IsFiniteSet({a} \X DOMAIN h[a])
  <2>1. h[a] \in Seq(UpdateRecord)
    BY DEF Histories
  <2>2. IsFiniteSet(DOMAIN h[a])
    BY <2>1, LenProperties, FS_Interval
  <2> QED BY <2>2, FS_Singleton, FS_Product
<1>3. \A S \in Places : IsFiniteSet(S)
  BY <1>2
<1>4. IsFiniteSet(UNION Places)
  <2> HIDE DEF Places
  <2> QED BY <1>1, <1>3, FS_UNION
<1>5. ReviewsOf(h, m) \subseteq UNION Places
  BY DEF ReviewsOf
<1> QED BY <1>4, <1>5, FS_Subset

Score(h, p) == h[p[1]][p[2]].kind.trust_score

\* Each carries a double.
LEMMA ScoreType ==
    ASSUME NEW h \in Histories, NEW m, NEW p \in ReviewsOf(h, m)
    PROVE  Score(h, p) \in Double
<1>1. Place(h, p) /\ IsReview(RecordAt(h, p))
  BY ReviewPlace
<1>2. h[p[1]] \in Seq(UpdateRecord)
  BY <1>1 DEF Histories, Place
<1>3. RecordAt(h, p) \in UpdateRecord
  BY <1>1, <1>2, RecordsInType DEF RecordsIn, Place, RecordAt
<1>4. RecordAt(h, p).kind \in PeerReview
  BY <1>1, <1>3 DEF UpdateRecord, ModelUpdate, IsReview
<1> QED BY <1>4, TrustAssumption DEF PeerReview, RecordAt, Score

\* Doubles add up to a double, however they are rounded on the way.
LEMMA AddsToDouble ==
    ASSUME NEW n \in Nat, NEW s \in [1..n -> Double]
    PROVE  FoldLeft(Add, 0, s) \in Double
<1> DEFINE S == 1..n
           add == [x \in Double |-> [y \in Double |-> Add(y, x)]]
           pick == [t \in SUBSET S |-> Max(t)]
           U(k) == k = [t \in SUBSET S |-> IF t = {} THEN 0
                                           ELSE Add(k[t \ {Max(t)}], s[Max(t)])]
<1>1. FoldLeft(Add, 0, s) = (CHOOSE k : U(k))[S]
  BY DEF FoldLeft, MapThenFoldSet
<1>2. IsFiniteSet(S)
  BY FS_Interval
<1>3. ASSUME NEW t \in SUBSET S, t # {} PROVE Max(t) \in t
  <2>1. IsFiniteSet(t)
    BY <1>2, FS_Subset
  <2>2. t \in SUBSET Int
    OBVIOUS
  <2> QED BY <1>3, <2>1, <2>2, LargestNumber
<1>4. \E k : U(k)
  <2>1. add \in [Double -> [Double -> Double]] /\ \A x, y \in Double : add[x][y] = Add(y, x)
    BY TrustAssumption
  <2>2. \A t \in SUBSET S : t # {} => pick[t] \in t
    BY <1>3
  <2>3. \A t \in SUBSET S : pick[t] = Max(t)
    OBVIOUS
  <2> HIDE DEF add, pick, S
  <2>4. Foldable(S, Double, add, s, pick)
    BY <1>2, <2>1, <2>2, TrustAssumption DEF Foldable, S
  <2>5. PICK k \in [SUBSET S -> Double] : FoldsUp(k, add, s, pick, S)
    BY <2>4, FoldExists
  <2> DEFINE Value(t) == IF t = {} THEN 0 ELSE Add(k[t \ {Max(t)}], s[Max(t)])
  <2>6. ASSUME NEW t \in SUBSET S PROVE k[t] = Value(t)
    <3>1. CASE t = {}
      BY <2>5, <3>1 DEF FoldsUp
    <3>2. CASE t # {}
      <4>1. k[t] = add[s[Max(t)]][k[t \ {Max(t)}]]
        BY <2>3, <2>5, <3>2 DEF FoldsUp
      <4>2. s[Max(t)] \in Double /\ k[t \ {Max(t)}] \in Double
        BY <1>3, <3>2 DEF S
      <4> QED BY <2>1, <3>2, <4>1, <4>2
    <3> QED BY <3>1, <3>2
  <2> HIDE DEF Value
  <2>7. k = [t \in SUBSET S |-> Value(t)]
    BY <2>5, <2>6
  <2> QED BY <2>7 DEF Value
<1> DEFINE k == CHOOSE f : U(f)
<1>5. U(k)
  BY <1>4
<1> HIDE DEF k
<1>6. k[{}] \in Double
  BY <1>5, TrustAssumption
<1>7. ASSUME NEW t \in SUBSET S, t # {}
      PROVE  \E x \in t : k[t \ {x}] \in Double => k[t] \in Double
  <2>1. k[t] = Add(k[t \ {Max(t)}], s[Max(t)])
    BY <1>5, <1>7
  <2> DEFINE x == Max(t)
  <2>2. x \in t /\ s[x] \in Double
    BY <1>3, <1>7
  <2>3. k[t \ {x}] \in Double => k[t] \in Double
    BY <2>1, <2>2, TrustAssumption
  <2> QED BY <2>2, <2>3
<1>8. k[S] \in Double
  <2> HIDE DEF S, U
  <2>1. \A t \in SUBSET S : k[t] \in Double
    BY <1>2, <1>6, <1>7, ValuesBySubsets
  <2> QED BY <2>1
<1> QED BY <1>1, <1>8 DEF k

\* Sorting leaves nobody out and names nobody twice.
LEMMA SortedSorts ==
    ASSUME NEW S, IsFiniteSet(S), NEW before, IsOrder(S, before)
    PROVE  /\ Sorted(S, before) \in Seq(S) /\ Len(Sorted(S, before)) = Cardinality(S)
           /\ \A i \in 1..Cardinality(S) : RankIn(S, before, Sorted(S, before)[i]) = i - 1
           /\ \A m \in S : /\ RankIn(S, before, m) + 1 \in 1..Cardinality(S)
                           /\ Sorted(S, before)[RankIn(S, before, m) + 1] = m
           /\ Sorted(S, before) \in SetToSeqs(S)
<1> DEFINE N == Cardinality(S)
           At(i) == CHOOSE m \in S : RankIn(S, before, m) = i - 1
           s == Sorted(S, before)
<1>1. N \in Nat
  BY FS_CardinalityType
<1>2. s = [i \in 1..N |-> At(i)]
  BY DEF Sorted, RankIn, AheadOf
<1>3. ASSUME NEW i \in 1..N PROVE At(i) \in S /\ RankIn(S, before, At(i)) = i - 1
  <2>1. i - 1 \in 0..(N - 1)
    BY <1>1
  <2>2. \E m \in S : RankIn(S, before, m) = i - 1
    BY <2>1, RanksInTaken
  <2> QED BY <2>2
<1> HIDE DEF At, s
<1>4. s \in Seq(S)
  BY <1>1, <1>2, <1>3, IsASeq
<1>5. Len(s) = N
  <2>1. DOMAIN s = 1..N /\ DOMAIN s = 1..Len(s) /\ Len(s) \in Nat
    BY <1>2, <1>4, LenProperties
  <2> QED BY <1>1, <2>1
<1>6. \A i \in 1..N : s[i] \in S /\ RankIn(S, before, s[i]) = i - 1
  BY <1>2, <1>3
<1>7. ASSUME NEW m \in S
      PROVE  /\ RankIn(S, before, m) + 1 \in 1..N
             /\ s[RankIn(S, before, m) + 1] = m
  <2> DEFINE r == RankIn(S, before, m)
  <2>1. r \in Nat /\ r < N
    BY RankInType
  <2>2. r + 1 \in 1..N /\ (r + 1) - 1 = r
    BY <1>1, <2>1
  <2>3. s[r + 1] \in S /\ RankIn(S, before, s[r + 1]) = r
    BY <1>6, <2>2
  <2>4. s[r + 1] = m
    BY <2>3, RankInOrders
  <2> QED BY <2>2, <2>4
<1>8. s \in SetToSeqs(S)
  <2>1. \A i, j \in 1..N : i # j => s[i] # s[j]
    BY <1>1, <1>6
  <2>2. s \in [1..N -> S]
    BY <1>2, <1>3, <1>6
  <2> QED BY <2>1, <2>2 DEF SetToSeqs
<1> QED BY <1>4, <1>5, <1>6, <1>7, <1>8 DEF s

-------------------------------------------------------------------------------
(* The sums.                                                               *)

\* The two loops read every review of m, and each once.
LEMMA ReadingEnumerates ==
    ASSUME NEW h \in Histories, NEW m, NEW at \in MapOrders
    PROVE  Reading(h, m, at) \in SetToSeqs(ReviewsOf(h, m))
<1> DEFINE R == ReviewsOf(h, m)
           Before(p, q) == at[p[1]] < at[q[1]] \/ (p[1] = q[1] /\ p[2] < q[2])
           B == {r \in R \X R : Before(r[1], r[2])}
<1>1. Reading(h, m, at) = Sorted(R, B) /\ IsFiniteSet(R)
  BY ReviewsFinite DEF Reading
<1>2. ASSUME NEW p \in R
      PROVE  p = <<p[1], p[2]>> /\ p[1] \in Node /\ p[2] \in Nat /\ at[p[1]] \in Int
  <2>1. Place(h, p)
    BY ReviewPlace
  <2>2. h[p[1]] \in Seq(UpdateRecord)
    BY <2>1 DEF Place, Histories
  <2>3. p[2] \in Nat
    BY <2>1, <2>2, LenProperties DEF Place
  <2>4. at[p[1]] \in 1..Cardinality(Node)
    BY <2>1 DEF Place, MapOrders
  <2> QED BY <2>1, <2>3, <2>4 DEF Place
<1>3. \A p, q \in R : <<p, q>> \in B <=> Before(p, q)
  OBVIOUS
<1>4. \A a, b \in Node : at[a] = at[b] => a = b
  BY DEF MapOrders
<1>5. IsOrder(R, B)
  <2> HIDE DEF R, B
  <2>1. \A p \in R : ~Before(p, p)
    BY <1>2
  <2>2. ASSUME NEW p \in R, NEW q \in R, p # q PROVE Before(p, q) \/ Before(q, p)
    <3>1. CASE p[1] = q[1]
      <4>1. p[2] # q[2]
        BY <1>2, <2>2, <3>1
      <4>2. p[2] < q[2] \/ q[2] < p[2]
        BY <1>2, <4>1
      <4> QED BY <3>1, <4>2
    <3>2. CASE p[1] # q[1]
      <4>1. at[p[1]] # at[q[1]]
        BY <1>2, <1>4, <3>2
      <4> QED BY <1>2, <4>1
    <3> QED BY <3>1, <3>2
  <2>3. ASSUME NEW p \in R, NEW q \in R, NEW r \in R, Before(p, q), Before(q, r)
        PROVE  Before(p, r)
    <3>1. /\ p[2] \in Nat /\ q[2] \in Nat /\ r[2] \in Nat
          /\ at[p[1]] \in Int /\ at[q[1]] \in Int /\ at[r[1]] \in Int
      BY <1>2
    <3> QED BY <2>3, <3>1
  <2> HIDE DEF Before
  <2> QED BY <1>3, <2>1, <2>2, <2>3 DEF IsOrder
<1> HIDE DEF B, R
<1>6. Sorted(R, B) \in SetToSeqs(R)
  BY <1>1, <1>5, SortedSorts
<1> QED BY <1>1, <1>6 DEF R

\* So the trust in m is one of the sums of its scores, and a double.
LEMMA TrustIsASum ==
    ASSUME NEW h \in Histories, NEW at \in MapOrders, NEW m \in Reviewed(h)
    PROVE  global_trust(h, at)[m] \in Sums(h, m) /\ global_trust(h, at)[m] \in Double
<1> DEFINE R == ReviewsOf(h, m)
           e == Reading(h, m, at)
           s == [i \in DOMAIN e |-> Score(h, e[i])]
<1>1. e \in SetToSeqs(R)
  BY ReadingEnumerates
<1>2. global_trust(h, at)[m] = AddedUp(h, e) /\ AddedUp(h, e) = FoldLeft(Add, 0, s)
  BY DEF global_trust, AddedUp, Score
<1>3. e \in [1..Cardinality(R) -> R] /\ Cardinality(R) \in Nat
  BY <1>1, ReviewsFinite, FS_CardinalityType DEF SetToSeqs
<1>4. s \in [1..Cardinality(R) -> Double]
  <2>1. DOMAIN e = 1..Cardinality(R) /\ \A i \in DOMAIN e : e[i] \in R
    BY <1>3
  <2> HIDE DEF e
  <2> QED BY <2>1, ScoreType
<1>5. FoldLeft(Add, 0, s) \in Double
  <2> HIDE DEF s
  <2> QED BY <1>3, <1>4, AddsToDouble
<1> QED BY <1>1, <1>2, <1>5 DEF Sums

\* Where the records of one history stand in another one that has them too.
Match(h, o, m) ==
    [p \in ReviewsOf(h, m) |->
        <<p[1], CHOOSE j \in DOMAIN o[p[1]] : o[p[1]][j] = h[p[1]][p[2]]>>]

LEMMA MatchPlace ==
    ASSUME NEW h \in Histories, NEW o \in Histories, SameRecords(h, o), NEW m,
           NEW p \in ReviewsOf(h, m)
    PROVE  LET q == Match(h, o, m)[p]
           IN  q \in ReviewsOf(o, m) /\ q[1] = p[1] /\ RecordAt(o, q) = RecordAt(h, p)
<1> DEFINE a == p[1]
           j == CHOOSE k \in DOMAIN o[a] : o[a][k] = RecordAt(h, p)
<1>1. /\ Place(h, p)
      /\ IsReview(RecordAt(h, p)) /\ RecordAt(h, p).kind.target_node = m
  BY ReviewPlace
<1>2. \E k \in DOMAIN o[a] : o[a][k] = RecordAt(h, p)
  <2>1. RecordAt(h, p) \in RecordsIn(h[a])
    BY <1>1 DEF RecordsIn, Place, RecordAt
  <2>2. RecordAt(h, p) \in RecordsIn(o[a])
    BY <1>1, <2>1 DEF SameRecords, Place
  <2> QED BY <2>2 DEF RecordsIn
<1>3. j \in DOMAIN o[a] /\ o[a][j] = RecordAt(h, p)
  BY <1>2
<1>4. Match(h, o, m)[p] = <<a, j>>
  BY DEF Match, RecordAt
<1> HIDE DEF j
<1>5. Place(o, <<a, j>>) /\ RecordAt(o, <<a, j>>) = RecordAt(h, p)
  BY <1>1, <1>3 DEF Place, RecordAt
<1>6. <<a, j>> \in ReviewsOf(o, m)
  BY <1>1, <1>5, ReviewPlace
<1> QED BY <1>4, <1>5, <1>6

\* Two histories of the same records have as many reviews of m, and every sum of the one is a
\* sum of the other.
LEMMA SameSums ==
    ASSUME NEW h \in Histories, NEW o \in Histories, NEW m,
           NoLogRepeats(h), NoLogRepeats(o), SameRecords(h, o)
    PROVE  Sums(h, m) \subseteq Sums(o, m) /\ (ReviewsOf(h, m) = {} <=> ReviewsOf(o, m) = {})
<1> DEFINE S == ReviewsOf(h, m)
           T == ReviewsOf(o, m)
           b == Match(h, o, m)
<1>1. IsFiniteSet(S) /\ IsFiniteSet(T)
  BY ReviewsFinite
<1>2. ASSUME NEW p \in S
      PROVE  b[p] \in T /\ b[p][1] = p[1] /\ RecordAt(o, b[p]) = RecordAt(h, p)
  BY MatchPlace
<1>3. b \in [S -> T]
  BY <1>2 DEF Match
<1>4. ASSUME NEW p \in S, NEW q \in S, b[p] = b[q] PROVE p = q
  <2>1. p[1] = q[1] /\ RecordAt(h, p) = RecordAt(h, q)
    BY <1>2, <1>4
  <2>2. Place(h, p) /\ Place(h, q)
    BY ReviewPlace
  <2> QED BY <2>1, <2>2, OnePlace
<1>5. ASSUME NEW q \in T PROVE \E p \in S : b[p] = q
  <2> SameRecords(o, h)
    BY DEF SameRecords
  <2> DEFINE p == Match(o, h, m)[q]
  <2>1. p \in S /\ p[1] = q[1] /\ RecordAt(h, p) = RecordAt(o, q)
    BY MatchPlace
  <2> HIDE DEF p
  <2>2. b[p] \in T /\ b[p][1] = q[1] /\ RecordAt(o, b[p]) = RecordAt(o, q)
    BY <1>2, <2>1
  <2>3. Place(o, b[p]) /\ Place(o, q)
    BY <2>2, ReviewPlace
  <2>4. b[p] = q
    BY <2>2, <2>3, OnePlace
  <2> QED BY <2>1, <2>4
<1>6. \A p \in S : b[p] \in T /\ Score(o, b[p]) = Score(h, p)
  BY <1>2 DEF Score, RecordAt
<1> HIDE DEF S, T, b
<1>7. Cardinality(S) = Cardinality(T)
  <2>1. b \in Bijection(S, T)
    BY <1>3, <1>4, <1>5 DEF Bijection, Injection, IsInjective, Surjection
  <2>2. ExistsBijection(S, T)
    BY <2>1 DEF ExistsBijection
  <2> QED BY <1>1, <2>2, FS_Bijection
<1>8. ASSUME NEW e \in SetToSeqs(S) PROVE \E f \in SetToSeqs(T) : AddedUp(h, e) = AddedUp(o, f)
  <2> DEFINE N == 1..Cardinality(S)
             f == [i \in N |-> b[e[i]]]
  <2>1. e \in [N -> S] /\ \A i, j \in N : i # j => e[i] # e[j]
    BY DEF SetToSeqs
  <2> HIDE DEF N
  <2>2. DOMAIN e = N /\ DOMAIN f = N /\ \A i \in N : e[i] \in S /\ f[i] = b[e[i]]
    BY <2>1
  <2> HIDE DEF f
  <2>3. \A i, j \in N : i # j => f[i] # f[j]
    BY <1>4, <2>1, <2>2
  <2>4. f \in [N -> T]
    <3>1. \A i \in N : f[i] \in T
      BY <1>6, <2>2
    <3>2. f = [i \in N |-> b[e[i]]]
      BY DEF f
    <3> QED BY <2>2, <3>1, <3>2
  <2>5. f \in SetToSeqs(T)
    BY <1>7, <2>3, <2>4 DEF SetToSeqs, N
  <2>6. [i \in DOMAIN e |-> Score(h, e[i])] = [i \in DOMAIN f |-> Score(o, f[i])]
    BY <1>6, <2>2
  <2>7. /\ AddedUp(h, e) = FoldLeft(Add, 0, [i \in DOMAIN e |-> Score(h, e[i])])
        /\ AddedUp(o, f) = FoldLeft(Add, 0, [i \in DOMAIN f |-> Score(o, f[i])])
    BY DEF AddedUp, Score
  <2> QED BY <2>5, <2>6, <2>7
<1>9. Sums(h, m) \subseteq Sums(o, m)
  BY <1>8 DEF Sums, S, T
<1> QED BY <1>3, <1>5, <1>9 DEF S, T

\* Of participants whose order hangs on no rounding in one history, the sums of another one of
\* the same records, in any order of its map, give the same order.
LEMMA SurePairs ==
    ASSUME NEW h \in Histories, NEW o \in Histories,
           NoLogRepeats(h), NoLogRepeats(o), SameRecords(h, o), NEW at \in MapOrders
    PROVE  /\ Reviewed(h) = Reviewed(o)
           /\ \A p, q \in Reviewed(h) :
                 SurelyBefore(h, p, q) => RanksBefore(global_trust(o, at), p, q)
<1>1. SameRecords(o, h)
  BY DEF SameRecords
<1>2. Reviewed(h) = Reviewed(o)
  BY SameSums DEF Reviewed
<1>3. ASSUME NEW p \in Reviewed(h)
      PROVE  global_trust(o, at)[p] \in Sums(h, p)
  <2>1. global_trust(o, at)[p] \in Sums(o, p)
    BY <1>2, TrustIsASum
  <2>2. Sums(o, p) \subseteq Sums(h, p)
    BY <1>1, SameSums
  <2> QED BY <2>1, <2>2
<1>4. ASSUME NEW p \in Reviewed(h), NEW q \in Reviewed(h), SurelyBefore(h, p, q)
      PROVE  RanksBefore(global_trust(o, at), p, q)
  <2>1. global_trust(o, at)[p] \in Sums(h, p) /\ global_trust(o, at)[q] \in Sums(h, q)
    BY <1>3
  <2> QED BY <1>4, <2>1 DEF SurelyBefore, RanksBefore
<1> QED BY <1>2, <1>4

\* Two nodes that hold the same records rank alike every two participants whose order hangs on
\* no rounding, in whatever order and across whatever crashes the records reached them: no
\* log holds a review twice, so both add up the same scores, each in an order of its own
\* (history.rs:121-128), and equal sums are ordered by the ids.
THEOREM SameRecordsSameCohort == Spec => []CohortAgreement
<1>1. TypeOK /\ NoRepeats => CohortAgreement
  <2> SUFFICES ASSUME TypeOK, NoRepeats, NEW m \in Node, NEW n \in Node,
                      SameRecords(hist[m], hist[n]), NEW at \in MapOrders
               PROVE  \A p, q \in Reviewed(hist[m]) :
                         SurelyBefore(hist[m], p, q)
                            => RanksBefore(global_trust(hist[n], at), p, q)
    BY DEF CohortAgreement
  <2>1. hist[m] \in Histories /\ hist[n] \in Histories
    BY DEF TypeOK, Histories
  <2>2. NoLogRepeats(hist[m]) /\ NoLogRepeats(hist[n])
    BY DEF NoRepeats, NoLogRepeats
  <2> QED BY <2>1, <2>2, SurePairs
<1> QED BY <1>1, TypeCorrect, LogsDoNotRepeat, PTL

-------------------------------------------------------------------------------
(* The order is a strict total one.                                        *)

\* Once the sums of one call are made, the order in which their map hands the participants to
\* the sort does not matter: of two participants exactly one ranks before the other, and no
\* three rank in a circle, however the sums were rounded.
THEOREM RankingIsTotal ==
    ASSUME NEW S \in SUBSET Node, NEW trust \in [S -> Int]
    PROVE  /\ \A m \in S : ~RanksBefore(trust, m, m)
           /\ \A m, o \in S : m # o => (RanksBefore(trust, m, o) <=> ~RanksBefore(trust, o, m))
           /\ \A m, o, p \in S :
                 RanksBefore(trust, m, o) /\ RanksBefore(trust, o, p)
                    => RanksBefore(trust, m, p)
<1>1. \A m \in S : trust[m] \in Int /\ m \in Node
  OBVIOUS
<1>2. ASSUME NEW m, NEW o
      PROVE  RanksBefore(trust, m, o)
                <=> trust[m] > trust[o] \/ (trust[m] = trust[o] /\ IdLess(m, o))
  BY DEF RanksBefore
<1>3. ASSUME NEW m \in S PROVE ~RanksBefore(trust, m, m)
  <2>1. ~(trust[m] > trust[m])
    BY <1>1
  <2> QED BY <1>1, <1>2, <2>1, TrustAssumption, Zenon
<1>4. ASSUME NEW m \in S, NEW o \in S, m # o
      PROVE  RanksBefore(trust, m, o) <=> ~RanksBefore(trust, o, m)
  <2>1. /\ trust[m] > trust[o] => trust[m] # trust[o] /\ ~(trust[o] > trust[m])
        /\ trust[m] # trust[o] => trust[m] > trust[o] \/ trust[o] > trust[m]
        /\ trust[m] = trust[o] => ~(trust[o] > trust[m]) /\ ~(trust[m] > trust[o])
    BY <1>1
  <2>2. IdLess(m, o) <=> ~IdLess(o, m)
    BY <1>1, <1>4, TrustAssumption, Zenon
  <2> QED BY <1>2, <2>1, <2>2, Zenon
<1>5. ASSUME NEW m \in S, NEW o \in S, NEW p \in S,
             RanksBefore(trust, m, o), RanksBefore(trust, o, p)
      PROVE  RanksBefore(trust, m, p)
  <2>1. /\ trust[m] > trust[o] \/ (trust[m] = trust[o] /\ IdLess(m, o))
        /\ trust[o] > trust[p] \/ (trust[o] = trust[p] /\ IdLess(o, p))
    BY <1>2, <1>5
  <2>2. trust[m] > trust[p] \/ (trust[m] = trust[p] /\ IdLess(m, o) /\ IdLess(o, p))
    BY <1>1, <2>1
  <2>3. trust[m] > trust[p] \/ (trust[m] = trust[p] /\ IdLess(m, p))
    BY <1>1, <2>2, TrustAssumption
  <2> QED BY <1>2, <2>3
<1> QED BY <1>3, <1>4, <1>5

Ranking(h, at) ==
    {p \in Reviewed(h) \X Reviewed(h) : RanksBefore(global_trust(h, at), p[1], p[2])}

LEMMA TrustType ==
    ASSUME NEW h \in Histories, NEW at \in MapOrders
    PROVE  Reviewed(h) \in SUBSET Node /\ global_trust(h, at) \in [Reviewed(h) -> Int]
<1>1. \A m \in Reviewed(h) : global_trust(h, at)[m] \in Int
  BY TrustIsASum, TrustAssumption
<1> QED BY <1>1 DEF Reviewed, global_trust

LEMMA RankingOrders ==
    ASSUME NEW h \in Histories, NEW at \in MapOrders
    PROVE  /\ IsFiniteSet(Reviewed(h)) /\ IsOrder(Reviewed(h), Ranking(h, at))
           /\ \A m, o \in Reviewed(h) :
                 <<m, o>> \in Ranking(h, at) <=> RanksBefore(global_trust(h, at), m, o)
<1> DEFINE trust == global_trust(h, at)
<1>1. Reviewed(h) \in SUBSET Node /\ trust \in [Reviewed(h) -> Int]
  BY TrustType
<1>2. IsFiniteSet(Reviewed(h))
  BY <1>1, NodeAssumption, FS_Subset
<1>3. \A m, o \in Reviewed(h) : <<m, o>> \in Ranking(h, at) <=> RanksBefore(trust, m, o)
  BY DEF Ranking
<1> HIDE DEF trust
<1>4. \A m \in Reviewed(h) : ~RanksBefore(trust, m, m)
  BY <1>1, RankingIsTotal
<1>5. \A m, o \in Reviewed(h) : m # o => RanksBefore(trust, m, o) \/ RanksBefore(trust, o, m)
  BY <1>1, RankingIsTotal
<1>6. \A m, o, p \in Reviewed(h) :
         RanksBefore(trust, m, o) /\ RanksBefore(trust, o, p) => RanksBefore(trust, m, p)
  BY <1>1, RankingIsTotal
<1>7. IsOrder(Reviewed(h), Ranking(h, at))
  BY <1>3, <1>4, <1>5, <1>6 DEF IsOrder
<1> QED BY <1>2, <1>3, <1>7 DEF trust

\* No order of adding makes another ranking of h.
Settled(h) ==
    \A p, q \in Reviewed(h) : p # q => SurelyBefore(h, p, q) \/ SurelyBefore(h, q, p)

\* Then every history of the same records has the same cohort.
LEMMA SettledCohort ==
    ASSUME NEW h \in Histories, NEW o \in Histories, Settled(h),
           NoLogRepeats(h), NoLogRepeats(o), SameRecords(h, o),
           NEW at \in MapOrders, NEW bt \in MapOrders
    PROVE  top_trusted_peers(h, at) = top_trusted_peers(o, bt)
<1> DEFINE R == Reviewed(h)
           trust == global_trust(h, at)
           other == global_trust(o, bt)
<1>1. SameRecords(h, h)
  BY DEF SameRecords
<1>2. R = Reviewed(o)
  BY SurePairs
<1>3. R \in SUBSET Node /\ trust \in [R -> Int] /\ other \in [R -> Int]
  BY <1>2, TrustType
<1>4. \A p, q \in R : SurelyBefore(h, p, q) => RanksBefore(trust, p, q)
  BY <1>1, SurePairs
<1>5. \A p, q \in R : SurelyBefore(h, p, q) => RanksBefore(other, p, q)
  BY SurePairs
<1>6. \A p, q \in R : p # q => SurelyBefore(h, p, q) \/ SurelyBefore(h, q, p)
  BY DEF Settled
<1> HIDE DEF R, trust, other
<1>7. ASSUME NEW p \in R, NEW q \in R
      PROVE  RanksBefore(trust, p, q) <=> RanksBefore(other, p, q)
  <2>1. CASE p = q
    <3>1. ~RanksBefore(trust, p, p) /\ ~RanksBefore(other, p, p)
      BY <1>3, RankingIsTotal
    <3> QED BY <2>1, <3>1
  <2>2. CASE p # q
    <3>1. /\ RanksBefore(trust, p, q) <=> ~RanksBefore(trust, q, p)
          /\ RanksBefore(other, p, q) <=> ~RanksBefore(other, q, p)
      BY <1>3, <2>2, RankingIsTotal
    <3> QED BY <1>4, <1>5, <1>6, <2>2, <3>1
  <2> QED BY <2>1, <2>2
<1>8. {p \in R \X R : RanksBefore(trust, p[1], p[2])}
        = {p \in R \X R : RanksBefore(other, p[1], p[2])}
  BY <1>7
<1> QED BY <1>2, <1>8 DEF top_trusted_peers, trust_rankings, R, trust, other

\* Put together: if no process ever stops, then whenever nothing is under way all nodes have
\* the same cohort, without a message that says so, unless a rounding decides a rank.
THEOREM StillMeansAgreed ==
    Spec /\ [](\A n \in Node : Up(n)) =>
        []((\A a, n \in Node : UnderWay(a, n) = {}) =>
              \A m, n \in Node, at, bt \in MapOrders :
                 Settled(hist[m]) => CohortOf(m, at) = CohortOf(n, bt))
<1>1. TypeOK /\ NoRepeats /\ AllShared =>
         \A m, n \in Node, at, bt \in MapOrders :
            Settled(hist[m]) => CohortOf(m, at) = CohortOf(n, bt)
  <2> SUFFICES ASSUME TypeOK, NoRepeats, AllShared, NEW m \in Node, NEW n \in Node,
                      NEW at \in MapOrders, NEW bt \in MapOrders, Settled(hist[m])
               PROVE  top_trusted_peers(hist[m], at) = top_trusted_peers(hist[n], bt)
    BY DEF CohortOf
  <2>1. hist[m] \in Histories /\ hist[n] \in Histories
    BY DEF TypeOK, Histories
  <2>2. NoLogRepeats(hist[m]) /\ NoLogRepeats(hist[n])
    BY DEF NoRepeats, NoLogRepeats
  <2>3. SameRecords(hist[m], hist[n])
    BY DEF AllShared, SameRecords
  <2> QED BY <2>1, <2>2, <2>3, SettledCohort
<1> QED BY <1>1, TypeCorrect, LogsDoNotRepeat, StillMeansShared, PTL

\* The cohort is the top of the ranking: as many of the reviewed participants as asked for, all
\* of them if there are fewer; none is named twice, each ranks before those named after it,
\* and every one of them ranks before everybody who is left out in the sums of the
\* call (history.rs:116-136).
THEOREM CohortIsTheTop ==
    ASSUME NEW h \in Histories, NEW k \in Nat, NEW at \in MapOrders
    PROVE  LET cohort == trust_rankings(h, k, at)
               trust == global_trust(h, at)
           IN  /\ cohort \in Seq(Reviewed(h))
               /\ Len(cohort) <= k
               /\ Len(cohort) = k \/ RecordsIn(cohort) = Reviewed(h)
               /\ \A i, j \in DOMAIN cohort :
                     i < j => cohort[i] # cohort[j] /\ RanksBefore(trust, cohort[i], cohort[j])
               /\ \A i \in DOMAIN cohort, m \in Reviewed(h) \ RecordsIn(cohort) :
                     RanksBefore(trust, cohort[i], m)
<1> DEFINE S == Reviewed(h)
           B == Ranking(h, at)
           trust == global_trust(h, at)
           N == Cardinality(S)
           s == Sorted(S, B)
           n == Min({k, Len(s)})
           cohort == SubSeq(s, 1, n)
<1>1. trust_rankings(h, k, at) = cohort
  BY DEF trust_rankings, Ranking
<1>2. /\ IsFiniteSet(S) /\ IsOrder(S, B) /\ N \in Nat
      /\ \A m, o \in S : <<m, o>> \in B <=> RanksBefore(trust, m, o)
  BY RankingOrders, FS_CardinalityType
<1> HIDE DEF S, B, trust
<1>3. /\ s \in Seq(S) /\ Len(s) = N
      /\ \A i \in 1..N : RankIn(S, B, s[i]) = i - 1
      /\ \A m \in S : RankIn(S, B, m) + 1 \in 1..N /\ s[RankIn(S, B, m) + 1] = m
  BY <1>2, SortedSorts
<1> HIDE DEF s
<1>4. n \in Nat /\ n <= k /\ n <= N /\ (n = k \/ n = N)
  <2>1. {k, Len(s)} \in SUBSET Nat /\ {k, Len(s)} # {}
    BY <1>2, <1>3
  <2>2. n \in {k, Len(s)} /\ \A y \in {k, Len(s)} : n <= y
    BY <2>1, LeastNumber
  <2> QED BY <1>2, <1>3, <2>1, <2>2
<1> HIDE DEF n
<1>5. \A i \in 1..n : i \in 1..N /\ s[i] \in S
  <2>1. \A i \in 1..n : i \in 1..N
    BY <1>2, <1>4
  <2> QED BY <1>3, <2>1, ElementOfSeq
<1>6. cohort \in Seq(S) /\ Len(cohort) = n /\ DOMAIN cohort = 1..n
      /\ \A i \in 1..n : cohort[i] = s[i]
  <2>1. /\ cohort \in Seq(S) /\ Len(cohort) = IF 1 <= n THEN n - 1 + 1 ELSE 0
        /\ \A i \in 1..(n - 1 + 1) : cohort[i] = s[1 + i - 1]
    BY <1>4, <1>5, SubSeqProperties
  <2> HIDE DEF cohort
  <2>2. Len(cohort) = n
    BY <1>4, <2>1
  <2>3. DOMAIN cohort = 1..n
    BY <2>1, <2>2, LenProperties
  <2>4. ASSUME NEW i \in 1..n PROVE cohort[i] = s[i]
    BY <1>4, <2>1
  <2> QED BY <2>1, <2>2, <2>3, <2>4
<1> HIDE DEF cohort
<1>7. RecordsIn(cohort) = {s[i] : i \in 1..n}
  BY <1>6 DEF RecordsIn
<1>8. ASSUME NEW i \in 1..n, NEW m \in S, RankIn(S, B, m) >= i
      PROVE  s[i] # m /\ RanksBefore(trust, s[i], m)
  <2>1. RankIn(S, B, s[i]) = i - 1 /\ s[i] \in S
    BY <1>3, <1>5
  <2>2. RankIn(S, B, m) \in Nat
    BY <1>2, RankInType
  <2>3. RankIn(S, B, s[i]) < RankIn(S, B, m)
    BY <1>8, <2>1, <2>2
  <2>4. <<s[i], m>> \in B
    BY <1>2, <2>1, <2>3, RankInOrders
  <2>5. s[i] # m
    BY <2>1, <2>2, <2>3
  <2> QED BY <1>2, <2>1, <2>4, <2>5
<1>9. ASSUME NEW i \in 1..n, NEW j \in 1..n, i < j
      PROVE  s[i] # s[j] /\ RanksBefore(trust, s[i], s[j])
  <2>1. RankIn(S, B, s[j]) = j - 1 /\ s[j] \in S
    BY <1>3, <1>5
  <2>2. RankIn(S, B, s[j]) >= i
    BY <1>9, <2>1
  <2> QED BY <1>8, <2>1, <2>2
<1>10. ASSUME NEW m \in S, m \notin RecordsIn(cohort) PROVE RankIn(S, B, m) >= n
  <2>1. RankIn(S, B, m) + 1 \in 1..N /\ s[RankIn(S, B, m) + 1] = m
    BY <1>3
  <2>2. RankIn(S, B, m) \in Nat
    BY <1>2, RankInType
  <2>3. RankIn(S, B, m) + 1 \notin 1..n
    BY <1>7, <1>10, <2>1
  <2> QED BY <1>4, <2>2, <2>3
<1>11. ASSUME NEW i \in 1..n, NEW m \in S \ RecordsIn(cohort)
       PROVE  RanksBefore(trust, s[i], m)
  <2>1. RankIn(S, B, m) >= n /\ RankIn(S, B, m) \in Nat
    BY <1>2, <1>10, RankInType
  <2>2. RankIn(S, B, m) >= i
    BY <1>4, <2>1
  <2> QED BY <1>8, <2>2
<1>12. n = k \/ RecordsIn(cohort) = S
  <2>1. CASE n = N
    <3>1. \A m \in S : m \in RecordsIn(cohort)
      <4>1. ASSUME NEW m \in S, m \notin RecordsIn(cohort) PROVE FALSE
        <5>1. RankIn(S, B, m) >= N /\ RankIn(S, B, m) \in Nat /\ RankIn(S, B, m) < N
          BY <1>2, <1>10, <2>1, <4>1, RankInType
        <5> QED BY <1>2, <5>1
      <4> QED BY <4>1
    <3>2. RecordsIn(cohort) \subseteq S
      BY <1>5, <1>7
    <3> QED BY <3>1, <3>2
  <2> QED BY <1>4, <2>1
<1> QED BY <1>1, <1>4, <1>6, <1>9, <1>11, <1>12 DEF S, trust
===============================================================================
