--------------------------- MODULE Federation_proofs ---------------------------
(***************************************************************************)
(* Theorems about Federation for every set of nodes, every score, every    *)
(* number of rounds, failures and crashes.                                 *)
(***************************************************************************)
EXTENDS Federation, SequenceTheorems, FiniteSetTheorems, WellFoundedInduction, TLAPS

-------------------------------------------------------------------------------
(* What the operations of History return and preserve, for every log and   *)
(* every record.                                                           *)

\* A nonempty set of naturals with an upper bound has a greatest element.
LEMMA GreatestElement ==
    ASSUME NEW S \in SUBSET Nat, S # {}, NEW b \in Nat, \A i \in S : i <= b
    PROVE  \E m \in S : \A i \in S : i <= m
<1> DEFINE Bounds == {u \in Nat : \A i \in S : i <= u}
<1>1. Bounds # {} /\ Bounds \subseteq Nat
  OBVIOUS
<1>2. PICK u \in Bounds : \A v \in Bounds : ~ (<<v, u>> \in OpToRel(<, Nat))
  BY <1>1, NatLessThanWellFounded, WFMin
<1>3. \A v \in Bounds : ~ (v < u)
  BY <1>1, <1>2 DEF OpToRel
<1>4. u \in S
  <2>1. SUFFICES ASSUME u \notin S PROVE FALSE
    OBVIOUS
  <2>2. PICK i \in S : TRUE
    OBVIOUS
  <2>3. u - 1 \in Bounds
    BY <2>1, <2>2
  <2> QED BY <2>3, <1>3
<1> QED BY <1>4

\* The latest position is one of an update, and none is later.
LEMMA LatestPositionIsLast ==
    ASSUME NEW log \in Seq(UpdateRecord), UpdatePositions(log) # {}
    PROVE  /\ LatestPosition(log) \in UpdatePositions(log)
           /\ \A j \in UpdatePositions(log) : j <= LatestPosition(log)
<1>1. Len(log) \in Nat /\ DOMAIN log = 1..Len(log)
  BY LenProperties
<1>2. UpdatePositions(log) \in SUBSET Nat /\ \A i \in UpdatePositions(log) : i <= Len(log)
  BY <1>1 DEF UpdatePositions
<1>3. \E m \in UpdatePositions(log) : \A i \in UpdatePositions(log) : i <= m
  BY <1>1, <1>2, GreatestElement
<1> QED BY <1>3 DEF LatestPosition

\* What a staged file or a review names is the empty hash or the hash of an update on the log.
LEMMA LatestUpdateHashIsOfUpdate ==
    ASSUME NEW log \in Seq(UpdateRecord)
    PROVE  \/ LatestUpdateHash(log) = NoHash /\ UpdatePositions(log) = {}
           \/ \E r \in RecordsIn(log) : IsUpdate(r) /\ LatestUpdateHash(log) = r.hash
<1>1. CASE UpdatePositions(log) = {}
  BY <1>1 DEF LatestUpdateHash
<1>2. CASE UpdatePositions(log) # {}
  <2>1. LatestPosition(log) \in UpdatePositions(log)
    BY <1>2, LatestPositionIsLast
  <2> QED BY <1>2, <2>1 DEF LatestUpdateHash, UpdatePositions, RecordsIn
<1> QED BY <1>1, <1>2

\* The records of a log are records.
LEMMA RecordsInType ==
    ASSUME NEW S, NEW log \in Seq(S)
    PROVE  RecordsIn(log) \subseteq S
BY LenProperties, ElementOfSeq DEF RecordsIn

\* An empty log has no records.
LEMMA RecordsInEmpty == RecordsIn(<<>>) = {}
BY DEF RecordsIn

\* Appending adds one record.
LEMMA RecordsInAppend ==
    ASSUME NEW S, NEW log \in Seq(S), NEW r \in S
    PROVE  RecordsIn(Append(log, r)) = RecordsIn(log) \union {r}
<1>1. /\ Len(log) \in Nat /\ DOMAIN log = 1..Len(log)
      /\ DOMAIN Append(log, r) = 1..(Len(log) + 1)
  BY LenProperties, AppendProperties
<1> QED BY <1>1, AppendProperties DEF RecordsIn

\* Concatenation has the records of both.
LEMMA RecordsInConcat ==
    ASSUME NEW S, NEW s \in Seq(S), NEW t \in Seq(S)
    PROVE  RecordsIn(s \o t) = RecordsIn(s) \union RecordsIn(t)
<1>1. /\ Len(s) \in Nat /\ DOMAIN s = 1..Len(s)
      /\ Len(t) \in Nat /\ DOMAIN t = 1..Len(t)
      /\ DOMAIN (s \o t) = 1..(Len(s) + Len(t))
  BY LenProperties, ConcatProperties
<1>2. \A i \in DOMAIN t : (s \o t)[i + Len(s)] = t[i]
  BY <1>1, ConcatProperties
<1>3. RecordsIn(t) \subseteq RecordsIn(s \o t)
  <2>1. SUFFICES ASSUME NEW i \in DOMAIN t PROVE t[i] \in RecordsIn(s \o t)
    BY DEF RecordsIn
  <2>2. i + Len(s) \in DOMAIN (s \o t)
    BY <1>1
  <2> QED BY <1>2, <2>2 DEF RecordsIn
<1>4. RecordsIn(s) \subseteq RecordsIn(s \o t)
  BY <1>1, ConcatProperties DEF RecordsIn
<1>5. RecordsIn(s \o t) \subseteq RecordsIn(s) \union RecordsIn(t)
  BY <1>1, ConcatProperties DEF RecordsIn
<1> QED BY <1>3, <1>4, <1>5

\* Taking the first record off leaves the others.
LEMMA RecordsInTail ==
    ASSUME NEW S, NEW s \in Seq(S), s # <<>>
    PROVE  Head(s) \in RecordsIn(s) /\ RecordsIn(Tail(s)) \subseteq RecordsIn(s)
<1>1. /\ Len(s) \in Nat \ {0} /\ DOMAIN s = 1..Len(s)
      /\ Tail(s) \in Seq(S) /\ Len(Tail(s)) = Len(s) - 1
      /\ DOMAIN Tail(s) = 1..(Len(s) - 1)
  BY LenProperties, EmptySeq, HeadTailProperties
<1>2. Head(s) = s[1]
  OBVIOUS
<1> QED BY <1>1, <1>2, HeadTailProperties DEF RecordsIn

\* record_update keeps the shape of a history and only ever adds the given record, to its
\* author's log, and only an intact one.
LEMMA RecordUpdateAdds ==
    ASSUME NEW h \in [Node -> Seq(UpdateRecord)], NEW r \in UpdateRecord, NEW a \in Node
    PROVE  /\ record_update(h, r) \in [Node -> Seq(UpdateRecord)]
           /\ \A x \in RecordsIn(record_update(h, r)[a]) :
                 x \in RecordsIn(h[a]) \/ (x = r /\ Intact(r) /\ a = r.node_id)
<1>1. r.node_id \in Node
  BY DEF UpdateRecord
<1>2. CASE Intact(r)
  <2>1. Append(h[r.node_id], r) \in Seq(UpdateRecord)
    BY <1>1, AppendProperties
  <2>2. RecordsIn(Append(h[r.node_id], r)) = RecordsIn(h[r.node_id]) \union {r}
    BY <1>1, RecordsInAppend
  <2>3. record_update(h, r) = [h EXCEPT ![r.node_id] = Append(h[r.node_id], r)]
    BY <1>2 DEF record_update
  <2> QED BY <1>1, <1>2, <2>1, <2>2, <2>3
<1>3. CASE ~Intact(r)
  BY <1>3 DEF record_update
<1> QED BY <1>2, <1>3

-------------------------------------------------------------------------------
(* The records the loop builds.                                            *)

\* The update of a successful round is an intact record of the node.
LEMMA UpdateOfType ==
    ASSUME NEW n \in Node, NEW prev \in Hash \union {Genesis}, NEW c \in Nat
    PROVE  /\ UpdateOf(n, prev, c) \in UpdateRecord
           /\ Intact(UpdateOf(n, prev, c))
           /\ UpdateOf(n, prev, c).node_id = n
           /\ IsUpdate(UpdateOf(n, prev, c))
BY DEF UpdateOf, UpdateRecord, ModelUpdate, Intact, calculate_hash, IsUpdate, Hash

\* The update of a failed round is a record of the node, and not an intact one.
LEMMA FailedUpdateType ==
    ASSUME NEW n \in Node, NEW prev \in Hash \union {Genesis}
    PROVE  /\ FailedUpdate(n, prev) \in UpdateRecord
           /\ ~Intact(FailedUpdate(n, prev))
           /\ FailedUpdate(n, prev).node_id = n
<1>1. UpdateOf(n, prev, 0) \in UpdateRecord /\ UpdateOf(n, prev, 0).node_id = n
  BY UpdateOfType
<1>2. FailedUpdate(n, prev) \in UpdateRecord /\ FailedUpdate(n, prev).node_id = n
      /\ FailedUpdate(n, prev).hash = NoHash /\ FailedUpdate(n, prev).content = 0
  BY <1>1 DEF FailedUpdate, UpdateRecord, UpdateOf
<1>3. <<n, 0>> \in Hash
  BY DEF Hash
<1> QED BY <1>2, <1>3, HashAssumption DEF Intact, calculate_hash

\* A review is an intact record of the node.
LEMMA ReviewOfType ==
    ASSUME NEW n \in Node, NEW prev \in Hash \union {Genesis}, NEW c \in Nat,
           NEW target \in Node, NEW update \in Hash, NEW score \in Weight
    PROVE  LET r == ReviewOf(n, prev, c, target, update, score) IN
           /\ r \in UpdateRecord
           /\ Intact(r)
           /\ r.node_id = n
           /\ IsReview(r)
BY DEF ReviewOf, UpdateRecord, PeerReview, Intact, calculate_hash, IsReview, Hash

\* The tail of a log of intact records is a hash a record can be chained to.
LEMMA TailHashType ==
    ASSUME NEW log \in Seq(UpdateRecord), \A r \in RecordsIn(log) : Intact(r)
    PROVE  TailHash(log) \in Hash \union {Genesis}
<1>1. CASE log = <<>>
  BY <1>1 DEF TailHash
<1>2. CASE log # <<>>
  <2>1. Len(log) \in DOMAIN log
    BY <1>2, LenProperties, EmptySeq
  <2>2. log[Len(log)] \in UpdateRecord /\ Intact(log[Len(log)])
    BY <2>1, RecordsInType DEF RecordsIn
  <2>3. log[Len(log)].hash \in Hash
    BY <2>2 DEF Intact, calculate_hash, UpdateRecord, Hash
  <2> QED BY <1>2, <2>3 DEF TailHash
<1> QED BY <1>1, <1>2

-------------------------------------------------------------------------------
(* Type correctness.  It is not inductive by itself: the tail of a log is  *)
(* a hash a record can be chained to only if the log holds intact records. *)

\* Only records whose hash is right are on a log.
HistIntact ==
    \A n, a \in Node : \A r \in RecordsIn(hist[n][a]) : Intact(r)

TypeInv == TypeOK /\ HistIntact

\* The tail of a node's own log can be chained to.
LEMMA OwnTailType ==
    ASSUME TypeInv, NEW n \in Node
    PROVE  TailHash(hist[n][n]) \in Hash \union {Genesis}
<1>1. hist[n][n] \in Seq(UpdateRecord) /\ \A r \in RecordsIn(hist[n][n]) : Intact(r)
  BY DEF TypeInv, TypeOK, HistIntact
<1> QED BY <1>1, TailHashType

\* A peer whose update is on record has a latest update with a hash.
LEMMA LatestUpdateHashType ==
    ASSUME TypeInv, NEW n \in Node, NEW m \in Node
    PROVE  /\ LatestUpdateHash(hist[n][m]) \in Hash \union {NoHash}
           /\ UpdatePositions(hist[n][m]) # {} => LatestUpdateHash(hist[n][m]) \in Hash
<1>1. hist[n][m] \in Seq(UpdateRecord) /\ \A r \in RecordsIn(hist[n][m]) : Intact(r)
  BY DEF TypeInv, TypeOK, HistIntact
<1>2. ASSUME NEW r \in RecordsIn(hist[n][m]) PROVE r.hash \in Hash
  <2>1. r \in UpdateRecord /\ Intact(r)
    BY <1>1, RecordsInType
  <2> QED BY <2>1 DEF Intact, calculate_hash, UpdateRecord, Hash
<1> QED BY <1>1, <1>2, LatestUpdateHashIsOfUpdate

\* Every order of the reviewed peers is a sequence of peers with an update on record.
LEMMA OrderType ==
    ASSUME TypeOK, NEW n \in Node, NEW order \in Orders(Reviewable(n))
    PROVE  \E k \in Nat : order \in [1..k -> Reviewable(n)]
<1>1. Reviewable(n) \subseteq Node
  BY DEF Reviewable, TypeOK
<1>2. Cardinality(Reviewable(n)) \in Nat
  BY <1>1, NodeAssumption, FS_Subset, FS_CardinalityType
<1> QED BY <1>2 DEF Orders

\* The reviews of a round are intact records of the node.
LEMMA ReviewsType ==
    ASSUME TypeInv, NEW n \in Node,
           NEW order \in Orders(Reviewable(n)), NEW score \in [Reviewable(n) -> Weight]
    PROVE  /\ Reviews(n, order, score) \in Seq(UpdateRecord)
           /\ \A r \in RecordsIn(Reviews(n, order, score)) : Intact(r) /\ r.node_id = n
<1>1. PICK k \in Nat : order \in [1..k -> Reviewable(n)]
  BY OrderType DEF TypeInv
<1>2. ASSUME NEW i \in 1..k
      PROVE  /\ Reviews(n, order, score)[i] \in UpdateRecord
             /\ Intact(Reviews(n, order, score)[i])
             /\ Reviews(n, order, score)[i].node_id = n
  <2>1. order[i] \in Reviewable(n) /\ score[order[i]] \in Weight
    BY <1>1
  <2>2. order[i] \in Node /\ LatestUpdateHash(hist[n][order[i]]) \in Hash
    BY <2>1, LatestUpdateHashType DEF Reviewable, TypeInv, TypeOK
  <2>3. made[n] + 1 + i \in Nat /\ <<n, made[n] + i>> \in Hash
    BY <1>1 DEF TypeInv, TypeOK, Hash
  <2>4. Reviews(n, order, score)[i] =
            ReviewOf(n, <<n, made[n] + i>>, made[n] + 1 + i, order[i],
                     LatestUpdateHash(hist[n][order[i]]), score[order[i]])
    BY <1>1 DEF Reviews
  <2> QED BY <2>1, <2>2, <2>3, <2>4, ReviewOfType
<1>3. DOMAIN Reviews(n, order, score) = 1..k
  BY <1>1 DEF Reviews
<1>4. Reviews(n, order, score) \in [1..k -> UpdateRecord]
  BY <1>2, <1>3 DEF Reviews
<1>5. Reviews(n, order, score) \in Seq(UpdateRecord)
  BY <1>4, SeqDef
<1> QED BY <1>2, <1>3, <1>5 DEF RecordsIn

\* So is all a successful round builds.
LEMMA BuiltType ==
    ASSUME TypeInv, NEW n \in Node,
           NEW order \in Orders(Reviewable(n)), NEW score \in [Reviewable(n) -> Weight]
    PROVE  LET update == UpdateOf(n, TailHash(hist[n][n]), made[n] + 1)
               built  == <<update>> \o Reviews(n, order, score)
           IN  /\ built \in Seq(UpdateRecord)
               /\ \A r \in RecordsIn(built) : Intact(r) /\ r.node_id = n
               /\ RecordsIn(built) = {update} \union RecordsIn(Reviews(n, order, score))
<1> DEFINE update  == UpdateOf(n, TailHash(hist[n][n]), made[n] + 1)
           first   == <<update>>
           reviews == Reviews(n, order, score)
<1>1. made[n] + 1 \in Nat /\ TailHash(hist[n][n]) \in Hash \union {Genesis}
  BY OwnTailType DEF TypeInv, TypeOK
<1>2. update \in UpdateRecord /\ Intact(update) /\ update.node_id = n
  BY <1>1, UpdateOfType
<1>3. /\ reviews \in Seq(UpdateRecord)
      /\ \A r \in RecordsIn(reviews) : Intact(r) /\ r.node_id = n
  BY ReviewsType
<1> HIDE DEF update, reviews
<1>4. first \in Seq(UpdateRecord) /\ RecordsIn(first) = {update}
  BY <1>2 DEF RecordsIn
<1> HIDE DEF first
<1>5. first \o reviews \in Seq(UpdateRecord)
  BY <1>3, <1>4, ConcatProperties
<1>6. RecordsIn(first \o reviews) = {update} \union RecordsIn(reviews)
  BY <1>3, <1>4, RecordsInConcat
<1>7. \A r \in RecordsIn(first \o reviews) : Intact(r) /\ r.node_id = n
  BY <1>2, <1>3, <1>6
<1> QED BY <1>5, <1>6, <1>7 DEF update, first, reviews

\* Recording an arriving or an own record keeps the shape of all histories.
LEMMA RecordingType ==
    ASSUME TypeInv, NEW n \in Node, NEW r \in UpdateRecord,
           hist' = [hist EXCEPT ![n] = record_update(hist[n], r)]
    PROVE  hist' \in [Node -> [Node -> Seq(UpdateRecord)]] /\ HistIntact'
<1>1. hist[n] \in [Node -> Seq(UpdateRecord)]
  BY DEF TypeInv, TypeOK
<1>2. record_update(hist[n], r) \in [Node -> Seq(UpdateRecord)]
  <2>1. CASE Node = {}
    BY <2>1
  <2>2. CASE Node # {}
    BY <1>1, <2>2, RecordUpdateAdds
  <2> QED BY <2>1, <2>2
<1>3. hist' \in [Node -> [Node -> Seq(UpdateRecord)]]
  BY <1>2 DEF TypeInv, TypeOK
<1>4. ASSUME NEW m \in Node, NEW a \in Node, NEW x \in RecordsIn(hist'[m][a])
      PROVE  Intact(x)
  <2>1. CASE m = n
    <3>1. hist'[m][a] = record_update(hist[n], r)[a]
      BY <2>1 DEF TypeInv, TypeOK
    <3>2. \A y \in RecordsIn(record_update(hist[n], r)[a]) :
              y \in RecordsIn(hist[n][a]) \/ (y = r /\ Intact(r) /\ a = r.node_id)
      BY <1>1, RecordUpdateAdds
    <3> QED BY <1>4, <3>1, <3>2 DEF TypeInv, HistIntact
  <2>2. CASE m # n
    <3>1. hist'[m][a] = hist[m][a]
      BY <2>2 DEF TypeInv, TypeOK
    <3> QED BY <1>4, <3>1 DEF TypeInv, HistIntact
  <2> QED BY <2>1, <2>2
<1> QED BY <1>3, <1>4 DEF HistIntact

\* What is left of a history when the process is gone has the right shape too.
LEMMA ForgettingType ==
    ASSUME TypeInv, NEW n \in Node, LoseMemory(n)
    PROVE  /\ hist' \in [Node -> [Node -> Seq(UpdateRecord)]]
           /\ HistIntact'
           /\ args' \in [Node -> SUBSET Node]
           /\ pending' \in [Node -> Seq(UpdateRecord)]
           /\ written' \in [Node -> Nat]
           /\ is_final' \in [Node -> BOOLEAN]
           /\ completed' \in [Node -> Nat]
           /\ outbox' \in [Node -> Seq(UpdateRecord)]
           /\ wire' \in [Node -> SUBSET UpdateRecord]
<1>1. <<>> \in Seq(UpdateRecord)
  BY EmptySeq
<1>2. hist' \in [Node -> [Node -> Seq(UpdateRecord)]]
  BY <1>1 DEF LoseMemory, EmptyHistory, TypeInv, TypeOK
<1>3. ASSUME NEW m \in Node, NEW a \in Node, NEW x \in RecordsIn(hist'[m][a])
      PROVE  Intact(x)
  <2>1. CASE m = n
    <3>1. hist'[m][a] = <<>>
      BY <2>1 DEF LoseMemory, EmptyHistory, TypeInv, TypeOK
    <3> QED BY <1>3, <3>1, RecordsInEmpty
  <2>2. CASE m # n
    <3>1. hist'[m][a] = hist[m][a]
      BY <2>2 DEF LoseMemory, TypeInv, TypeOK
    <3> QED BY <1>3, <3>1 DEF TypeInv, HistIntact
  <2> QED BY <2>1, <2>2
<1>4. HistIntact'
  BY <1>3 DEF HistIntact
<1> QED BY <1>1, <1>2, <1>4 DEF LoseMemory, TypeInv, TypeOK

\* The initial state is of its type.
LEMMA InitType == Init => TypeInv
<1> SUFFICES ASSUME Init PROVE TypeInv
  OBVIOUS
<1>1. <<>> \in Seq(UpdateRecord)
  BY EmptySeq
<1>2. TypeOK
  BY <1>1 DEF Init, TypeOK, EmptyHistory, Stopped
<1>3. HistIntact
  BY RecordsInEmpty DEF Init, HistIntact, EmptyHistory
<1> QED BY <1>2, <1>3 DEF TypeInv

\* Every step keeps the type.
LEMMA NextType == TypeInv /\ [Next]_vars => TypeInv'
<1> SUFFICES ASSUME TypeInv, [Next]_vars PROVE TypeInv'
  OBVIOUS
<1> USE DEF Goto, TypeInv
<1>1. ASSUME UNCHANGED hist PROVE HistIntact'
  BY <1>1 DEF HistIntact
<1>2. ASSUME NEW n \in Node, Stage(n) PROVE TypeInv'
  <2>1. \A m \in Node : /\ LatestUpdateHash(hist[n][m]) \in Hash \union {NoHash}
                        /\ files[n][m] \in Hash \union {NoHash}
    BY LatestUpdateHashType DEF TypeOK
  <2>2. StagedFiles(n) \in [Node -> Hash \union {NoHash}]
    BY <2>1 DEF StagedFiles
  <2>3. /\ files' = [files EXCEPT ![n] = StagedFiles(n)]
        /\ files \in [Node -> [Node -> Hash \union {NoHash}]]
        /\ passes' = passes + 1
    BY <1>2 DEF Stage, TypeOK
  <2>4. files' \in [Node -> [Node -> Hash \union {NoHash}]]
    BY <2>2, <2>3
  <2>5. TypeOK'
    BY <1>2, <2>3, <2>4 DEF Stage, TypeOK, meshVars
  <2> QED BY <1>1, <1>2, <2>5 DEF Stage
<1>3. ASSUME NEW n \in Node, Launch(n) PROVE TypeInv'
  <2>1. TypeOK'
    BY <1>3 DEF Launch, Participants, TypeOK, meshVars, diskVars, auxVars
  <2> QED BY <1>1, <1>3, <2>1 DEF Launch
<1>4. ASSUME NEW n \in Node, EngineOutput(n) PROVE TypeInv'
  <2>1. PICK order \in Orders(Reviewable(n)), score \in [Reviewable(n) -> Weight] :
            LET update == UpdateOf(n, TailHash(hist[n][n]), made[n] + 1)
                built  == <<update>> \o Reviews(n, order, score)
            IN  /\ pending' = [pending EXCEPT ![n] = built]
                /\ made' = [made EXCEPT ![n] = @ + Len(built)]
                /\ ledger' = [ledger EXCEPT ![n] = @ \union RecordsIn(built)]
    BY <1>4 DEF EngineOutput
  <2> DEFINE built == <<UpdateOf(n, TailHash(hist[n][n]), made[n] + 1)>>
                         \o Reviews(n, order, score)
  <2>2. built \in Seq(UpdateRecord)
    BY BuiltType
  <2>3. Len(built) \in Nat /\ RecordsIn(built) \subseteq UpdateRecord
    BY <2>2, LenProperties, RecordsInType
  <2>4. /\ pending' = [pending EXCEPT ![n] = built]
        /\ made' = [made EXCEPT ![n] = @ + Len(built)]
        /\ ledger' = [ledger EXCEPT ![n] = @ \union RecordsIn(built)]
    BY <2>1
  <2> HIDE DEF built
  <2>5. /\ pending' \in [Node -> Seq(UpdateRecord)]
        /\ made' \in [Node -> Nat]
        /\ ledger' \in [Node -> SUBSET UpdateRecord]
    BY <2>2, <2>3, <2>4 DEF TypeOK
  <2>6. Finish(n, engine_round[n] + 1) \in BOOLEAN
    BY DEF Finish
  <2>7. is_final' \in [Node -> BOOLEAN]
    BY <1>4, <2>6 DEF EngineOutput, TypeOK
  <2>8. engine_round' \in [Node -> Nat] /\ completed' \in [Node -> Nat]
    BY <1>4 DEF EngineOutput, TypeOK
  <2>9. /\ pc' = [pc EXCEPT ![n] = "Recording"]
        /\ written' = [written EXCEPT ![n] = 0]
        /\ UNCHANGED <<args, hist, outbox, wire, files, db_round, passes, faults>>
    BY <1>4 DEF EngineOutput, meshVars
  <2>10. TypeOK'
    BY <2>5, <2>7, <2>8, <2>9 DEF TypeOK
  <2> QED BY <1>1, <2>9, <2>10
<1>5. ASSUME NEW n \in Node, EngineFailure(n) PROVE TypeInv'
  <2>1. <<FailedUpdate(n, TailHash(hist[n][n]))>> \in Seq(UpdateRecord)
    BY OwnTailType, FailedUpdateType
  <2>2. engine_round' \in [Node -> Nat]
    BY <1>5 DEF EngineFailure, RoundLeft, TypeOK
  <2>3. /\ faults' = faults + 1
        /\ is_final' = [is_final EXCEPT ![n] = FALSE]
        /\ completed' = [completed EXCEPT ![n] = @ + 1]
        /\ pending' = [pending EXCEPT ![n] = <<FailedUpdate(n, TailHash(hist[n][n]))>>]
        /\ written' = [written EXCEPT ![n] = 0]
        /\ pc' = [pc EXCEPT ![n] = "Recording"]
        /\ UNCHANGED <<args, hist, outbox, wire, files, db_round, made, ledger, passes>>
    BY <1>5 DEF EngineFailure, meshVars
  <2>4. pending' \in [Node -> Seq(UpdateRecord)]
    BY <2>1, <2>3 DEF TypeOK
  <2>5. TypeOK'
    BY <2>2, <2>3, <2>4 DEF TypeOK
  <2> QED BY <1>1, <2>3, <2>5
<1>6. ASSUME NEW n \in Node, RecordNext(n) PROVE TypeInv'
  <2>1. pending[n][written[n] + 1] \in UpdateRecord
    <3>1. pending[n] \in Seq(UpdateRecord) /\ written[n] + 1 \in 1..Len(pending[n])
      BY <1>6, LenProperties DEF RecordNext, TypeOK
    <3> QED BY <3>1, ElementOfSeq
  <2>2. hist' \in [Node -> [Node -> Seq(UpdateRecord)]] /\ HistIntact'
    BY <1>6, <2>1, RecordingType DEF RecordNext
  <2>3. /\ written' = [written EXCEPT ![n] = @ + 1]
        /\ UNCHANGED <<pc, args, pending, is_final, completed, outbox, wire, files, db_round,
                       engine_round, made, ledger, passes, faults>>
    BY <1>6 DEF RecordNext, meshVars, diskVars, auxVars
  <2>4. TypeOK'
    BY <2>2, <2>3 DEF TypeOK
  <2> QED BY <2>2, <2>4
<1>7. ASSUME NEW n \in Node, Announce(n) PROVE TypeInv'
  <2>1. outbox[n] \o pending[n] \in Seq(UpdateRecord) /\ <<>> \in Seq(UpdateRecord)
    BY ConcatProperties, EmptySeq DEF TypeOK
  <2>2. TypeOK'
    BY <1>7, <2>1 DEF Announce, TypeOK, diskVars, auxVars
  <2> QED BY <1>1, <1>7, <2>2 DEF Announce
<1>8. ASSUME NEW n \in Node, SetRound(n) PROVE TypeInv'
  <2>1. TypeOK'
    BY <1>8 DEF SetRound, TypeOK, meshVars, auxVars
  <2> QED BY <1>1, <1>8, <2>1 DEF SetRound
<1>9. ASSUME NEW n \in Node, Rank(n) PROVE TypeInv'
  <2>1. TypeOK'
    BY <1>9 DEF Rank, TypeOK, meshVars, diskVars, auxVars
  <2> QED BY <1>1, <1>9, <2>1 DEF Rank
<1>10. ASSUME NEW n \in Node, Exit(n) PROVE TypeInv'
  BY <1>10, ForgettingType DEF Exit, TypeOK, Stopped, diskVars, auxVars
<1>11. ASSUME NEW n \in Node, Broadcast(n) PROVE TypeInv'
  <2>1. Head(outbox[n]) \in UpdateRecord /\ Tail(outbox[n]) \in Seq(UpdateRecord)
    BY <1>11, HeadTailProperties DEF Broadcast, TypeOK
  <2>2. TypeOK'
    BY <1>11, <2>1 DEF Broadcast, TypeOK, loopVars, diskVars, auxVars
  <2> QED BY <1>1, <1>11, <2>2 DEF Broadcast
<1>12. ASSUME NEW n \in Node, Receive(n) PROVE TypeInv'
  <2>1. PICK r \in wire[n] : /\ hist' = [hist EXCEPT ![n] = record_update(@, r)]
                             /\ wire' = [wire EXCEPT ![n] = @ \ {r}]
    BY <1>12 DEF Receive
  <2>2. r \in UpdateRecord
    BY DEF TypeOK
  <2>3. hist' \in [Node -> [Node -> Seq(UpdateRecord)]] /\ HistIntact'
    BY <2>1, <2>2, RecordingType
  <2> QED BY <1>12, <2>1, <2>3 DEF Receive, TypeOK, loopVars, diskVars, auxVars
<1>13. ASSUME NEW n \in Node, Crash(n) PROVE TypeInv'
  <2>1. engine_round' \in [Node -> Nat]
    BY <1>13 DEF Crash, RoundLeft, TypeOK
  <2>2. LoseMemory(n)
    BY <1>13 DEF Crash
  <2>3. /\ pc' = [pc EXCEPT ![n] = "Down"]
        /\ faults' = faults + 1
        /\ UNCHANGED <<files, db_round, made, ledger, passes>>
    BY <1>13 DEF Crash
  <2>4. /\ hist' \in [Node -> [Node -> Seq(UpdateRecord)]]
        /\ args' \in [Node -> SUBSET Node]
        /\ pending' \in [Node -> Seq(UpdateRecord)]
        /\ written' \in [Node -> Nat]
        /\ is_final' \in [Node -> BOOLEAN]
        /\ completed' \in [Node -> Nat]
        /\ outbox' \in [Node -> Seq(UpdateRecord)]
        /\ wire' \in [Node -> SUBSET UpdateRecord]
        /\ HistIntact'
    BY <2>2, ForgettingType
  <2>5. pc' \in [Node -> {"Clock", "Staged", "Training", "Recording", "Announced",
                           "Barrier"} \union Stopped]
    BY <2>3 DEF TypeOK, Stopped
  <2>6. /\ files' \in [Node -> [Node -> Hash \union {NoHash}]]
        /\ db_round' \in [Node -> Nat]
        /\ made' \in [Node -> Nat]
        /\ ledger' \in [Node -> SUBSET UpdateRecord]
        /\ passes' \in Nat
        /\ faults' \in Nat
    BY <2>3 DEF TypeOK
  <2>7. TypeOK'
    BY <2>1, <2>4, <2>5, <2>6 DEF TypeOK
  <2> QED BY <2>4, <2>7
<1>14. ASSUME NEW n \in Node, Restart(n) PROVE TypeInv'
  <2>1. TypeOK'
    BY <1>14 DEF Restart, TypeOK, meshVars, diskVars, auxVars
  <2> QED BY <1>1, <1>14, <2>1 DEF Restart
<1>15. ASSUME UNCHANGED vars PROVE TypeInv'
  BY <1>15 DEF vars, loopVars, meshVars, diskVars, auxVars, TypeOK, HistIntact
<1> QED
  BY <1>2, <1>3, <1>4, <1>5, <1>6, <1>7, <1>8, <1>9, <1>10, <1>11, <1>12, <1>13, <1>14,
     <1>15 DEF Next, Loop, Mesh

\* Every reachable state is of its type, and every log holds only records whose hash is
\* that of their contents, however the loops, the mesh and the crashes interleave.
THEOREM TypeCorrect == Spec => []TypeOK
<1>1. TypeInv => TypeOK
  BY DEF TypeInv
<1> QED BY <1>1, InitType, NextType, PTL DEF Spec

-------------------------------------------------------------------------------
(* Provenance.  OnlyGenuine becomes inductive with what is on its way to a *)
(* log: an intact record, wherever it waits, is in its author's ledger.    *)

Genuine(r) == Intact(r) => r \in ledger[r.node_id]

InFlight(n) == RecordsIn(pending[n]) \union RecordsIn(outbox[n]) \union wire[n]

GenuineInv ==
    /\ OnlyGenuine
    /\ \A n \in Node : \A r \in InFlight(n) : Genuine(r)

\* Nothing leaves a ledger.
LEMMA LedgerGrows ==
    ASSUME TypeInv, [Next]_vars
    PROVE  \A a \in Node : ledger[a] \subseteq ledger'[a]
<1>1. ASSUME NEW n \in Node, EngineOutput(n)
      PROVE  \A a \in Node : ledger[a] \subseteq ledger'[a]
  <2>1. \E S : ledger' = [ledger EXCEPT ![n] = @ \union S]
    BY <1>1 DEF EngineOutput
  <2> QED BY <2>1 DEF TypeInv, TypeOK
<1>2. ASSUME \A n \in Node : ~EngineOutput(n) PROVE UNCHANGED ledger
  BY <1>2 DEF Next, Loop, Mesh, Stage, Launch, EngineFailure, RecordNext, Announce, SetRound,
     Rank, Exit, Broadcast, Receive, Crash, Restart, vars, auxVars
<1> QED BY <1>1, <1>2

\* A record that is genuine stays so.
LEMMA GenuineStays ==
    ASSUME TypeInv, [Next]_vars, NEW r \in UpdateRecord, Genuine(r)
    PROVE  Genuine(r)'
<1>1. r.node_id \in Node
  BY DEF UpdateRecord
<1> QED BY <1>1, LedgerGrows DEF Genuine

\* What a node records is genuine if the record was.
LEMMA RecordingGenuine ==
    ASSUME TypeInv, GenuineInv, [Next]_vars, NEW n \in Node, NEW r \in UpdateRecord, Genuine(r),
           hist' = [hist EXCEPT ![n] = record_update(hist[n], r)]
    PROVE  OnlyGenuine'
<1> SUFFICES ASSUME NEW m \in Node, NEW a \in Node, NEW x \in RecordsIn(hist'[m][a])
             PROVE  x \in ledger'[a]
  BY DEF OnlyGenuine
<1>1. RecordsIn(hist[m][a]) \subseteq ledger'[a]
  BY LedgerGrows DEF GenuineInv, OnlyGenuine
<1>2. CASE m = n
  <2>1. hist'[m][a] = record_update(hist[n], r)[a] /\ hist[n] \in [Node -> Seq(UpdateRecord)]
    BY <1>2 DEF TypeInv, TypeOK
  <2>2. x \in RecordsIn(hist[n][a]) \/ (x = r /\ Intact(r) /\ a = r.node_id)
    <3>1. \A y \in RecordsIn(record_update(hist[n], r)[a]) :
              y \in RecordsIn(hist[n][a]) \/ (y = r /\ Intact(r) /\ a = r.node_id)
      BY <2>1, RecordUpdateAdds
    <3> QED BY <2>1, <3>1
  <2> QED BY <1>1, <1>2, <2>2, LedgerGrows DEF Genuine
<1>3. CASE m # n
  <2>1. hist'[m][a] = hist[m][a]
    BY <1>3 DEF TypeInv, TypeOK
  <2> QED BY <1>1, <2>1
<1> QED BY <1>2, <1>3

\* A node that forgets keeps nothing that is not genuine.
LEMMA ForgettingGenuine ==
    ASSUME TypeInv, GenuineInv, NEW n \in Node, LoseMemory(n), UNCHANGED ledger
    PROVE  GenuineInv'
<1>1. OnlyGenuine'
  <2> SUFFICES ASSUME NEW m \in Node, NEW a \in Node
               PROVE  RecordsIn(hist'[m][a]) \subseteq ledger[a]
    BY DEF OnlyGenuine
  <2>1. CASE m = n
    <3>1. hist'[m][a] = <<>>
      BY <2>1 DEF LoseMemory, EmptyHistory, TypeInv, TypeOK
    <3> QED BY <3>1, RecordsInEmpty
  <2>2. CASE m # n
    <3>1. hist'[m][a] = hist[m][a]
      BY <2>2 DEF LoseMemory, TypeInv, TypeOK
    <3> QED BY <3>1 DEF GenuineInv, OnlyGenuine
  <2> QED BY <2>1, <2>2
<1>2. ASSUME NEW m \in Node, NEW r \in InFlight(m)' PROVE Genuine(r)'
  <2>1. CASE m = n
    <3>1. pending'[m] = <<>> /\ outbox'[m] = <<>> /\ wire'[m] = {}
      BY <2>1 DEF LoseMemory, TypeInv, TypeOK
    <3> QED BY <1>2, <3>1, RecordsInEmpty DEF InFlight
  <2>2. CASE m # n
    <3>1. pending'[m] = pending[m] /\ outbox'[m] = outbox[m] /\ wire'[m] = wire[m]
      BY <2>2 DEF LoseMemory, TypeInv, TypeOK
    <3> QED BY <1>2, <3>1 DEF InFlight, GenuineInv, Genuine
  <2> QED BY <2>1, <2>2
<1> QED BY <1>1, <1>2 DEF GenuineInv

\* At first nothing is recorded and nothing is under way.
LEMMA InitGenuine == Init => GenuineInv
BY RecordsInEmpty DEF Init, EmptyHistory, GenuineInv, OnlyGenuine, InFlight

\* Every step keeps what is recorded and what is under way genuine.
LEMMA NextGenuine == TypeInv /\ GenuineInv /\ [Next]_vars => GenuineInv'
<1> SUFFICES ASSUME TypeInv, GenuineInv, [Next]_vars PROVE GenuineInv'
  OBVIOUS
<1>1. TypeInv'
  BY NextType
<1>2. ASSUME NEW m \in Node, NEW r \in InFlight(m) PROVE r \in UpdateRecord /\ Genuine(r)'
  <2>1. r \in UpdateRecord
    BY <1>2, RecordsInType DEF InFlight, TypeInv, TypeOK
  <2>2. Genuine(r)
    BY <1>2 DEF GenuineInv
  <2> QED BY <2>1, <2>2, GenuineStays
<1>3. ASSUME UNCHANGED hist PROVE OnlyGenuine'
  BY <1>3, LedgerGrows DEF GenuineInv, OnlyGenuine
<1>4. ASSUME UNCHANGED <<hist, pending, outbox, wire>> PROVE GenuineInv'
  BY <1>2, <1>3, <1>4 DEF InFlight, GenuineInv
\* A pass builds new records for a single node.
<1>5. ASSUME NEW n \in Node, NEW built \in Seq(UpdateRecord),
             UNCHANGED <<hist, outbox, wire>>, pending' = [pending EXCEPT ![n] = built],
             \A r \in RecordsIn(built) : Genuine(r)'
      PROVE  GenuineInv'
  <2>1. ASSUME NEW m \in Node, NEW r \in InFlight(m)' PROVE Genuine(r)'
    <3>1. r \in RecordsIn(pending'[m]) \/ r \in InFlight(m)
      BY <1>5, <2>1 DEF InFlight
    <3>2. CASE m = n
      BY <1>2, <1>5, <3>1, <3>2 DEF TypeInv, TypeOK
    <3>3. CASE m # n
      <4>1. pending'[m] = pending[m]
        BY <1>5, <3>3 DEF TypeInv, TypeOK
      <4> QED BY <1>2, <3>1, <4>1 DEF InFlight
    <3> QED BY <3>2, <3>3
  <2> QED BY <1>3, <1>5, <2>1 DEF GenuineInv
<1>6. ASSUME NEW n \in Node, EngineOutput(n) PROVE GenuineInv'
  <2>1. PICK order \in Orders(Reviewable(n)), score \in [Reviewable(n) -> Weight] :
            LET update == UpdateOf(n, TailHash(hist[n][n]), made[n] + 1)
                built  == <<update>> \o Reviews(n, order, score)
            IN  /\ pending' = [pending EXCEPT ![n] = built]
                /\ made' = [made EXCEPT ![n] = @ + Len(built)]
                /\ ledger' = [ledger EXCEPT ![n] = @ \union RecordsIn(built)]
    BY <1>6 DEF EngineOutput
  <2> DEFINE built == <<UpdateOf(n, TailHash(hist[n][n]), made[n] + 1)>>
                         \o Reviews(n, order, score)
  <2>2. built \in Seq(UpdateRecord) /\ \A r \in RecordsIn(built) : r.node_id = n
    BY BuiltType
  <2>3. /\ pending' = [pending EXCEPT ![n] = built]
        /\ ledger' = [ledger EXCEPT ![n] = @ \union RecordsIn(built)]
    BY <2>1
  <2> HIDE DEF built
  <2>4. \A r \in RecordsIn(built) : Genuine(r)'
    BY <2>2, <2>3 DEF Genuine, TypeInv, TypeOK
  <2>5. UNCHANGED <<hist, outbox, wire>>
    BY <1>6 DEF EngineOutput, meshVars
  <2> QED BY <1>5, <2>2, <2>3, <2>4, <2>5
<1>7. ASSUME NEW n \in Node, EngineFailure(n) PROVE GenuineInv'
  <2> DEFINE failed == FailedUpdate(n, TailHash(hist[n][n]))
             built  == <<failed>>
  <2>1. failed \in UpdateRecord /\ ~Intact(failed)
    BY OwnTailType, FailedUpdateType
  <2>2. pending' = [pending EXCEPT ![n] = built] /\ UNCHANGED <<hist, outbox, wire>>
    BY <1>7 DEF EngineFailure, meshVars
  <2> HIDE DEF failed
  <2>3. built \in Seq(UpdateRecord) /\ RecordsIn(built) = {failed}
    BY <2>1 DEF RecordsIn
  <2>4. \A r \in RecordsIn(built) : Genuine(r)'
    BY <2>1, <2>3 DEF Genuine
  <2> QED BY <1>5, <2>2, <2>3, <2>4
<1>8. ASSUME NEW n \in Node, RecordNext(n) PROVE GenuineInv'
  <2> DEFINE r == pending[n][written[n] + 1]
  <2>1. r \in RecordsIn(pending[n]) /\ r \in UpdateRecord
    <3>1. pending[n] \in Seq(UpdateRecord) /\ written[n] + 1 \in 1..Len(pending[n])
      BY <1>8, LenProperties DEF RecordNext, TypeInv, TypeOK
    <3> QED BY <3>1, ElementOfSeq, LenProperties DEF RecordsIn
  <2>2. Genuine(r)
    BY <2>1 DEF GenuineInv, InFlight
  <2>3. hist' = [hist EXCEPT ![n] = record_update(hist[n], r)]
    BY <1>8 DEF RecordNext
  <2> HIDE DEF r
  <2>4. OnlyGenuine'
    BY <2>1, <2>2, <2>3, RecordingGenuine
  <2>5. UNCHANGED <<pending, outbox, wire>>
    BY <1>8 DEF RecordNext, meshVars
  <2> QED BY <1>2, <2>4, <2>5 DEF GenuineInv, InFlight
<1>9. ASSUME NEW n \in Node, Announce(n) PROVE GenuineInv'
  <2>1. /\ outbox' = [outbox EXCEPT ![n] = outbox[n] \o pending[n]]
        /\ pending' = [pending EXCEPT ![n] = <<>>]
        /\ UNCHANGED <<hist, wire>>
    BY <1>9 DEF Announce
  <2>2. RecordsIn(outbox[n] \o pending[n]) = RecordsIn(outbox[n]) \union RecordsIn(pending[n])
    BY RecordsInConcat DEF TypeInv, TypeOK
  <2>3. ASSUME NEW m \in Node PROVE InFlight(m)' \subseteq InFlight(m)
    BY <2>1, <2>2, RecordsInEmpty DEF InFlight, TypeInv, TypeOK
  <2> QED BY <1>2, <1>3, <2>1, <2>3 DEF GenuineInv
<1>10. ASSUME NEW n \in Node, Broadcast(n) PROVE GenuineInv'
  <2>1. /\ Head(outbox[n]) \in RecordsIn(outbox[n])
        /\ RecordsIn(Tail(outbox[n])) \subseteq RecordsIn(outbox[n])
    BY <1>10, RecordsInTail DEF Broadcast, TypeInv, TypeOK
  <2>2. ASSUME NEW m \in Node, NEW r \in InFlight(m)' PROVE r \in InFlight(m) \union InFlight(n)
    BY <1>10, <2>1, <2>2 DEF Broadcast, InFlight, TypeInv, TypeOK, loopVars
  <2> QED BY <1>2, <1>3, <1>10, <2>2 DEF GenuineInv, Broadcast
<1>11. ASSUME NEW n \in Node, Receive(n) PROVE GenuineInv'
  <2>1. PICK r \in wire[n] : /\ hist' = [hist EXCEPT ![n] = record_update(hist[n], r)]
                             /\ wire' = [wire EXCEPT ![n] = wire[n] \ {r}]
    BY <1>11 DEF Receive
  <2>2. r \in UpdateRecord /\ Genuine(r)
    BY DEF TypeInv, TypeOK, GenuineInv, InFlight
  <2>3. OnlyGenuine'
    BY <2>1, <2>2, RecordingGenuine
  <2>4. ASSUME NEW m \in Node PROVE InFlight(m)' \subseteq InFlight(m)
    BY <1>11, <2>1 DEF Receive, InFlight, TypeInv, TypeOK, loopVars
  <2> QED BY <1>2, <2>3, <2>4 DEF GenuineInv
<1>12. ASSUME NEW n \in Node, Exit(n) \/ Crash(n) PROVE GenuineInv'
  BY <1>12, ForgettingGenuine DEF Exit, Crash, auxVars
<1>13. ASSUME NEW n \in Node,
              Stage(n) \/ Launch(n) \/ SetRound(n) \/ Rank(n) \/ Restart(n)
       PROVE  UNCHANGED <<hist, pending, outbox, wire>>
  BY <1>13 DEF Stage, Launch, SetRound, Rank, Restart, meshVars
<1>14. ASSUME UNCHANGED vars PROVE UNCHANGED <<hist, pending, outbox, wire>>
  BY <1>14 DEF vars, loopVars, meshVars
<1> QED
  BY <1>4, <1>6, <1>7, <1>8, <1>9, <1>10, <1>11, <1>12, <1>13, <1>14 DEF Next, Loop, Mesh

\* No log, on any node and at any time, holds anything its author's successful rounds did
\* not produce: what record_update accepts is what was built, failed rounds are left out.
THEOREM OnlyGenuineRecords == Spec => []OnlyGenuine
<1>1. TypeInv /\ GenuineInv => OnlyGenuine
  BY DEF GenuineInv
<1> QED BY <1>1, InitType, NextType, InitGenuine, NextGenuine, PTL DEF Spec

-------------------------------------------------------------------------------
(* What is staged and what reviews name: hashes of updates that were       *)
(* produced, because what a history holds was.                             *)

\* The latest update on record was produced by its author.
LEMMA LatestUpdateIsProduced ==
    ASSUME TypeInv, GenuineInv, NEW n \in Node, NEW m \in Node,
           UpdatePositions(hist[n][m]) # {}
    PROVE  \E u \in ledger[m] : IsUpdate(u) /\ u.hash = LatestUpdateHash(hist[n][m])
<1>1. hist[n][m] \in Seq(UpdateRecord)
  BY DEF TypeInv, TypeOK
<1>2. PICK u \in RecordsIn(hist[n][m]) : IsUpdate(u) /\ LatestUpdateHash(hist[n][m]) = u.hash
  BY <1>1, LatestUpdateHashIsOfUpdate
<1> QED BY <1>2 DEF GenuineInv, OnlyGenuine

\* What a review names, and that the peer it is about has an update on record.
LEMMA ReviewNames ==
    ASSUME TypeInv, NEW n \in Node,
           NEW order \in Orders(Reviewable(n)), NEW score \in [Reviewable(n) -> Weight],
           NEW r \in RecordsIn(Reviews(n, order, score))
    PROVE  /\ r.kind.target_node \in Node
           /\ UpdatePositions(hist[n][r.kind.target_node]) # {}
           /\ r.kind.update_hash = LatestUpdateHash(hist[n][r.kind.target_node])
<1>1. PICK k \in Nat : order \in [1..k -> Reviewable(n)]
  BY OrderType DEF TypeInv
<1>2. PICK i \in 1..k : r = Reviews(n, order, score)[i]
  BY <1>1 DEF RecordsIn, Reviews
<1>3. r.kind.target_node = order[i] /\ r.kind.update_hash = LatestUpdateHash(hist[n][order[i]])
  BY <1>1, <1>2 DEF Reviews, ReviewOf
<1>4. order[i] \in Node /\ UpdatePositions(hist[n][order[i]]) # {}
  BY <1>1 DEF Reviewable, TypeInv, TypeOK
<1> QED BY <1>3, <1>4

\* Every step keeps the staged files genuine.
LEMMA NextStaged ==
    ASSUME TypeInv, GenuineInv, StagedGenuine, [Next]_vars
    PROVE  StagedGenuine'
<1>1. ASSUME NEW n \in Node, NEW m \in Node, files'[n][m] # NoHash,
             files'[n][m] = files[n][m]
      PROVE  m # n /\ \E u \in ledger'[m] : IsUpdate(u) /\ u.hash = files'[n][m]
  <2>1. m # n /\ \E u \in ledger[m] : IsUpdate(u) /\ u.hash = files[n][m]
    BY <1>1 DEF StagedGenuine
  <2> QED BY <1>1, <2>1, LedgerGrows
<1>2. ASSUME NEW k \in Node, Stage(k) PROVE StagedGenuine'
  <2> SUFFICES ASSUME NEW n \in Node, NEW m \in Node, files'[n][m] # NoHash
               PROVE  m # n /\ \E u \in ledger'[m] : IsUpdate(u) /\ u.hash = files'[n][m]
    BY DEF StagedGenuine
  <2>1. files' = [files EXCEPT ![k] = StagedFiles(k)]
    BY <1>2 DEF Stage
  <2>2. CASE n = k /\ m # n /\ UpdatePositions(hist[n][m]) # {}
    <3>1. files'[n][m] = LatestUpdateHash(hist[n][m])
      BY <2>1, <2>2 DEF StagedFiles, TypeInv, TypeOK
    <3> QED BY <2>2, <3>1, LatestUpdateIsProduced, LedgerGrows
  <2>3. CASE ~ (n = k /\ m # n /\ UpdatePositions(hist[n][m]) # {})
    <3>1. files'[n][m] = files[n][m]
      BY <2>1, <2>3 DEF StagedFiles, TypeInv, TypeOK
    <3> QED BY <1>1, <3>1
  <2> QED BY <2>2, <2>3
<1>3. ASSUME \A k \in Node : ~Stage(k) PROVE UNCHANGED files
  BY <1>3 DEF Next, Loop, Mesh, Launch, EngineOutput, EngineFailure, RecordNext, Announce,
     SetRound, Rank, Exit, Broadcast, Receive, Crash, Restart, vars, diskVars
<1>4. ASSUME UNCHANGED files PROVE StagedGenuine'
  BY <1>1, <1>4 DEF StagedGenuine
<1> QED BY <1>2, <1>3, <1>4

\* Every step keeps the reviews anchored.
LEMMA NextAnchored ==
    ASSUME TypeInv, GenuineInv, ReviewsAnchored, [Next]_vars
    PROVE  ReviewsAnchored'
<1> DEFINE Anchored(r) == \E u \in ledger[r.kind.target_node] :
                              IsUpdate(u) /\ u.hash = r.kind.update_hash
<1>1. ASSUME NEW n \in Node, NEW r \in ledger[n], IsReview(r) PROVE Anchored(r)'
  <2>1. r \in UpdateRecord
    BY <1>1 DEF TypeInv, TypeOK
  <2>2. r.kind.target_node \in Node
    BY <1>1, <2>1 DEF UpdateRecord, ModelUpdate, PeerReview, IsReview
  <2>3. Anchored(r)
    BY <1>1 DEF ReviewsAnchored
  <2> QED BY <2>2, <2>3, LedgerGrows
<1>2. ASSUME NEW k \in Node, EngineOutput(k) PROVE ReviewsAnchored'
  <2> SUFFICES ASSUME NEW n \in Node, NEW r \in ledger'[n], IsReview(r)
               PROVE  Anchored(r)'
    BY DEF ReviewsAnchored
  <2>1. PICK order \in Orders(Reviewable(k)), score \in [Reviewable(k) -> Weight] :
            LET update == UpdateOf(k, TailHash(hist[k][k]), made[k] + 1)
                built  == <<update>> \o Reviews(k, order, score)
            IN  /\ pending' = [pending EXCEPT ![k] = built]
                /\ made' = [made EXCEPT ![k] = @ + Len(built)]
                /\ ledger' = [ledger EXCEPT ![k] = @ \union RecordsIn(built)]
    BY <1>2 DEF EngineOutput
  <2> DEFINE update == UpdateOf(k, TailHash(hist[k][k]), made[k] + 1)
             built  == <<update>> \o Reviews(k, order, score)
  <2>2. RecordsIn(built) = {update} \union RecordsIn(Reviews(k, order, score))
    BY BuiltType
  <2>3. ~IsReview(update)
    BY DEF IsReview, UpdateOf
  <2>4. ledger' = [ledger EXCEPT ![k] = @ \union RecordsIn(built)]
    BY <2>1
  <2> HIDE DEF update, built
  <2>5. r \in ledger[n] \/ r \in RecordsIn(Reviews(k, order, score))
    BY <2>2, <2>3, <2>4 DEF TypeInv, TypeOK
  <2>6. CASE r \in RecordsIn(Reviews(k, order, score))
    <3>1. /\ r.kind.target_node \in Node
          /\ UpdatePositions(hist[k][r.kind.target_node]) # {}
          /\ r.kind.update_hash = LatestUpdateHash(hist[k][r.kind.target_node])
      BY <2>6, ReviewNames
    <3>2. Anchored(r)
      BY <3>1, LatestUpdateIsProduced
    <3> QED BY <3>1, <3>2, LedgerGrows
  <2> QED BY <1>1, <2>5, <2>6
<1>3. ASSUME \A k \in Node : ~EngineOutput(k) PROVE UNCHANGED ledger
  BY <1>3 DEF Next, Loop, Mesh, Stage, Launch, EngineFailure, RecordNext, Announce, SetRound,
     Rank, Exit, Broadcast, Receive, Crash, Restart, vars, auxVars
<1>4. ASSUME UNCHANGED ledger PROVE ReviewsAnchored'
  BY <1>4 DEF ReviewsAnchored
<1> QED BY <1>2, <1>3, <1>4

\* What the ML engine finds staged under a peer's name is a delta of that peer's successful
\* rounds, however old: across failures, crashes and restarts of either.
THEOREM StagedDeltasGenuine == Spec => []StagedGenuine
<1>1. Init => StagedGenuine
  BY DEF Init, StagedGenuine
<1>2. TypeInv /\ GenuineInv /\ StagedGenuine /\ [Next]_vars => StagedGenuine'
  BY NextStaged
<1> QED BY <1>1, <1>2, InitType, NextType, InitGenuine, NextGenuine, PTL DEF Spec

\* Every review ever written names a model update its target produced, though the history
\* it is looked up in has changed since the engine was started.
THEOREM ReviewsAreAnchored == Spec => []ReviewsAnchored
<1>1. Init => ReviewsAnchored
  BY DEF Init, ReviewsAnchored
<1>2. TypeInv /\ GenuineInv /\ ReviewsAnchored /\ [Next]_vars => ReviewsAnchored'
  BY NextAnchored
<1> QED BY <1>1, <1>2, InitType, NextType, InitGenuine, NextGenuine, PTL DEF Spec

-------------------------------------------------------------------------------
(* The node's own log is a hash chain.  The chain is continued by what     *)
(* waits in pending: each record names the one before it, the next one to  *)
(* be recorded names the tail, and a failed update waits alone.  Nobody    *)
(* else appends to the log, because no record comes back to its author.    *)

Chained(log) ==
    \A i \in DOMAIN log : log[i].prev_hash = IF i = 1 THEN Genesis ELSE log[i - 1].hash

PendingChained(n) ==
    /\ \A i \in DOMAIN pending[n] :
          i > 1 => pending[n][i].prev_hash = pending[n][i - 1].hash
    /\ written[n] < Len(pending[n]) =>
          pending[n][written[n] + 1].prev_hash = TailHash(hist[n][n])
    /\ Len(pending[n]) > 1 => \A i \in DOMAIN pending[n] : Intact(pending[n][i])

NoEcho(n) ==
    /\ \A r \in RecordsIn(pending[n]) \union RecordsIn(outbox[n]) : r.node_id = n
    /\ \A r \in wire[n] : r.node_id # n

NodeChain(n) == Chained(hist[n][n]) /\ PendingChained(n) /\ NoEcho(n)

ChainInv == \A n \in Node : NodeChain(n)

\* A chain is continued by a record that names its tail.
LEMMA ChainedAppend ==
    ASSUME NEW log \in Seq(UpdateRecord), NEW r \in UpdateRecord,
           Chained(log), r.prev_hash = TailHash(log)
    PROVE  Chained(Append(log, r)) /\ TailHash(Append(log, r)) = r.hash
<1> DEFINE longer == Append(log, r)
<1>1. /\ Len(log) \in Nat /\ DOMAIN log = 1..Len(log)
      /\ longer \in Seq(UpdateRecord) /\ longer # <<>>
      /\ Len(longer) = Len(log) + 1 /\ DOMAIN longer = 1..(Len(log) + 1)
      /\ \A i \in 1..Len(log) : longer[i] = log[i]
      /\ longer[Len(log) + 1] = r
  BY LenProperties, AppendProperties
<1> HIDE DEF longer
<1>2. TailHash(longer) = r.hash
  BY <1>1 DEF TailHash
<1>3. ASSUME NEW i \in 1..(Len(log) + 1)
      PROVE  longer[i].prev_hash = IF i = 1 THEN Genesis ELSE longer[i - 1].hash
  <2>1. CASE i <= Len(log)
    BY <1>1, <2>1 DEF Chained
  <2>2. CASE i = Len(log) + 1 /\ log = <<>>
    BY <1>1, <2>2 DEF TailHash
  <2>3. CASE i = Len(log) + 1 /\ log # <<>>
    <3>1. Len(log) # 0
      BY <2>3, EmptySeq
    <3> QED BY <1>1, <2>3, <3>1 DEF TailHash
  <2> QED BY <1>1, <2>1, <2>2, <2>3
<1> QED BY <1>1, <1>2, <1>3 DEF Chained, longer

\* A node whose own log, pending records and outbox stay keeps its chain, if nothing of its
\* own is on its wire.
LEMMA ChainUndisturbed ==
    ASSUME NEW m \in Node, NodeChain(m),
           hist'[m][m] = hist[m][m], pending'[m] = pending[m], written'[m] = written[m],
           outbox'[m] = outbox[m], \A r \in wire'[m] : r.node_id # m
    PROVE  NodeChain(m)'
BY DEF NodeChain, PendingChained, NoEcho

\* A node that has just built its records: they continue the chain.
LEMMA ChainBuilt ==
    ASSUME TypeInv, ChainInv, NEW n \in Node, NEW built \in Seq(UpdateRecord),
           pending' = [pending EXCEPT ![n] = built], written' = [written EXCEPT ![n] = 0],
           UNCHANGED <<hist, outbox, wire>>,
           \A r \in RecordsIn(built) : r.node_id = n,
           \A i \in DOMAIN built : i > 1 => built[i].prev_hash = built[i - 1].hash,
           Len(built) > 0 => built[1].prev_hash = TailHash(hist[n][n]),
           Len(built) > 1 => \A i \in DOMAIN built : Intact(built[i])
    PROVE  ChainInv'
<1> SUFFICES ASSUME NEW m \in Node PROVE NodeChain(m)'
  BY DEF ChainInv
<1>1. NodeChain(m)
  BY DEF ChainInv
<1>2. CASE m = n
  <2>1. pending'[m] = built /\ written'[m] = 0
    BY <1>2 DEF TypeInv, TypeOK
  <2>2. Chained(hist'[m][m])
    BY <1>1 DEF NodeChain
  <2>3. PendingChained(m)'
    BY <1>2, <2>1 DEF PendingChained
  <2>4. NoEcho(m)'
    BY <1>1, <1>2, <2>1 DEF NodeChain, NoEcho
  <2> QED BY <2>2, <2>3, <2>4 DEF NodeChain
<1>3. CASE m # n
  <2>1. pending'[m] = pending[m] /\ written'[m] = written[m]
    BY <1>3 DEF TypeInv, TypeOK
  <2> QED BY <1>1, <2>1, ChainUndisturbed DEF NodeChain, NoEcho
<1> QED BY <1>2, <1>3

\* The records of a successful round continue the chain.
LEMMA BuiltChained ==
    ASSUME TypeInv, NEW n \in Node,
           NEW order \in Orders(Reviewable(n)), NEW score \in [Reviewable(n) -> Weight]
    PROVE  LET built == <<UpdateOf(n, TailHash(hist[n][n]), made[n] + 1)>>
                           \o Reviews(n, order, score)
           IN  /\ \A i \in DOMAIN built : i > 1 => built[i].prev_hash = built[i - 1].hash
               /\ built[1].prev_hash = TailHash(hist[n][n])
               /\ \A i \in DOMAIN built : Intact(built[i])
<1> DEFINE first   == <<UpdateOf(n, TailHash(hist[n][n]), made[n] + 1)>>
           reviews == Reviews(n, order, score)
           built   == first \o reviews
<1>1. PICK k \in Nat : order \in [1..k -> Reviewable(n)]
  BY OrderType DEF TypeInv
<1>2. made[n] \in Nat
  BY DEF TypeInv, TypeOK
<1>3. /\ first \in Seq(UpdateRecord) /\ Len(first) = 1
      /\ first[1].prev_hash = TailHash(hist[n][n]) /\ first[1].hash = <<n, made[n] + 1>>
  <2>1. UpdateOf(n, TailHash(hist[n][n]), made[n] + 1) \in UpdateRecord
    BY <1>2, OwnTailType, UpdateOfType
  <2> QED BY <2>1 DEF UpdateOf
<1>4. /\ reviews \in Seq(UpdateRecord) /\ Len(reviews) = k
      /\ \A i \in 1..k : /\ reviews[i].prev_hash = <<n, made[n] + i>>
                         /\ reviews[i].hash = <<n, made[n] + 1 + i>>
  <2>1. reviews \in Seq(UpdateRecord) /\ DOMAIN reviews = 1..k
    BY <1>1, ReviewsType DEF Reviews
  <2>2. Len(reviews) = k
    BY <1>1, <2>1, LenProperties
  <2> QED BY <1>1, <2>1, <2>2 DEF Reviews, ReviewOf
<1>5. built \in Seq(UpdateRecord) /\ \A r \in RecordsIn(built) : Intact(r)
  BY BuiltType
<1> HIDE DEF first, reviews
<1>6. /\ Len(built) = 1 + k /\ DOMAIN built = 1..(1 + k)
      /\ built[1] = first[1]
      /\ \A i \in 2..(1 + k) : built[i] = reviews[i - 1]
  <2>1. /\ Len(built) = Len(first) + Len(reviews)
        /\ \A i \in 1..(Len(first) + Len(reviews)) :
              built[i] = IF i <= Len(first) THEN first[i] ELSE reviews[i - Len(first)]
    BY <1>3, <1>4, ConcatProperties
  <2>2. DOMAIN built = 1..Len(built)
    BY <1>5, LenProperties
  <2> QED BY <1>1, <1>3, <1>4, <2>1, <2>2
<1>7. \A i \in DOMAIN built : Intact(built[i])
  BY <1>5 DEF RecordsIn
<1> HIDE DEF built
<1>8. ASSUME NEW i \in 2..(1 + k) PROVE built[i].prev_hash = built[i - 1].hash
  <2>1. built[i].prev_hash = <<n, made[n] + (i - 1)>>
    BY <1>1, <1>4, <1>6
  <2>2. CASE i = 2
    BY <1>2, <1>3, <1>6, <2>1, <2>2
  <2>3. CASE i > 2
    <3>1. i - 1 \in 2..(1 + k) /\ i - 2 \in 1..k /\ (i - 1) - 1 = i - 2
      BY <1>1, <2>3
    <3>2. built[i - 1].hash = <<n, made[n] + 1 + (i - 2)>>
      BY <1>4, <1>6, <3>1
    <3>3. made[n] + 1 + (i - 2) = made[n] + (i - 1)
      BY <1>1, <1>2
    <3> QED BY <2>1, <3>2, <3>3
  <2> QED BY <1>1, <2>2, <2>3
<1>9. \A i \in DOMAIN built : i > 1 => built[i].prev_hash = built[i - 1].hash
  BY <1>1, <1>6, <1>8
<1> QED BY <1>3, <1>6, <1>7, <1>9 DEF built, first, reviews

\* At first all chains are empty.
LEMMA InitChain == Init => ChainInv
<1> SUFFICES ASSUME Init, NEW n \in Node PROVE NodeChain(n)
  BY DEF ChainInv
<1>1. hist[n][n] = <<>> /\ pending[n] = <<>> /\ outbox[n] = <<>> /\ wire[n] = {}
  BY DEF Init, EmptyHistory
<1>2. written[n] = 0 /\ DOMAIN <<>> = {} /\ Len(<<>>) = 0
  BY EmptySeq DEF Init
<1> QED BY <1>1, <1>2, RecordsInEmpty DEF NodeChain, Chained, PendingChained, NoEcho

\* A node that forgets starts a chain anew.
LEMMA ForgettingChain ==
    ASSUME TypeInv, ChainInv, NEW n \in Node, LoseMemory(n)
    PROVE  ChainInv'
<1> SUFFICES ASSUME NEW m \in Node PROVE NodeChain(m)'
  BY DEF ChainInv
<1>1. CASE m = n
  <2>1. /\ hist'[m][m] = <<>> /\ pending'[m] = <<>> /\ outbox'[m] = <<>>
        /\ wire'[m] = {} /\ written'[m] = 0
    BY <1>1 DEF LoseMemory, EmptyHistory, TypeInv, TypeOK
  <2>2. DOMAIN <<>> = {} /\ Len(<<>>) = 0
    BY EmptySeq
  <2> QED BY <2>1, <2>2, RecordsInEmpty DEF NodeChain, Chained, PendingChained, NoEcho
<1>2. CASE m # n
  <2>1. /\ hist'[m] = hist[m] /\ pending'[m] = pending[m] /\ outbox'[m] = outbox[m]
        /\ wire'[m] = wire[m] /\ written'[m] = written[m]
    BY <1>2 DEF LoseMemory, TypeInv, TypeOK
  <2>2. NodeChain(m)
    BY DEF ChainInv
  <2> QED BY <2>1, <2>2, ChainUndisturbed DEF NodeChain, NoEcho
<1> QED BY <1>1, <1>2

\* Every step keeps or continues the chains.
LEMMA NextChain == TypeInv /\ ChainInv /\ [Next]_vars => ChainInv'
<1> SUFFICES ASSUME TypeInv, ChainInv, [Next]_vars PROVE ChainInv'
  OBVIOUS
<1>1. \A m \in Node : NodeChain(m) /\ \A r \in wire[m] : r.node_id # m
  BY DEF ChainInv, NodeChain, NoEcho
<1>2. ASSUME UNCHANGED <<hist, pending, written, outbox, wire>> PROVE ChainInv'
  BY <1>1, <1>2, ChainUndisturbed DEF ChainInv
<1>3. ASSUME NEW n \in Node, EngineOutput(n) PROVE ChainInv'
  <2>1. PICK order \in Orders(Reviewable(n)), score \in [Reviewable(n) -> Weight] :
            LET update == UpdateOf(n, TailHash(hist[n][n]), made[n] + 1)
                built  == <<update>> \o Reviews(n, order, score)
            IN  /\ pending' = [pending EXCEPT ![n] = built]
                /\ made' = [made EXCEPT ![n] = @ + Len(built)]
                /\ ledger' = [ledger EXCEPT ![n] = @ \union RecordsIn(built)]
    BY <1>3 DEF EngineOutput
  <2> DEFINE built == <<UpdateOf(n, TailHash(hist[n][n]), made[n] + 1)>>
                         \o Reviews(n, order, score)
  <2>2. built \in Seq(UpdateRecord) /\ \A r \in RecordsIn(built) : r.node_id = n
    BY BuiltType
  <2>3. /\ \A i \in DOMAIN built : i > 1 => built[i].prev_hash = built[i - 1].hash
        /\ built[1].prev_hash = TailHash(hist[n][n])
        /\ \A i \in DOMAIN built : Intact(built[i])
    BY BuiltChained
  <2>4. /\ pending' = [pending EXCEPT ![n] = built]
        /\ written' = [written EXCEPT ![n] = 0]
        /\ UNCHANGED <<hist, outbox, wire>>
    BY <1>3, <2>1 DEF EngineOutput, meshVars
  <2> HIDE DEF built
  <2> QED BY <2>2, <2>3, <2>4, ChainBuilt
<1>4. ASSUME NEW n \in Node, EngineFailure(n) PROVE ChainInv'
  <2> DEFINE failed == FailedUpdate(n, TailHash(hist[n][n]))
             built  == <<failed>>
  <2>1. failed \in UpdateRecord /\ failed.node_id = n
    BY OwnTailType, FailedUpdateType
  <2>2. failed.prev_hash = TailHash(hist[n][n])
    BY DEF FailedUpdate, UpdateOf
  <2>3. /\ pending' = [pending EXCEPT ![n] = built]
        /\ written' = [written EXCEPT ![n] = 0]
        /\ UNCHANGED <<hist, outbox, wire>>
    BY <1>4 DEF EngineFailure, meshVars
  <2> HIDE DEF failed
  <2>4. /\ built \in Seq(UpdateRecord) /\ RecordsIn(built) = {failed}
        /\ Len(built) = 1 /\ DOMAIN built = {1} /\ built[1] = failed
    BY <2>1 DEF RecordsIn
  <2> HIDE DEF built
  <2>5. /\ \A x \in RecordsIn(built) : x.node_id = n
        /\ \A i \in DOMAIN built : i > 1 => built[i].prev_hash = built[i - 1].hash
        /\ Len(built) > 0 => built[1].prev_hash = TailHash(hist[n][n])
        /\ Len(built) > 1 => \A i \in DOMAIN built : Intact(built[i])
    BY <2>1, <2>2, <2>4
  <2> QED BY <2>3, <2>4, <2>5, ChainBuilt
<1>5. ASSUME NEW n \in Node, Announce(n) PROVE ChainInv'
  <2>1. /\ outbox' = [outbox EXCEPT ![n] = outbox[n] \o pending[n]]
        /\ pending' = [pending EXCEPT ![n] = <<>>]
        /\ written' = [written EXCEPT ![n] = 0]
        /\ UNCHANGED <<hist, wire>>
    BY <1>5 DEF Announce
  <2>2. RecordsIn(outbox[n] \o pending[n]) = RecordsIn(outbox[n]) \union RecordsIn(pending[n])
    BY RecordsInConcat DEF TypeInv, TypeOK
  <2>3. NodeChain(n)'
    <3>1. pending'[n] = <<>> /\ written'[n] = 0 /\ outbox'[n] = outbox[n] \o pending[n]
      BY <2>1 DEF TypeInv, TypeOK
    <3>2. DOMAIN <<>> = {} /\ Len(<<>>) = 0
      BY EmptySeq
    <3>3. PendingChained(n)'
      BY <3>1, <3>2 DEF PendingChained
    <3>4. NoEcho(n)'
      BY <1>1, <2>1, <2>2, <3>1, RecordsInEmpty DEF NodeChain, NoEcho
    <3> QED BY <1>1, <2>1, <3>3, <3>4 DEF NodeChain
  <2>4. ASSUME NEW m \in Node \ {n} PROVE NodeChain(m)'
    <3>1. pending'[m] = pending[m] /\ written'[m] = written[m] /\ outbox'[m] = outbox[m]
      BY <2>1 DEF TypeInv, TypeOK
    <3> QED BY <1>1, <2>1, <3>1, ChainUndisturbed
  <2> QED BY <2>3, <2>4 DEF ChainInv
<1>6. ASSUME NEW n \in Node, Broadcast(n) PROVE ChainInv'
  <2>1. /\ Head(outbox[n]) \in RecordsIn(outbox[n])
        /\ RecordsIn(Tail(outbox[n])) \subseteq RecordsIn(outbox[n])
    BY <1>6, RecordsInTail DEF Broadcast, TypeInv, TypeOK
  <2>2. Head(outbox[n]).node_id = n
    BY <1>1, <2>1 DEF NodeChain, NoEcho
  <2>3. ASSUME NEW m \in Node PROVE \A r \in wire'[m] : r.node_id # m
    BY <1>1, <1>6, <2>2 DEF Broadcast
  <2>4. /\ outbox' = [outbox EXCEPT ![n] = Tail(outbox[n])]
        /\ UNCHANGED <<hist, pending, written>>
    BY <1>6 DEF Broadcast, loopVars
  <2>5. NodeChain(n)'
    <3>1. outbox'[n] = Tail(outbox[n])
      BY <2>4 DEF TypeInv, TypeOK
    <3>2. NoEcho(n)'
      BY <1>1, <2>1, <2>3, <2>4, <3>1 DEF NodeChain, NoEcho
    <3> QED BY <1>1, <2>4, <3>2 DEF NodeChain, PendingChained
  <2>6. ASSUME NEW m \in Node \ {n} PROVE NodeChain(m)'
    <3>1. outbox'[m] = outbox[m]
      BY <2>4 DEF TypeInv, TypeOK
    <3> QED BY <1>1, <2>3, <2>4, <3>1, ChainUndisturbed
  <2> QED BY <2>5, <2>6 DEF ChainInv
<1>7. ASSUME NEW n \in Node, Receive(n) PROVE ChainInv'
  <2>1. PICK r \in wire[n] : /\ hist' = [hist EXCEPT ![n] = record_update(hist[n], r)]
                             /\ wire' = [wire EXCEPT ![n] = wire[n] \ {r}]
    BY <1>7 DEF Receive
  <2>2. r.node_id # n /\ r \in UpdateRecord
    BY <1>1 DEF TypeInv, TypeOK
  <2>3. record_update(hist[n], r)[n] = hist[n][n]
    BY <2>2 DEF record_update, UpdateRecord, TypeInv, TypeOK
  <2>4. ASSUME NEW m \in Node
        PROVE  hist'[m][m] = hist[m][m] /\ \A x \in wire'[m] : x.node_id # m
    BY <1>1, <2>1, <2>3 DEF TypeInv, TypeOK
  <2>5. UNCHANGED <<pending, written, outbox>>
    BY <1>7 DEF Receive, loopVars
  <2> QED BY <1>1, <2>4, <2>5, ChainUndisturbed DEF ChainInv
<1>8. ASSUME NEW n \in Node, RecordNext(n) PROVE ChainInv'
  <2> DEFINE r == pending[n][written[n] + 1]
  <2>1. /\ pending[n] \in Seq(UpdateRecord) /\ Len(pending[n]) \in Nat
        /\ DOMAIN pending[n] = 1..Len(pending[n])
        /\ written[n] \in Nat /\ written[n] + 1 \in 1..Len(pending[n])
    BY <1>8, LenProperties DEF RecordNext, TypeInv, TypeOK
  <2>2. r \in UpdateRecord /\ r.node_id = n
    BY <1>1, <2>1, ElementOfSeq DEF NodeChain, NoEcho, RecordsIn
  <2>3. r.prev_hash = TailHash(hist[n][n])
    BY <1>1, <1>8 DEF RecordNext, NodeChain, PendingChained
  <2>4. /\ hist' = [hist EXCEPT ![n] = record_update(hist[n], r)]
        /\ written' = [written EXCEPT ![n] = @ + 1]
        /\ UNCHANGED <<pending, outbox, wire>>
    BY <1>8 DEF RecordNext, meshVars
  <2>5. hist'[n] = record_update(hist[n], r) /\ written'[n] = written[n] + 1
    BY <2>4 DEF TypeInv, TypeOK
  <2>6. /\ \A i \in DOMAIN pending[n] :
              i > 1 => pending[n][i].prev_hash = pending[n][i - 1].hash
        /\ Len(pending[n]) > 1 => \A i \in DOMAIN pending[n] : Intact(pending[n][i])
    BY <1>1 DEF NodeChain, PendingChained
  <2>7. ASSUME Intact(r) PROVE NodeChain(n)'
    <3>1. hist'[n][n] = Append(hist[n][n], r)
      BY <2>2, <2>5, <2>7 DEF record_update, TypeInv, TypeOK
    <3>2. Chained(hist'[n][n]) /\ TailHash(hist'[n][n]) = r.hash
      BY <1>1, <2>2, <2>3, <3>1, ChainedAppend DEF NodeChain, TypeInv, TypeOK
    <3>3. ASSUME written'[n] < Len(pending[n])
          PROVE  pending[n][written'[n] + 1].prev_hash = r.hash
      <4>1. written[n] + 2 \in DOMAIN pending[n] /\ written[n] + 2 > 1
        BY <2>1, <2>5, <3>3
      <4>2. pending[n][written[n] + 2].prev_hash = pending[n][written[n] + 2 - 1].hash
        BY <2>1, <2>6, <4>1
      <4>3. written[n] + 2 - 1 = written[n] + 1 /\ written'[n] + 1 = written[n] + 2
        BY <2>1, <2>5
      <4> QED BY <4>2, <4>3
    <3>4. PendingChained(n)'
      BY <2>4, <2>6, <3>2, <3>3 DEF PendingChained
    <3> QED BY <1>1, <2>4, <3>2, <3>4 DEF NodeChain, NoEcho
  <2>8. ASSUME ~Intact(r) PROVE NodeChain(n)'
    <3>1. hist'[n] = hist[n]
      BY <2>5, <2>8 DEF record_update
    <3>2. ~ (Len(pending[n]) > 1)
      BY <2>1, <2>6, <2>8
    <3>3. ~ (written'[n] < Len(pending[n]))
      BY <2>1, <2>5, <3>2
    <3>4. PendingChained(n)'
      BY <2>4, <2>6, <3>2, <3>3 DEF PendingChained
    <3> QED BY <1>1, <2>4, <3>1, <3>4 DEF NodeChain, NoEcho
  <2>9. ASSUME NEW m \in Node \ {n} PROVE NodeChain(m)'
    <3>1. hist'[m] = hist[m] /\ written'[m] = written[m]
      BY <2>4 DEF TypeInv, TypeOK
    <3> QED BY <1>1, <2>4, <3>1, ChainUndisturbed
  <2> QED BY <2>7, <2>8, <2>9 DEF ChainInv
<1>9. ASSUME NEW n \in Node, Exit(n) \/ Crash(n) PROVE ChainInv'
  BY <1>9, ForgettingChain DEF Exit, Crash
<1>10. ASSUME NEW n \in Node,
              Stage(n) \/ Launch(n) \/ SetRound(n) \/ Rank(n) \/ Restart(n)
       PROVE  UNCHANGED <<hist, pending, written, outbox, wire>>
  BY <1>10 DEF Stage, Launch, SetRound, Rank, Restart, meshVars
<1>11. ASSUME UNCHANGED vars PROVE UNCHANGED <<hist, pending, written, outbox, wire>>
  BY <1>11 DEF vars, loopVars, meshVars
<1> QED
  BY <1>2, <1>3, <1>4, <1>5, <1>6, <1>7, <1>8, <1>9, <1>10, <1>11 DEF Next, Loop, Mesh

\* In every state a node's own log is a chain of hashes from the zero hash: failed rounds
\* leave no gap, and no order of the reviews breaks it.
THEOREM OwnLogsAreChains == Spec => []OwnLogIsChain
<1>1. ChainInv => OwnLogIsChain
  BY DEF ChainInv, NodeChain, Chained, OwnLogIsChain
<1> QED BY <1>1, InitType, NextType, InitChain, NextChain, PTL DEF Spec
==============================================================================
