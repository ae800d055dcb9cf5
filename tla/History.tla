------------------------------- MODULE History -------------------------------
(***************************************************************************)
(* The update records of src/src/history.rs and the pure operations on one *)
(* node's history: a function from each participant to the append-only log *)
(* of the records seen from it (UpdateHistory.peer_updates).  A peer that  *)
(* is no key of the hash map has the empty log here, and a key is made     *)
(* only together with its first record.                                    *)
(*                                                                         *)
(* SHA-256 is taken to be free of collisions, and every record a node      *)
(* builds has contents of its own (a delta names its round, a review       *)
(* chains to that delta).  So "content" stands for all that calculate_hash *)
(* digests, and the digest of a record is its author with that content.    *)
(***************************************************************************)
EXTENDS Integers, Sequences, FiniteSets

CONSTANTS
    Node,       \* the participants' ids
    Weight,     \* the trust scores a review may carry
    Genesis,    \* the prev_hash of a node's first record: 64 zeros
    NoHash      \* the empty hash of a record whose round failed

Hash == Node \X Nat

ASSUME HashAssumption == Genesis \notin Hash /\ NoHash \notin Hash /\ Genesis # NoHash

ModelUpdate == [tag : {"ModelUpdate"}]

PeerReview ==
    [tag : {"PeerReview"}, target_node : Node, update_hash : Hash, trust_score : Weight]

UpdateRecord ==
    [node_id : Node, prev_hash : Hash \union {Genesis},
     kind : ModelUpdate \union PeerReview,
     content : Nat, hash : Hash \union {NoHash}]

calculate_hash(r) == <<r.node_id, r.content>>

Intact(r) == r.hash = calculate_hash(r)

IsUpdate(r) == r.kind.tag = "ModelUpdate"
IsReview(r) == r.kind.tag = "PeerReview"

(***************************************************************************)
(* The records the training loop builds (src/src/main.rs).                 *)
(***************************************************************************)
UpdateOf(n, prev, c) ==
    [node_id |-> n, prev_hash |-> prev, kind |-> [tag |-> "ModelUpdate"],
     content |-> c, hash |-> <<n, c>>]

\* The update of a round whose engine failed: its hash is never computed.
FailedUpdate(n, prev) == [UpdateOf(n, prev, 0) EXCEPT !.hash = NoHash]

ReviewOf(n, prev, c, target, update, score) ==
    [node_id |-> n, prev_hash |-> prev,
     kind |-> [tag |-> "PeerReview", target_node |-> target,
               update_hash |-> update, trust_score |-> score],
     content |-> c, hash |-> <<n, c>>]

(***************************************************************************)
(* The history of one node.                                                *)
(***************************************************************************)
EmptyHistory == [m \in Node |-> <<>>]

Participants(h) == {m \in Node : h[m] # <<>>}

\* Mutations of record_update: no check of the hash; newest first; known authors only.
record_update_unchecked(h, r) == [h EXCEPT ![r.node_id] = Append(@, r)]
record_update_prepending(h, r) ==
    IF Intact(r) THEN [h EXCEPT ![r.node_id] = <<r>> \o @] ELSE h
record_update_known_only(h, r) ==
    IF Intact(r) /\ h[r.node_id] # <<>> THEN [h EXCEPT ![r.node_id] = Append(@, r)] ELSE h

\* Neither the signature nor the presence of the same record in the log is looked at.
record_update(h, r) ==
    IF Intact(r) THEN [h EXCEPT ![r.node_id] = Append(@, r)] ELSE h

RecordsIn(log) == {log[i] : i \in DOMAIN log}

\* Mutation of UpdatePositions: the last record, whatever its kind.
UpdatePositionsOfAnyKind(log) == DOMAIN log

UpdatePositions(log) == {i \in DOMAIN log : IsUpdate(log[i])}

\* "iter().rev()" and a break at the first ModelUpdate.
LatestPosition(log) ==
    CHOOSE i \in UpdatePositions(log) : \A j \in UpdatePositions(log) : j <= i

LatestUpdateHash(log) ==
    IF UpdatePositions(log) = {} THEN NoHash ELSE log[LatestPosition(log)].hash

\* The hash the next own record is chained to.
TailHash(log) == IF log = <<>> THEN Genesis ELSE log[Len(log)].hash
==============================================================================
