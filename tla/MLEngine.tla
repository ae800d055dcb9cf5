------------------------------- MODULE MLEngine -------------------------------
(***************************************************************************)
(* One node's ML engine (ml_engine.py): a process the loop starts once a   *)
(* round, and the files it leaves for the next round.  It may die at any   *)
(* time: the node crashes, training fails.  A file is written in place, so *)
(* a death while it is written leaves a file that cannot be read.          *)
(*                                                                         *)
(* The base is a set of tensors: an adapter in finetuning mode, the whole  *)
(* model in pretraining mode.  All of them take part in a round in the     *)
(* same way, so the values of one stand for all (module DeltaWire).  What  *)
(* is kept of training is how much it moved each coordinate.               *)
(***************************************************************************)
EXTENDS DeltaWire

CONSTANTS
    Self,           \* this node
    Peer,           \* the neighbours the loop names
    Tensor,         \* names of the base's tensors
    Dummy,          \* the name in the delta of a round without steps
    NaN,            \* a trust score that is not a number
    Setting,        \* settings a node may be run with
    Move,           \* how a round may move the values
    PeerFile,       \* payloads the loop may have staged
    SyncInterval,   \* checkpoint.sync_interval
    MaxRounds,      \* bound: rounds begun
    MaxDeaths       \* bound: deaths of the engine's process

ASSUME EngineAssumption ==
    /\ Self \notin Peer
    /\ Dummy \notin Tensor /\ Tensor # {} /\ IsFiniteSet(Tensor)
    /\ NaN \notin Int
    /\ Setting \subseteq [mode : {"finetuning", "pretraining"}, compression : BOOLEAN,
                          allow_legacy : BOOLEAN, max_payload : Nat, max_tensors : Nat,
                          max_elements : Nat]
    /\ Move \subseteq Values
    /\ \A p \in PeerFile : /\ p.format \in {"v1", "legacy", "unreadable"}
                           /\ p.tensors \subseteq Tensor \union {Dummy}
    /\ SyncInterval \in Nat \ {0}
    /\ MaxRounds \in Nat /\ MaxDeaths \in Nat

VARIABLES
    setting,        \* node_template.yaml and the environment
    pc,             \* how far the engine's process is
    round,          \* in memory: state["round"]
    delta,          \* in memory: dp_delta_i
    dense,          \* in memory: residual_input, delta with the previous residual
    files,          \* in memory: the peers' payloads that were aggregated
    error,          \* on disk: the residuals, as the next round will find them
    base,           \* on disk: the base; no tensors if there is no file
    sync_rounds,    \* on disk: the numbers of the sync_round files
    state_round,    \* on disk: "round" in state.json
    alpha,          \* on disk: "alpha" in state.json
    broken,         \* on disk: the files whose writing was begun and not ended
    announced,      \* the rounds whose output the loop has read
    owed,           \* auxiliary: what the encoded rounds moved, less what was transmitted
    lost,           \* auxiliary: transmissions that never left, residuals not made use of
    lapses,         \* auxiliary: rounds without output or without steps so far
    resets,         \* auxiliary: how often state.json could not be read
    begun,          \* bounded by MaxRounds
    deaths          \* bounded by MaxDeaths

memVars   == <<round, delta, dense, files>>
stateVars == <<state_round, alpha>>
diskVars  == <<error, base, sync_rounds, stateVars, broken>>
auxVars   == <<owed, lost, lapses, resets>>
bounds    == <<begun, deaths>>
vars == <<setting, pc, memVars, diskVars, announced, auxVars, bounds>>

Pretraining == setting.mode = "pretraining"

DeltaType == [tensors : SUBSET (Tensor \union {Dummy}), values : Values, finite : BOOLEAN]

TypeOK ==
    /\ setting \in Setting
    /\ pc \in {"Idle", "Started", "Loading", "Training", "Trained", "SavingError", "ErrorSaved",
               "SavingBase", "BaseSaved", "Synced", "SavingState", "StateSaved"}
    /\ round \in Nat
    /\ delta \in DeltaType /\ dense \in DeltaType
    /\ \A j \in Peer : files[j].format \in {"v1", "legacy", "unreadable"}
    /\ error \in [values : Values, finite : BOOLEAN]
    /\ base \in [tensors : SUBSET (Tensor \union {Dummy}), finite : BOOLEAN]
    /\ sync_rounds \subseteq Nat
    /\ state_round \in Nat
    /\ alpha \in [Peer \union {Self} -> Int \union {NaN}]
    /\ broken \subseteq {"error", "base", "state"}
    /\ announced \subseteq Nat
    /\ owed \in Values /\ lost \in Values
    /\ lapses \in Nat
    /\ resets \in Nat
    /\ begun \in Nat
    /\ deaths \in Nat

NoDelta == Delta({}, Zero)
NoFiles == [j \in Peer |-> NoPayload("unreadable")]

\* Drawn at random, for each node it has no score of.
FirstAlpha == [j \in Peer \union {Self} |-> 0]

Init ==
    /\ setting \in Setting
    /\ pc = "Idle"
    /\ round = 0
    /\ delta = NoDelta
    /\ dense = NoDelta
    /\ files = NoFiles
    /\ error = [values |-> Zero, finite |-> TRUE]
    /\ base = [tensors |-> {}, finite |-> TRUE]
    /\ sync_rounds = {}
    /\ state_round = 0
    /\ alpha = FirstAlpha
    /\ broken = {}
    /\ announced = {}
    /\ owed = Zero /\ lost = Zero
    /\ lapses = 0
    /\ resets = 0
    /\ begun = 0
    /\ deaths = 0

-------------------------------------------------------------------------------
(* Starting.                                                               *)

\* A file is opened for writing: what it held is gone.
Open(from, file, to) ==
    /\ pc = from
    /\ broken' = broken \union {file}
    /\ pc' = to
    /\ UNCHANGED <<setting, memVars, error, base, sync_rounds, stateVars, announced, auxVars,
                   bounds>>

\* In pretraining mode the model is fetched if its directory does not exist.
FetchModel ==
    /\ Pretraining /\ base.tensors = {} /\ "base" \notin broken
    /\ Open("Started", "base", "Loading")

ModelFetched ==
    /\ pc = "Loading"
    /\ base' = [tensors |-> Tensor, finite |-> TRUE]
    /\ broken' = broken \ {"base"}
    /\ pc' = "Started"
    /\ UNCHANGED <<setting, memVars, error, sync_rounds, stateVars, announced, auxVars, bounds>>

Begin ==
    /\ pc = "Idle"
    /\ begun < MaxRounds
    /\ begun' = begun + 1
    /\ pc' = "Started"
    /\ UNCHANGED <<setting, memVars, diskVars, announced, auxVars, deaths>>

\* Mutation of NextRound: the count goes down.
NextRoundDown == state_round - 1

NextRound == state_round + 1

\* state.json is read.  One that cannot be read counts as none.
ReadState ==
    /\ pc = "Started"
    /\ Pretraining => base.tensors # {} \/ "base" \in broken
    /\ IF "state" \in broken
       THEN round' = 1 /\ alpha' = FirstAlpha /\ resets' = resets + 1
       ELSE round' = NextRound /\ UNCHANGED <<alpha, resets>>
    /\ pc' = "Training"
    /\ UNCHANGED <<setting, delta, dense, files, error, base, sync_rounds, state_round, broken,
                   announced, owed, lost, lapses, bounds>>

-------------------------------------------------------------------------------
(* Training and the residual.                                              *)

\* Mutation of WithResidual: the residual of the round before is not looked at.
WithoutResidual(d) == d

\* Error feedback adds the residual of every tensor the delta has, if it is finite.
\* A round without steps has none of them.
Resumes(d) == d.tensors = Tensor /\ error.finite

WithResidual(d) ==
    IF Resumes(d) THEN [d EXCEPT !.values = Plus(@, error.values)] ELSE d

\* The base and the residual are loaded without a guard.
Readable == broken \intersect {"error", "base"} = {}

\* A round with steps takes the base's tensors from a checkpoint, and none has the dummy.
Loadable == Readable /\ Dummy \notin base.tensors

Trained(d) ==
    /\ pc = "Training"
    /\ Readable
    /\ delta' = d
    /\ dense' = WithResidual(d)
    /\ pc' = "Trained"
    /\ UNCHANGED <<setting, round, files, diskVars, announced, owed, lost, resets,
                   bounds>>

\* Steps were taken, and the new values minus those of the base are clipped.
Train ==
    /\ Loadable /\ base.finite
    /\ \E move \in Move : Trained(apply_clipping(Delta(Tensor, move)))
    /\ UNCHANGED lapses

\* The values overflowed in the course of the round, or those of the base were not finite.
TrainDiverging ==
    /\ Loadable
    /\ Trained(Diverged(Tensor))
    /\ UNCHANGED lapses

\* No step with samples printed a number as its loss: the delta is a dummy.
TrainNoSteps ==
    /\ Trained(Delta({Dummy}, Zero))
    /\ lapses' = lapses + 1

\* The encoder accepts the delta, and the residual file is opened.
OpenError ==
    /\ Encodable(dense, setting.compression, setting.max_payload)
    /\ Open("Trained", "error", "SavingError")

\* Mutation of NewError: the dense value, what is transmitted included.
NewErrorDense == dense.values

Transmission == Reconstructed(dense.values, setting.compression)

NewError == Minus(dense.values, Transmission)

\* The residuals are those of the tensors of this round's delta, no others.
SaveError ==
    /\ pc = "SavingError"
    /\ error' = [values |-> NewError, finite |-> dense.finite]
    /\ broken' = broken \ {"error"}
    /\ owed' = Plus(owed, delta.values)
    /\ lost' = IF Resumes(delta) THEN lost ELSE Plus(lost, error.values)
    /\ pc' = "ErrorSaved"
    /\ UNCHANGED <<setting, memVars, base, sync_rounds, stateVars, announced, lapses, resets,
                   bounds>>

-------------------------------------------------------------------------------
(* Aggregation and the files it writes.                                    *)

payload == Envelope(dense, setting.compression)

\* The own payload is decoded as well, with the old format allowed.
OwnDecodes == Decodes(payload, [setting EXCEPT !.allow_legacy = TRUE])

OpenBase == OwnDecodes /\ Open("ErrorSaved", "base", "SavingBase")

\* A peer's delta is used if it decodes and is valid; any other is left out.
Used(p) == Decodes(p, setting) /\ validate_peer_delta(decode(p))

\* The deltas are weighted with the trust scores the round began with; with one that is not
\* a number no weight is.
aggregate_deltas(available) ==
    [tensors |-> UNION {d.tensors : d \in available},
     finite  |-> (\A d \in available : d.finite) /\ (\A j \in DOMAIN alpha : alpha[j] # NaN)]

\* A finetuning base has the tensors of the aggregate, whatever the old one had; pretraining
\* adds to those of the old one.
Applied(aggregate) ==
    [tensors |-> IF Pretraining THEN base.tensors ELSE aggregate.tensors,
     finite  |-> IF aggregate.tensors \intersect base.tensors = {}
                 THEN IF Pretraining THEN base.finite ELSE aggregate.finite
                 ELSE base.finite /\ aggregate.finite]

SaveBase ==
    /\ pc = "SavingBase"
    /\ files' \in [Peer -> PeerFile]
    /\ LET peers == {decode(files'[j]) : j \in {i \in Peer : Used(files'[i])}}
       IN  base' = Applied(aggregate_deltas(peers \union {decode(payload)}))
    /\ broken' = broken \ {"base"}
    /\ pc' = "BaseSaved"
    /\ UNCHANGED <<setting, round, delta, dense, error, sync_rounds, stateVars, announced,
                   auxVars, bounds>>

\* Mutation of SaveSync: the file has the number of the round before.
SaveSyncOffByOne ==
    /\ pc = "BaseSaved"
    /\ sync_rounds' = IF round % SyncInterval = 0 THEN sync_rounds \union {state_round}
                                                  ELSE sync_rounds
    /\ pc' = "Synced"
    /\ UNCHANGED <<setting, memVars, error, base, stateVars, broken, announced, auxVars, bounds>>

SaveSync ==
    /\ pc = "BaseSaved"
    /\ sync_rounds' = IF round % SyncInterval = 0 THEN sync_rounds \union {round}
                                                  ELSE sync_rounds
    /\ pc' = "Synced"
    /\ UNCHANGED <<setting, memVars, error, base, stateVars, broken, announced, auxVars, bounds>>

OpenState == Open("Synced", "state", "SavingState")

Sign(i) == IF i > 0 THEN 1 ELSE IF i < 0 THEN -1 ELSE 0

\* The elements of a flattened delta; the dummy has one.
Elements(d) ==
    Cardinality(d.tensors \ {Dummy}) * Cardinality(Coord) + Cardinality(d.tensors \intersect {Dummy})

\* The cosine similarity, down to its sign, of deltas that are as long as each other.
Similarity(d) ==
    IF Elements(d) # Elements(delta) THEN 0
    ELSE IF ~delta.finite THEN NaN
    ELSE Sign(Dot(d, delta))

\* Mutation of Improvement: the delta need not be a valid one.
ImprovementOfAny(j) ==
    IF j = Self THEN 1
    ELSE IF Decodes(files[j], setting) THEN Similarity(decode(files[j])) ELSE 0

Improvement(j) ==
    IF j = Self THEN 1 ELSE IF Used(files[j]) THEN Similarity(decode(files[j])) ELSE 0

\* A step in the direction of the improvement, then decay towards zero.
TrustStep(a, improvement) ==
    IF NaN \in {a, improvement} THEN NaN
    ELSE LET step == a + 3 * improvement IN step - Sign(step)

SaveState ==
    /\ pc = "SavingState"
    /\ state_round' = round
    /\ alpha' = [j \in DOMAIN alpha |-> TrustStep(alpha[j], Improvement(j))]
    /\ broken' = broken \ {"state"}
    /\ pc' = "StateSaved"
    /\ UNCHANGED <<setting, memVars, error, base, sync_rounds, announced, auxVars, bounds>>

Forget ==
    /\ round' = 0
    /\ delta' = NoDelta
    /\ dense' = NoDelta
    /\ files' = NoFiles
    /\ pc' = "Idle"

\* The output is printed, the process exits well and the loop reads it.
Output ==
    /\ pc = "StateSaved"
    /\ announced' = announced \union {round}
    /\ owed' = Minus(owed, decode(payload).values)
    /\ Forget
    /\ UNCHANGED <<setting, diskVars, lost, lapses, resets, bounds>>

-------------------------------------------------------------------------------
(* Failures: the process ends without output, and what it had in memory is gone. *)

\* The residual on disk is that of this round.
ErrorReplaced ==
    pc \in {"ErrorSaved", "SavingBase", "BaseSaved", "Synced", "SavingState", "StateSaved"}

Stop ==
    /\ lapses' = lapses + 1
    /\ lost' = IF ErrorReplaced THEN Plus(lost, Transmission) ELSE lost
    /\ Forget
    /\ UNCHANGED <<setting, diskVars, announced, owed, resets, begun>>

Die ==
    /\ pc # "Idle"
    /\ deaths < MaxDeaths
    /\ deaths' = deaths + 1
    /\ Stop

FailToLoad == pc = "Training" /\ ~Loadable /\ Stop /\ UNCHANGED deaths

FailToEncode ==
    /\ pc = "Trained"
    /\ ~Encodable(dense, setting.compression, setting.max_payload)
    /\ Stop
    /\ UNCHANGED deaths

FailToDecode == pc = "ErrorSaved" /\ ~OwnDecodes /\ Stop /\ UNCHANGED deaths

Next ==
    \/ Begin \/ FetchModel \/ ModelFetched \/ ReadState
    \/ Train \/ TrainDiverging \/ TrainNoSteps \/ OpenError \/ SaveError
    \/ OpenBase \/ SaveBase \/ SaveSync \/ OpenState \/ SaveState \/ Output
    \/ Die \/ FailToLoad \/ FailToEncode \/ FailToDecode

Spec == Init /\ [][Next]_vars

-------------------------------------------------------------------------------
(* Properties.                                                             *)

\* Between the rounds all that was learned has been transmitted or waits in the residual:
\* neither pruning nor quantising loses any of it (error feedback), and what the peers decode
\* is what was subtracted.
Conserved ==
    pc = "Idle" /\ lapses = 0 /\ error.finite => owed = error.values

\* And whatever dies when, each value learned is in one place only: it has been transmitted,
\* waits in the residual, or is lost, and nothing is sent twice: the residual is written
\* before the delta leaves the process.
NothingSentTwice ==
    pc = "Idle" => owed = Plus(error.values, lost)

\* A round the loop was told of is on disk, its checkpoint included, and its number is
\* not given to another round, unless a death cut off state.json: any other death repeats
\* or skips a number.
AnnouncedRoundsAreOnDisk ==
    resets = 0 =>
        /\ \A r \in announced :
              r <= state_round /\ (r % SyncInterval = 0 => r \in sync_rounds)
        /\ pc \notin {"Idle", "Started", "Loading"} => round \notin announced

\* With compression a round that diverges spoils nothing that lasts: neither the residual,
\* nor the base, nor the trust scores ever hold a NaN, whatever the peers send.
DivergenceContained ==
    setting.compression =>
        error.finite /\ base.finite /\ \A j \in DOMAIN alpha : alpha[j] # NaN

\* Trust in a peer grows only in a round that used a delta of it, one in this format and
\* within the norm; any other file leaves its score to decay (ml_engine.py:806, 914).
TrustNeedsDelta ==
    [][\A j \in Peer : pc = "SavingState" /\ alpha'[j] # NaN /\ Abs(alpha'[j]) > Abs(alpha[j])
           => /\ files[j].format = "v1" \/ setting.allow_legacy
              /\ Dot(decode(files[j]), decode(files[j])) <= MaxPeerNorm * MaxPeerNorm
      ]_alpha

\* The round in state.json as the next run will find it, and, once a run has read it, as this
\* one found it.
Kept  == IF "state" \in broken THEN 0 ELSE state_round
Found == IF pc \in {"Idle", "Started", "Loading"} THEN Kept ELSE round - 1

\* The engine, seen by the loop: see EngineContract.
Contract == INSTANCE EngineContract WITH running <- pc # "Idle", count <- Found

ImplementsContract == Contract!Spec

\* ml_engine.py:588 "bypass weight aggregation to avoid computing a garbage delta that could
\* permanently corrupt the _base_lora.pth weights", :714 "to ensure no local learning is
\* permanently lost": a round without steps takes nothing from the residual or the base.
RoundWithoutStepsIsHarmless ==
    [][delta.tensors = {Dummy} => error' = error /\ base.tensors \subseteq base'.tensors
      ]_<<error, base>>
==============================================================================
