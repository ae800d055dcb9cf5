# Slakshna in TLA+

Slakshna is a serverless federation for fine-tuning a language model. Every node
runs the same program: a Rust process (`src/src/`) that keeps the federation's
records, gossips them and paces the epochs, and a Python ML engine
(`src/ml_engine.py`, `src/federated_communication/`) that the process starts once
an epoch to train, compress and aggregate. These modules say what the program
does and check what it should guarantee; all safety properties are also
proved, for every number of nodes, rounds and failures.

## 1. Inventory

| Part | State it keeps | Operations | What makes it correct |
|---|---|---|---|
| Training loop, `src/src/main.rs:118-417` | `completed_epochs`; per pass the epoch boundary, the record of its update and its reviews | align to the clock, stage peer deltas on disk, start the engine, build and chain the records, record, broadcast, store the round, wait at the sync barrier, rank, exit | passes are aligned over the nodes; a failed round leaves no trace in any log; the own log is a hash chain; a pass ends whatever the peers do |
| Update history, `src/src/history.rs` | `peer_updates`: an append-only log for each participant, in memory | `record_update`, `trust_rankings` | logs hold only what their authors produced, each record once; the ranking depends on the records only, not on their order, unless a rounding decides |
| Gossip mesh, `src/src/network/mesh.rs` | command channel, active peers, endpoint | broadcast, receive into the history, remember and re-offer peers | what is sent reaches everyone who is up; records may overtake each other |
| Persistent state, `src/src/state.rs` | RocksDB: key pair, `meta:round`, remembered peers | load or make the identity, set the round, remember a peer | the identity outlives a restart, the round counts epochs |
| Configuration, `src/src/config.rs` | epoch duration, deadline, expected peers, limits | load, default, validate | barrier and boundary as documented |
| Identity, `src/src/identity.rs` | key pair | make, encode | (cryptography, not modelled) |
| HTTP API, `src/src/api.rs` | none of its own | reads | read-only |
| ML engine, `src/ml_engine.py` | files: residuals, base adapter, checkpoint, `state.json`, metrics | one round: load, train, error feedback, encode, aggregate, save, print | what is learned is transmitted or waits in the residual, never twice; an announced round is on disk |
| Delta transport, `src/federated_communication/` | none | top-k, int8, envelope, checks, aggregation | the decoded delta is the one the sender subtracted from its residual |
| Adapter export, `src/evaluations/` | adapter directories, results | discover checkpoints, convert, evaluate | what was asked for is converted; weights, configuration, audit file and results are of one checkpoint |
| ML sweep, `src/scripts/run_ml_sweep.py` | none of its own; the engines' files in one checkout | experiments of rounds, all engines of a round at once | each engine goes on where it was, whatever the others write |

The parts interact so: the loop and the event loop of the mesh share the history
under a read-write lock; the loop hands records to the event loop through a
channel; the loop and the engine talk through files (staged deltas), arguments and
the last line of the engine's output; nodes talk by gossip only. Engines in one checkout
share the loss file, and the token cache if its path is configured; the export reads the
engines' checkpoints while they run.

What is hard here: the lock is released between staging, launching and building
the reviews, so records arrive in between; the engine runs for minutes and may
fail, be orphaned or die between two of its writes; history is lost by a crash
while files and rounds stay; gossip reorders and loses; the clock is read in
truncated seconds; engines write the same files at once, and find out from them where
they are. `PROJECT.json` lists each such hazard at its line with the
properties that watch it.

## 2. Modules

| Module | Models | Composes |
|---|---|---|
| `History` | records, hash check, `record_update`, latest update, chain tail | |
| `Federation` | the loop of every node, the mesh's event loop, crashes and restarts | extends `History` |
| `RecordStore` | abstract: what the federation promises of its records | |
| `Trust` | `trust_rankings` and `top_trusted_peers` | extends `History` |
| `Cohort` | the ranking over the histories the federation produces | `Federation`, `Trust` |
| `Epoch` | wall clock, boundary, engine time, sync barrier, ranking | |
| `Mesh` | remembered peers, seeds, rejoin, neighbours, the command channel and the end of the event loop | |
| `DeltaWire` | the delta transport: clipping, encoding, decoding with its checks, validation | |
| `MLEngine` | one node's engine over several rounds and deaths, its files and trust scores | extends `DeltaWire` |
| `EngineContract` | abstract: which rounds an engine announces and leaves, as `Federation` takes it | |
| `Workdir` | several engines in one checkout: token cache, loss file, checkpoints, under the sweep | |
| `AdapterExport` | the export tool beside engines that go on writing | |
| `Federation_proofs` | lemmas about the operators of `History`, theorems about `Federation` | extends `Federation` |
| `Delivery_proofs` | theorems about what is in flight and where it ends, the refinement of `RecordStore`, the ranking | extends `Cohort`, `Federation_proofs` |
| `Epoch_proofs`, `Mesh_proofs`, `Workdir_proofs`, `AdapterExport_proofs` | the theorems about one component each | extend it |
| `MLEngine_proofs` | theorems about `MLEngine` and the operators of `DeltaWire` | extends `MLEngine` |
| `FiniteLemmas` | extrema of finite sets, sums over them, ranks in an order, sequences of all members of a set | |
| `MCFederation`, `MCCohort`, `MCMesh`, `MCMLEngine`, `MCWorkdir`, `MCAdapterExport` | instances for TLC | |

`Federation` and `Epoch` are two views of one loop. `Federation` leaves time out:
an action may happen at any moment at which the control allows it, which covers
every timing. `Epoch` leaves the records out and keeps who is on record. A pass in
`Federation` is `Stage`, `Launch`, `EngineOutput` or `EngineFailure`, `RecordNext`
for each record, `Announce`, `SetRound`, then `Rank` or `Exit`; each is one stretch
of the code between two points where it gives way to others (an await, a lock).
`RecordNext` is one call of `record_update` while the write lock is held; `Receive`
is excluded as the lock excludes it.

The engine is one action of `Federation`: it answers with the next round, or it fails and
leaves in `state.json` the round it found, its own, or, if it died while it wrote the file,
none (`RoundLeft`). `EngineContract` says the same of `MLEngine`, where each write is an action.

In `History`, SHA-256 is free of collisions and `content` stands for what is
digested; two records of a node have different contents because a delta names its
round and a review chains to its delta. Signatures are left out: nothing reads
them. A history is a function from all nodes to logs; a missing key is an empty
log, which the code cannot tell apart because a key is made only with its first
record (`history.rs:103-106`).

The gossip library is external and modelled by what `mesh.rs` relies on: a
broadcast reaches each process that was up at most once, in any order or never,
and not its sender. A loss is a message that stays on the wire.

`Mesh` has what `Federation` abstracts: who is connected to whom, and how a record
gets from the loop to the event loop. Records are only counted there. `NeighborUp` is two actions,
because the code awaits the state's lock and then that of the active peers
(`mesh.rs:396-400`); the event loop does nothing else meanwhile. When it ends, the
receiver it owns is dropped and the channel is closed, so that `Send` does not wait. The
library dials a peer once for each `join_peers`; a failed dial is repeated only when the
code asks again. A write to RocksDB may fail, which the code only logs: `unwritten`
remembers for whom.

`Trust` adds the scores as the two nested loops of `history.rs:121-128` do: log after log in the
order in which the process's hash map gives them (`MapOrders`), record after record. `Add` is the
addition of the processor, a parameter with a result in `Double` and no other law: it is not
taken to be associative, and which order the terms come in does show in the sums. What no order of
adding can change is `SurelyBefore`, and that is what `CohortAgreement` promises. Without that
premise it does not hold: equal records may give two nodes different cohorts where participants
are so near that a rounding decides.

In `Epoch` the clock counts half seconds, the poll interval (`main.rs:382`), while
the loop reads whole seconds; so truncation is in the model. Steps of the loop take no
time and sleeps end when due; only the engine may take arbitrarily long. Node
clocks are taken to agree, as the code does. All nodes have one `Duration` and one
`Deadline`: the property that they share an epoch presupposes equal settings. The
shipped `node1.toml` to `node5.toml` differ from each other in these.

`DeltaWire` has the transport as pure operators. A delta is a set of tensor names, one
vector of integers that all of them have, and whether the values are finite. Selection is
the code's (by magnitude, ties to the lower index); a quantised value is
`round(v * Level / max)`, ties to even as in `torch.round`, so that quantising loses
something in the model too; half precision is exact up to `HalfExact`. `Encodable` is what
the encoder refuses (NaN, too large a payload), `Decodes` what the decoder refuses (format,
size, number of tensors, number of elements, scale, indices), each with its own limits, because the code checks
different things on the two sides.

`MLEngine` is one run of `main()` after the other: read `state.json`, train, clip, add the
residual, encode, write the residual, decode the own payload, take the peers' files, write
the base, the sync checkpoint, the trust scores, print. Each file is opened (its old
content gone) and written in two actions, and the process may die in between: `broken`
holds the files that cannot be read. `torch.load` of residual and base is unguarded, so
such a file ends each later round (`FailToLoad`); `state.json` is guarded, so a broken one
counts as none (`resets`). The error paths are actions of their own (`FailToEncode`,
`FailToDecode`). A trust score `alpha` is an integer that moves with the sign of the cosine
similarity and decays; the softmax weights are left out, except that one NaN score makes
every weight NaN. `owed` and `lost` are auxiliary: what was moved less what was
transmitted, and the transmissions that never left and residuals that were not made use of.
`setting.mode` chooses between finetuning (the base has the aggregate's tensors) and
pretraining (a whole model, fetched at first, to which the aggregate is added). All
outcomes of training are a choice from `Move`, in whatever way `main()` reads them from the
trainer's files; from which files that is, is `Workdir`.

`Workdir` starts where `prepare_bhaskera_config` has been called and ends where the delta
has been taken. The loss file is a sequence of lines; a row has node, epoch number and
samples, and a header line may be written late, twice or never, since each process looks
for the file before it opens it and buffers the header until its first row. `Step` and
`Exhausted` are what the trainer prints: a step of one sample, or a step of none at the end of
the data. A trainer may also end well without a line that the parser matches.
`complete` and `adapter` are the two places a delta can come from. A token cache is empty, has a
stub (a file under 100 bytes, the only thing `ml_engine.py:390` looks for), is partial (no
stub, but files are missing or cut off later than that) or full; a partial one is trained on. The sweep starts
all engines of a round and waits for all; a new experiment changes nothing they use.

`AdapterExport` lets two engines write bases, deltas and sync checkpoints (`SaveBase`,
`SaveSync`), and die while they write (`CutOff`, `Restart`), while the tool runs. A file has a
version (for its SHA-256), may be cut off, and has tensors with names and shapes as far as
`normalize_lora_keys` looks at them: names of the node's own adapter, and those that peers' deltas
brought into the aggregate. Of tensors that come to one name the last is kept. A
directory has weights, configuration and audit file, each with where it is from, so that a
directory written by a stopped run and another after it can be told from a sound one.
The discovery is stated by what it may return: `Listings` are the orders in which the files
found may be listed, sorted by round where the tool sorts them, and `OnlyLatest` keeps the last
of each node. A file named on the command line whose name has no round counts as round 0, as in
the tool. `LatestIsNewest` says that the latest round discovered is the one the engine wrote
last, or the one it is writing.
`parse_args` is the set of command lines; `asked` is auxiliary, the checkpoints a command line
asks for, stated without the search that the tool makes.

## 3. Runs

All bounds are CONSTANTS guarded in the actions; `CHECK_DEADLOCK FALSE` everywhere
because a model stops when its bounds are used up, and a node stops after its last
round.

| Run | States | What it shows |
|---|---|---|
| `FederationCrash` | 310 k | types, six safety invariants and the refinement of `RecordStore`, with failed rounds, crashes at any step, restarts and exits |
| `FederationLive` | 98 k | every pass ends; all nodes converge; equal records rank alike whom no rounding ranks |
| `Epoch` | 115 k | alignment, deadlines, one pass per epoch, barrier's end |
| `Mesh` | 62 k | the active peers follow the swarm, every peer met is redialled, announcing ends, a split federation heals |
| `MLEngine` | 502 k | error feedback, the order of the files, divergence contained, trust only from deltas that were used |
| `Workdir` | 2.3 M | data continue where the rows end, delta and score are of the right round, an own cache stays the one trained on |
| `AdapterExport` | 1.9 M | what was asked is converted, from one checkpoint each, and the audit file can be relied on |
| `RoundGoesBack`, `StaleReview`, `EpochSkipped`, `BarrierEarly`, `RoundWithoutSteps` | small | each a statement of the repository that the code does not keep (section 5) |

Why the bounds are enough. Two nodes have every pair of roles (author and
receiver, reviewer and reviewed); the safety properties speak of at most two nodes,
and those proved hold for any number. Three passes with two faults let one node
finish a round, crash, restart and build again while the other holds records of
both of its lives; `TotalEpochs = 2` makes `Exit` happen. `FederationLive` needs, for the ranking, sums that depend on the order of their terms and an order
of ids: numbers of two binary digits, scores 1 and 4 (1 + 1 + 4 is 6, but 4 + 1 + 1 is 4), nodes 1 and 2 and
no symmetry. Three reviews of one node take four passes, which would be too many if they overlapped
freely, so that the run has behaviours of two kinds: three passes that overlap in every way, with one
score, and four passes in turns, with every score and every order of delivery. `Epoch` has a horizon of nine seconds, three
epochs, so that an overrun shows in the next pass and a crashed node rejoins.
`Mesh` has a channel smaller than a batch, so that
handing over has to wait, one node that only the other knows, and two faults, so that a partition or a
crash can follow a failed write or the end of an event loop.
`MLEngine` has three coordinates of which two are sent, so that a residual waits and two
values share a scale, and three rounds, so that it can be sent later, lost or overwritten;
the moves have values of either sign and one exceeds the norm that is clipped to, one setting each has a limit of
tensors, of elements and of the payload below the delta's size, and the peer's files are missing, of a round without steps,
along, against, too long, or in the old format, with a NaN too. One peer is enough: peers meet only in the
union of names. `Workdir` has a dataset of two samples and rounds of one, so that it is
exhausted and begun again, and three experiments of one round, whose files are those of
three rounds. `AdapterExport` has the rounds 5 and 10, whose order as names is not that as
numbers, two writes of the engines, of an adapter that holds a tensor under a peer's name as well and of a round without
steps, two runs of the tool and one stop of each kind. `MCArgs` has nine command lines, one for each way
of naming the input and of choosing rounds and directories.

Fairness. `LoopSpec`: the loop's task is scheduled and the engine's process ends
(`FairLoop`); tokio schedules ready tasks, and the engine is a batch job that
`cmd.output()` waits for. `PassEnds` asks nothing of the mesh or of other nodes. `Convergence` is
an implication: *if* the mesh delivers and no process stops, then all nodes end
with all records; it shows that no record is refused because another has not come yet.
`Mesh` assumes the tasks of a process to be scheduled, each branch of the event
loop's `select!` to be taken in the end (it picks at random), and the library to dial;
not that anybody starts, is discovered by mDNS or that the network mends: `Heals` is an
implication from two nodes that stay up and reachable. `Epoch`'s `Spec` has the clock and the loop fair, and neither the engine nor any other
node. `BarrierEnds` counts only barriers whose deadline lies within the horizon.

The mutants of `PROJECT.json` are plausible slips, defined above the operator each
replaces (no hash check, a chain that does not advance, sharing before recording, a
barrier without a deadline, a residual of dense values...); every property is violated
by at least one.

## 4. Proofs

48 theorems, all checked by TLAPS. They hold for any finite sets of nodes, peers, tensors and
coordinates, and any value of the bounds. Assumed are the named ASSUMEs of the modules, which
TLC evaluates in the runs, and the two hypotheses of `Epoch` named below. Each
component has one inductive invariant, the conjunction of named parts, checked with TLC before it
was proved; each action has a proof that it keeps each part.

**Federation** (`Federation_proofs`, `Delivery_proofs`).

- `TypeCorrect`. The invariant adds `HistIntact`, that recorded records carry their own digest;
  without it the hash of a latest update would not be known to be a `Hash`.
- `OnlyGenuineRecords`: inductive with `GenuineInv`, every *intact* record in a batch, an
  outbox or on the wire is in its author's ledger. The failed round's update is exactly the
  one that is not intact, and `record_update` refuses it.
- `StagedDeltasGenuine`, `ReviewsAreAnchored`: staged files and reviews name updates found in
  a log, and ledgers only grow, so a crash does not undo it.
- `OwnLogsAreChains`: inductive with `ChainInv`, the log is chained, what is still to be
  recorded continues it, and no record of a node is on the wire to itself (`NoEcho`), else
  `Receive` could append to the own log in the middle of a chain.
- `LogsDoNotRepeat`, `RecordedBeforeShared`: inductive with `DeliveryInv`. `record_update` looks
  for no duplicate; none comes because an intact record is handed on, from batch to log and
  outbox, from outbox to wire, from wire to log, and on the way to one receiver is in one of
  these places only. It is said of intact records, since no log takes any other.
- `FederationImplementsStore`: the refinement of `RecordStore`, action by action.
- `NothingGoesMissing`: while the processes of an author and a receiver do not stop, each record
  the author produced is on the receiver's log or on the way to it. The way is `UnderWay`: the
  author's batch, its outbox, the receiver's wire. The batch is replaced only when all of it has
  been recorded and announced (`Batches`), and a record that comes out of turn is recorded all
  the same. `StillMeansShared` follows if nobody ever stops: whenever nothing is under way, all
  hold all that was produced. This is what is safety in `Convergence`; that everything
  under way arrives remains a liveness property. `StillMeansAgreed` adds that they name the same cohort.
- `SameRecordsSameCohort`: for any addition, associative or not, nodes with the same records rank
  alike every two participants whose order no rounding decides. Logs without repetitions with the
  same records are permutations of each other, so that what one node may add up the other may too
  (`Sums`), each being one of the orders in which the same scores can be added.
- `RankingIsTotal`: whatever the sums of a call are, their order is a strict total one, so that the
  sort does not depend on the order in which the map of the sums is iterated. `StillMeansAgreed`:
  where all have everything and no rounding decides a rank (`Settled`), all name the same cohort,
  each with a hash map iterated in its own order.
- `CohortIsTheTop`: for every history, order of the hash map and k the ranking has the first k of
  the reviewed participants, or all of them, none twice, each before those named after it and before
  everybody left out. In a strict total order of a finite set the numbers of predecessors are those
  from zero, each taken once (`RanksInTaken`), so that `Sorted`, which asks for the one with i - 1
  before it, finds somebody for every i.

**Time** (`Epoch_proofs`): `EpochTypeCorrect`, `EpochsAligned`, `RanksAtTheDeadline`,
`SameEpochBeforeDeadline`, `OnePassEveryEpoch`. `EpochInv` says what a boundary is
(`Boundaries`) and where the clock may be while a node waits (`Waits`): the loop reads whole
seconds and sleeps for differences of them, so that it is late by less than a second, once, and
not by one more each time. `SameEpochBeforeDeadline` needs a deadline of at most
the duration, `OnePassEveryEpoch` one below it; the run `EpochSkipped` shows what happens when
they are equal.

**Mesh** (`Mesh_proofs`): `MeshTypeCorrect`, `CaughtUpIsRight`, `RedialsEveryPeerMet`. `MeshInv`
relates three views that lag behind each other: the links of the swarm, the events the event
loop has still to handle, and the active peers (`CatchesUp`); and whoever was met is remembered on
disk or among those whose write failed (`MetIsKept`).

**Engine** (`MLEngine_proofs`). `EngineTypeCorrect`, `AnnouncedRoundsSurvive`,
`DivergenceIsContained`, `NothingIsLost`, `TrustGrowsFromDeltas`. In `EngineInv`, `Balance`
carries the equation of error feedback through the steps of a round (what was learned is in the
residual, or in the delta in work), `Numbers` the round number against those that were announced,
`Finite` where a NaN cannot be. `Balance` rests on a lemma of the transport: what is decoded
from the own payload is what was subtracted, value for value, with and without compression.

Of the transport, for every vector: `LargestAreSent` (as many coordinates as allowed are chosen,
and each precedes each of the others), `QuantizedFits` (the clamp to
eight bits never changes a value, which is why the model has none), `TransmittedNear` (the error
of a chosen value is at most half a step), `OwnPayloadDecodes` (what the encoder has let pass fails its
own decoder exactly by the limits that the encoder does not look at: with compression the numbers of
tensors and of elements, without it the size).

`ResidualStaysBounded`: with N coordinates no value of the residual ever exceeds
`N * ((N - 1) * MaxNorm + 1)`, however many rounds there are. It is not inductive for single
values; `Light` bounds the sum of the magnitudes instead. A round adds at most `MaxNorm` to each
coordinate (`ClippingBounds`). A transmission leaves no coordinate with
more than it had (`LeavesNoMore`) and the largest with one unit at most (`LargestGoes`), so it takes
at least the average; the bound is where both are equal.

`LearnedOnce` is exact and for every setting, with lapses too: what was learned is what was
transmitted, plus the residual, plus what is `lost`. Its invariant `Books` keeps the balance at
every step of a round: from the moment the new residual is written until the output, what is to
be transmitted is owed and no longer in the residual, and a death in between moves it to what is
lost. Nothing is sent twice, because the residual is replaced before the delta leaves.
`LapsesCostARound` bounds what may be lost with compression: for each round that failed or took no
steps at most the bound of a residual and `N * MaxNorm`, since a transmission stays within what is encoded
(`QuantisedWithin`) and that is a residual and a clipped move.

`EngineKeepsContract`: the refinement of `EngineContract`. Its mapping takes the round a run found
in `state.json` until the run ends (`Found`), and `Counting` says what the file may hold
meanwhile. So what `Federation` assumes of its engine is what `MLEngine` does.

**Checkout and export** (`Workdir_proofs`, `AdapterExport_proofs`). `WorkdirTypeCorrect`,
`RowsAreOneWalk`, `EpochsAreRounds`, `OwnCachesStay`, `CheckpointsAreOwn`, `ScoresAreRecent`.
`Walks` and `Epochs` speak of the rows of one node among those of all; `Local` ties a node's
memory (its place in the data, epoch, checkpoint and score) to the rows it has written.
`ExportTypeCorrect`, `ConversionIsComplete`, `AuditsAreTrue`, `AdaptersFit`,
`ResultsBelongToWeights`, `LatestIsTheNewest`. `ExportInv` says what the directory in work holds
at each stage (`Written`), that an engine which does not die never comes back to a sync file
(`SyncFiles`), so that what was hashed last is what was loaded first, and that each checkpoint
asked for is in the queue or has a complete directory that no other checkpoint uses
(`Progress`).
Of the tensors in a file nothing is assumed but that they are finitely many: `AdaptersFit` says that
the adapter has exactly one for each module and part, under however many names the file has it,
and that the rank is right if there is one rank to be right about.

Sums, maxima and folds are recursion or CHOOSE over a set, and the induction theorems of the library
cannot be instantiated by the provers here. `FiniteLemmas` proves what is needed by a least
counterexample instead: among the subsets of a finite set for which the statement fails, one has
no other below it.

What is only model-checked is liveness (`PassEnds`, `Convergence`, `BarrierEnds`, `AnnounceEnds`,
`Heals`): fairness and ENABLED are out of the prover's reach. Every invariant and every action
property of the runs is proved.

## 5. Where the code and its documents disagree

- `RoundGoesBack`: the persisted "how many federated epochs this node has completed"
  (`state.rs:63`) goes from 2 to 1 when a round succeeds after two that failed, in one process: a
  failed round raises the loop's own count (`main.rs:244`, 347), a successful one replaces it by
  the engine's, which counts successes. That the loop starts at zero and never reads the count is
  a second way, not needed for the run.
- `StaleReview`: a review names the newest update when the engine *ends*
  (`main.rs:279`), not the one it evaluated.
- `EpochSkipped`: with `sync_deadline_secs = epoch_duration_secs`, as in
  `node1.toml`, the loop makes one pass in two epochs, not "one pass per epoch".
- `BarrierEarly`: the barrier that "is released early" (`config.rs:38`) is followed
  by a sleep to the same deadline.
- `RoundWithoutSteps`: a round without training steps, which the code means to "bypass"
  aggregation with (`ml_engine.py:588`), has a dummy delta that replaces the residuals of all
  tensors and, without peer deltas, the whole base.

What the models show besides, and no document denies. The loss file may get two headers, or
a row before its header; the score is then stale or 999, and at any time it is the last loss
of whatever node (`ml_engine.py:273`, "or any node, as a fallback"). Token files that a death cut off at 100 bytes or
more, and sets of them that are not complete, are trained on (`ml_engine.py:390`). A shared token cache may
be removed under the node that writes it, or be used half written. An experiment of the sweep
begins with what the last one left, since `clear_state` clears other directories than the
engines use. A delta may be taken from an adapter file that a failed round left. Equal records may rank
differently where a rounding decides. A delta that
passes the sender's checks may fail its own decoder, after the residual was replaced. Without
compression a NaN goes into residual, base and payload. `--round all` over files without round
numbers, and `--eval-output-dir` with several adapters, overwrite one with the other. The
properties exclude exactly these cases, by a condition that says so.

## 6. Not modelled, and the plan

Not modelled: floating point beyond rounding (scores are added by a rounded addition, values of
tensors are rounded integers), formatting, logging,
the HTTP API (read-only), key handling, the container and cluster scripts, the benchmark
scripts (they drive a former version with blocks and a faucet), the plots, the Bhaskera trainer
and tokeniser (a submodule, its directory is empty) and the inside of iroh. Left out of `Mesh`:
the whitelist (compared with the neighbour a message came from; no shipped configuration sets
it), the pinned addresses and the choice of lookup services. Left out of the engine: the file
the trainer is configured with, Ray, the trust and runtime logs, the half-finished injection of
the aggregate into the checkpoint directory (what the trainer makes of it is not in the
repository), and a trainer that outlives its engine and marks its checkpoint later. Left out of the export: overrides of what is detected, `--save-bin`, data types.

Modelled, in order of importance: records and the loop, time, the engine's files, the
ranking, membership, the delta transport, trust scores and pretraining, engines in one
checkout, the export; the proofs of section 4. Next:

1. `Mesh` under `Federation`: the abstract gossip shown to be what the swarm
   offers to nodes that stay connected.
2. `MLEngine` under `Federation` beyond the round numbers: the deltas that are announced composed
   with those that are staged.
3. Theorems about the first, and a bound of the residual in the norm that clipping uses, which
   should grow more slowly with the number of coordinates.
