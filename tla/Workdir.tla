-------------------------------- MODULE Workdir --------------------------------
(***************************************************************************)
(* Several nodes' engines in one checkout, as a sweep starts them          *)
(* (scripts/run_ml_sweep.py): a process per node in each round, all at     *)
(* once, and the files they share.  The loss file is shared always; the    *)
(* token cache is where the configuration names one path for all.  Each    *)
(* process finds from the files alone where its data continue.             *)
(*                                                                         *)
(* A sample is a number from 1 to Size, and a row of the loss file tells   *)
(* the last sample trained (tokens grow with the samples and are left      *)
(* out).  The trainer and the tokeniser are external (Bhaskera).           *)
(***************************************************************************)
EXTENDS Integers, FiniteSets, Sequences, SequencesExt, FiniteSetsExt

CONSTANTS
    Node,           \* the nodes of the sweep
    Header,         \* stands for the author of a header line
    Size,           \* samples in the dataset
    PerRound,       \* training.max_steps: steps in a round, one sample each
    Rounds,         \* ROUNDS, the rounds of an experiment
    Experiments,    \* MAX_MALICIOUS, the experiments of the sweep
    MaxFaults       \* bound: processes that fail or train without a line

ASSUME WorkdirAssumption ==
    /\ Header \notin Node
    /\ {Size, PerRound, Rounds, Experiments} \subseteq Nat \ {0}
    /\ MaxFaults \in Nat

VARIABLES
    shared,         \* data.tokenized_path is set: one token cache for all nodes
    sweep,          \* the experiment and its round
    pc,             \* how far each node's process is
    cache,          \* on disk: the token caches, by the files in them
    torn,           \* processes that are tokenising into a cache removed meanwhile
    log,            \* on disk: the lines of the loss file
    created,        \* on disk: the loss file is there, with lines or without
    unheaded,       \* processes that looked for the loss file before it was there
    unflushed,      \* processes whose header line is not written yet
    epoch,          \* in memory: current_epoch
    from,           \* in memory: last_samples, where the training resumes
    at,             \* in memory: the last sample trained
    complete,       \* on disk: the rounds whose checkpoint is marked complete
    adapter,        \* on disk: the round whose training the newest adapter file holds
    source,         \* in memory: where the delta was taken from
    score,          \* in memory: the line whose loss is the score, 0 for none
    faults          \* bounded by MaxFaults

engine == <<epoch, from, at, source, score>>
opening == <<unheaded, unflushed>>
disk == <<cache, created, log, complete, adapter>>
vars == <<shared, sweep, pc, disk, torn, opening, engine, faults>>

Places == {"Exited", "Started", "Tokenising", "Ready", "Opening", "Training", "Ended", "Trained"}

\* With a "stub", a file of under 100 bytes; without, but with files missing or cut off later
\* than that; or with all files, whole.
Contents == {"none", "stub", "partial", "full"}

NoSource == [kind |-> "none", of |-> 0]

\* The rounds begun so far, over all experiments.
Now == (sweep.experiment - 1) * Rounds + sweep.round

Lines == [node : Node \union {Header}, epoch : Nat, samples : 0..Size, of : Nat]

\* "of" is auxiliary: the round the line is from.
Row(n, samples) == [node |-> n, epoch |-> epoch[n], samples |-> samples, of |-> Now]
HeaderLine == [node |-> Header, epoch |-> 0, samples |-> 0, of |-> 0]

TypeOK ==
    /\ shared \in BOOLEAN
    /\ sweep \in [experiment : 1..Experiments, round : 0..Rounds]
    /\ pc \in [Node -> Places]
    /\ cache \in [Node -> Contents]
    /\ torn \subseteq Node /\ unheaded \subseteq Node /\ unflushed \subseteq Node
    /\ created \in BOOLEAN
    /\ log \in Seq(Lines)
    /\ epoch \in [Node -> Nat]
    /\ from \in [Node -> 0..Size] /\ at \in [Node -> 0..Size]
    /\ complete \in [Node -> SUBSET Nat]
    /\ adapter \in [Node -> Nat]
    /\ source \in [Node -> [kind : {"none", "checkpoint", "adapter", "dummy"}, of : Nat]]
    /\ score \in [Node -> Nat]
    /\ faults \in 0..MaxFaults

Init ==
    /\ shared \in BOOLEAN
    /\ sweep = [experiment |-> 1, round |-> 0]
    /\ pc = [n \in Node |-> "Exited"]
    /\ cache = [n \in Node |-> "none"]
    /\ torn = {} /\ unheaded = {} /\ unflushed = {}
    /\ created = FALSE
    /\ log = <<>>
    /\ epoch = [n \in Node |-> 0]
    /\ from = [n \in Node |-> 0] /\ at = [n \in Node |-> 0]
    /\ complete = [n \in Node |-> {}]
    /\ adapter = [n \in Node |-> 0]
    /\ source = [n \in Node |-> NoSource]
    /\ score = [n \in Node |-> 0]
    /\ faults = 0

Goto(n, place) == pc' = [pc EXCEPT ![n] = place]

-------------------------------------------------------------------------------
(* The sweep.                                                              *)

AllExited == \A n \in Node : pc[n] = "Exited"

\* All processes of a round are started and then waited for.
run_round ==
    /\ AllExited
    /\ sweep.round < Rounds
    /\ sweep' = [sweep EXCEPT !.round = @ + 1]
    /\ pc' = [n \in Node |-> "Started"]
    /\ UNCHANGED <<shared, disk, torn, opening, engine, faults>>

\* clear_state removes ml_models and ml_states beside the script; the engine keeps its
\* files beside ml_engine.py, and these stay.
run_experiment ==
    /\ AllExited
    /\ sweep.round = Rounds
    /\ sweep.experiment < Experiments
    /\ sweep' = [experiment |-> sweep.experiment + 1, round |-> 0]
    /\ UNCHANGED <<shared, pc, disk, torn, opening, engine, faults>>

-------------------------------------------------------------------------------
(* The token cache.                                                        *)

\* The nodes that have the same cache directory.
Sharing(n) == IF shared THEN Node ELSE {n}

SetCache(n, content) ==
    cache' = [m \in Node |-> IF m \in Sharing(n) THEN content ELSE cache[m]]

\* Mutation of CheckCache: a cache found is removed, as it once was (ml_engine.py:130).
CheckCacheAfresh(n) ==
    /\ pc[n] = "Started"
    /\ SetCache(n, "none")
    /\ Goto(n, "Tokenising")
    /\ UNCHANGED <<shared, sweep, created, log, complete, adapter, torn, opening, engine, faults>>

\* A cache with a stub is removed, also one that another node is just writing.  One without
\* is used, whether or not its files are whole and all there: a file that a death cut off at
\* 100 bytes or more is trained on.
CheckCache(n) ==
    /\ pc[n] = "Started"
    /\ IF cache[n] = "stub"
       THEN /\ SetCache(n, "none")
            /\ torn' = torn \union {m \in Sharing(n) : pc[m] = "Tokenising"}
       ELSE UNCHANGED <<cache, torn>>
    /\ Goto(n, IF cache[n] \in {"none", "stub"} THEN "Tokenising" ELSE "Ready")
    /\ UNCHANGED <<shared, sweep, created, log, complete, adapter, opening, engine, faults>>

\* The tokeniser begins a file, goes on with it or ends it.
WriteCache(n) ==
    /\ pc[n] = "Tokenising"
    /\ \E content \in {"stub", "partial"} : SetCache(n, content)
    /\ UNCHANGED <<shared, sweep, pc, created, log, complete, adapter, torn, opening, engine, faults>>

CacheWritten(n) ==
    /\ pc[n] = "Tokenising"
    /\ SetCache(n, IF n \in torn THEN "partial" ELSE "full")
    /\ torn' = torn \ {n}
    /\ Goto(n, "Ready")
    /\ UNCHANGED <<shared, sweep, created, log, complete, adapter, opening, engine, faults>>

-------------------------------------------------------------------------------
(* The loss file.                                                          *)

LookForLog(n) ==
    /\ pc[n] = "Ready"
    /\ unheaded' = IF created THEN unheaded ELSE unheaded \union {n}
    /\ Goto(n, "Opening")
    /\ UNCHANGED <<shared, sweep, disk, torn, unflushed, engine, faults>>

OwnRows(n) == {i \in DOMAIN log : log[i].node = n}

\* Mutation of LastSamples: the largest of all rows.
LargestSamples(n) == Max({0} \union {log[i].samples : i \in OwnRows(n)})

\* Of the last row among those of the latest epoch.
LastSamples(n) == IF OwnRows(n) = {} THEN 0 ELSE log[Max(OwnRows(n))].samples

\* Mutation of NextEpoch: one down.
EpochBeforeLast(n) == Max({0} \union {log[i].epoch : i \in OwnRows(n)}) - 1

\* Mutation of NextEpoch: that of the rows before.
LastEpoch(n) == Max({0} \union {log[i].epoch : i \in OwnRows(n)})

NextEpoch(n) == Max({0} \union {log[i].epoch : i \in OwnRows(n)}) + 1

\* Mutation of Sentinels: the marks of earlier rounds stay.
SentinelsKept(n) == complete[n]

\* The marks of earlier rounds are removed, so that the trainer does not resume from them.
Sentinels(n) == {}

\* The file is opened, a header waiting to be written, and read for where to go on.
Open(n) ==
    /\ pc[n] = "Opening"
    /\ unflushed' = IF n \in unheaded THEN unflushed \union {n} ELSE unflushed
    /\ unheaded' = unheaded \ {n}
    /\ created' = TRUE
    /\ complete' = [complete EXCEPT ![n] = Sentinels(n)]
    /\ epoch' = [epoch EXCEPT ![n] = NextEpoch(n)]
    /\ from' = [from EXCEPT ![n] = LastSamples(n)]
    /\ at' = [at EXCEPT ![n] = LastSamples(n)]
    /\ Goto(n, "Training")
    /\ UNCHANGED <<shared, sweep, cache, log, adapter, torn, source, score, faults>>

Flush(n, lines) ==
    /\ log' = log \o (IF n \in unflushed THEN <<HeaderLine>> ELSE <<>>) \o lines
    /\ unflushed' = unflushed \ {n}

-------------------------------------------------------------------------------
(* Training: what the trainer prints, and the checkpoint or adapter it may write. *)

Step(n) ==
    /\ pc[n] = "Training"
    /\ at[n] < Size /\ at[n] - from[n] < PerRound
    /\ at' = [at EXCEPT ![n] = @ + 1]
    /\ Flush(n, <<Row(n, at[n] + 1)>>)
    /\ UNCHANGED <<shared, sweep, pc, cache, created, complete, adapter, torn, unheaded, epoch, from,
                   source, score, faults>>

\* At the end of the data a step without samples is printed, and the training ends.
Exhausted(n) ==
    /\ pc[n] = "Training"
    /\ at[n] = Size
    /\ Flush(n, <<Row(n, 0)>>)
    /\ Goto(n, "Ended")
    /\ UNCHANGED <<shared, sweep, cache, created, complete, adapter, torn, unheaded, engine, faults>>

\* Once a round, so far as the model goes, and with a step counted: else the round's delta is
\* the dummy whatever was saved.
Saves(n) ==
    /\ pc[n] = "Training"
    /\ at[n] > from[n]
    /\ Now \notin complete[n] /\ adapter[n] # Now
    /\ \/ /\ complete' = [complete EXCEPT ![n] = @ \union {Now}]
          /\ UNCHANGED adapter
       \/ /\ adapter' = [adapter EXCEPT ![n] = Now]
          /\ UNCHANGED complete
    /\ UNCHANGED <<shared, sweep, pc, cache, created, log, torn, opening, engine, faults>>

\* Without a line that the pattern matches, as when every loss is printed as nan, this counts
\* against the bound.
TrainerStops(n) ==
    /\ pc[n] = "Training"
    /\ \/ at[n] > from[n] /\ UNCHANGED faults
       \/ at[n] = from[n] /\ faults < MaxFaults /\ faults' = faults + 1
    /\ Goto(n, "Ended")
    /\ UNCHANGED <<shared, sweep, disk, torn, opening, engine>>

\* Mutation of ReadableLines: read from the end.
FirstLineOnly == IF Len(log) > 1 THEN {2} ELSE {}

\* The first line names the columns: without a header there is no loss.  A second header
\* is no number and ends the reading.
ReadableLines ==
    IF log = <<>> \/ log[1].node # Header THEN {}
    ELSE {i \in 2..Len(log) : \A j \in 2..i : log[j].node # Header}

\* The last loss of the file, of whatever node.
extract_training_metrics == Max({0} \union ReadableLines)

\* The newest of the adapter files below the node's directory, whichever round it is from.
get_adapter_path(n) == adapter[n]

\* The newest checkpoint, or the newest adapter if none is complete.
Source(n) ==
    IF at[n] = from[n] THEN [kind |-> "dummy", of |-> Now]
    ELSE IF complete[n] # {} THEN [kind |-> "checkpoint", of |-> Max(complete[n])]
    ELSE IF get_adapter_path(n) # 0 THEN [kind |-> "adapter", of |-> get_adapter_path(n)]
    ELSE [kind |-> "dummy", of |-> Now]

\* The trainer ended well; score and delta are read from the files.
Extract(n) ==
    /\ pc[n] = "Ended"
    /\ score' = [score EXCEPT ![n] = extract_training_metrics]
    /\ source' = [source EXCEPT ![n] = Source(n)]
    /\ Goto(n, "Trained")
    /\ UNCHANGED <<shared, sweep, disk, torn, opening, epoch, from, at, faults>>

Forget(n) ==
    /\ epoch' = [epoch EXCEPT ![n] = 0]
    /\ from' = [from EXCEPT ![n] = 0]
    /\ at' = [at EXCEPT ![n] = 0]
    /\ source' = [source EXCEPT ![n] = NoSource]
    /\ score' = [score EXCEPT ![n] = 0]
    /\ Goto(n, "Exited")

\* The round ends; the newest adapter is overwritten with the aggregate.
Finish(n) ==
    /\ pc[n] = "Trained"
    /\ adapter' = [adapter EXCEPT ![n] = IF get_adapter_path(n) = 0 THEN 0 ELSE Now]
    /\ Forget(n)
    /\ UNCHANGED <<shared, sweep, cache, created, log, complete, torn, opening, faults>>

\* A process fails or is killed: its header may get lost.  The round goes on without it.
Fail(n) ==
    /\ pc[n] # "Exited"
    /\ faults < MaxFaults
    /\ faults' = faults + 1
    /\ torn' = torn \ {n}
    /\ unheaded' = unheaded \ {n}
    /\ \/ Flush(n, <<>>)
       \/ n \in unflushed /\ unflushed' = unflushed \ {n} /\ UNCHANGED log
    /\ Forget(n)
    /\ UNCHANGED <<shared, sweep, cache, created, complete, adapter>>

Engine(n) ==
    \/ CheckCache(n) \/ WriteCache(n) \/ CacheWritten(n)
    \/ LookForLog(n) \/ Open(n)
    \/ Step(n) \/ Exhausted(n) \/ Saves(n) \/ TrainerStops(n)
    \/ Extract(n) \/ Finish(n) \/ Fail(n)

Next == run_round \/ run_experiment \/ \E n \in Node : Engine(n)

Spec == Init /\ [][Next]_vars

-------------------------------------------------------------------------------
(* Properties.                                                             *)

NextOwnRow(i, j) ==
    /\ i < j /\ log[i].node # Header /\ log[i].node = log[j].node
    /\ \A k \in i + 1..j - 1 : log[k].node # log[i].node

\* However the processes interleave and fail, a node's rows are one walk through the data
\* after the other: no sample is printed twice in a pass or left out, and at the end of a
\* pass the node does not stay (ml_engine.py:494).
RowsWalkTheData ==
    /\ \A n \in Node : OwnRows(n) # {} => log[Min(OwnRows(n))].samples = 1
    /\ \A i, j \in DOMAIN log :
           NextOwnRow(i, j) => log[j].samples = (log[i].samples + 1) % (Size + 1)

\* An epoch number in the loss file is that of one round of the node, a failed or an
\* exhausted one too.
EpochPerRound ==
    \A i, j \in DOMAIN log :
        log[i].node = log[j].node => (log[i].epoch = log[j].epoch <=> log[i].of = log[j].of)

\* A node that has trained on a cache of its own keeps it, complete or not: whatever fails,
\* no later round removes it or writes to it, so that the samples the loss file counts, where
\* training resumes, stay the same ones (ml_engine.py:130, 381).
CacheStays ==
    [][\A n \in Node : ~shared /\ OwnRows(n) # {} => cache'[n] = cache[n]]_vars

\* A delta taken from a checkpoint is that of this round's training, also if the round
\* wrote none and earlier rounds failed (ml_engine.py:471).
OwnCheckpoint ==
    \A n \in Node :
        pc[n] = "Trained" /\ source[n].kind = "checkpoint" => source[n].of = Now

\* The score is a loss at least as recent as the node's own last one, as far as the file
\* has one header, at its start.
ScoreNotStale ==
    \A n \in Node :
        /\ pc[n] = "Trained" /\ OwnRows(n) # {}
        /\ {i \in DOMAIN log : log[i].node = Header} = {1}
        => score[n] >= Max(OwnRows(n))
==============================================================================
