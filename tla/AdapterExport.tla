----------------------------- MODULE AdapterExport -----------------------------
(***************************************************************************)
(* The tool that turns checkpoints of the engines into adapter directories *)
(* for evaluation (evaluations/prepare_sync_round_adapter.py), run by hand *)
(* beside engines that go on writing.  It may be stopped at any time and   *)
(* run again, also into directories it has written before.                 *)
(*                                                                         *)
(* A file's content has a version, which stands for its SHA-256, and the   *)
(* tensors it holds.  safetensors is taken to be installed; the copy of    *)
(* --save-bin, the data type and the overrides of what is detected are     *)
(* left out.                                                               *)
(***************************************************************************)
EXTENDS Integers, FiniteSets, Sequences, FiniteSetsExt

CONSTANTS
    Node,           \* nodes whose engines write to ml_models
    Interval,       \* checkpoint.sync_interval
    SyncRound,      \* the numbers of sync rounds
    Saved,          \* the sets of tensors the engines' rounds save, in turn
    DefaultRank,    \* the rank of an adapter without LoRA tensors, 16
    Args,           \* command lines
    MaxWrites,      \* bound: rounds of the engines
    MaxRestarts,    \* bound: how often an engine dies
    MaxRuns,        \* bound: runs of the tool
    MaxDeaths       \* bound: runs of the tool that are stopped

\* A saved tensor: whether its name has the prefix "module." and an adapter's name, the
\* module it belongs to, and its shape.
Tensors ==
    [module : BOOLEAN, target : STRING, part : {"lora_A", "lora_B", "none"},
     adapter : BOOLEAN, shape : Nat \X Nat]

ASSUME ExportAssumption ==
    /\ IsFiniteSet(Node)
    /\ Interval \in Nat \ {0}
    /\ \A r \in SyncRound : r \in 1..99 /\ r % Interval = 0
    /\ Len(Saved) >= MaxWrites
    /\ {DefaultRank, MaxWrites, MaxRestarts, MaxDeaths} \subseteq Nat /\ MaxRuns \in Nat \ {0}

\* Tensors of the node's own adapter, and what its peers' deltas had under other names.
ASSUME SavedAssumption ==
    \A i \in 1..MaxWrites : Saved[i] \in SUBSET Tensors /\ IsFiniteSet(Saved[i])

\* Names of files beside the numbers of sync rounds: <id>_base_lora.pth, <id>_delta.pth.
Base == 0
Delta == -1

\* A command line: what is given (a file, a node's directory, ml_models) and of which node,
\* --round, whether there is a --node and the nodes in whose directory's name it is found,
\* whether there is an --output-dir, --evaluate, an --eval-output-dir.
parse_args ==
    [input : {"file", "node", "root"}, of : Node,
     round : {"latest", "all", "number", "unreadable"}, number : SyncRound \union {Base, Delta},
     filter : BOOLEAN, matching : SUBSET Node,
     out : BOOLEAN, evaluate : BOOLEAN, eval_output : BOOLEAN]

ASSUME ArgsAssumption == Args \subseteq parse_args

VARIABLES
    files,          \* on disk: what the engines wrote, by path
    next,           \* each engine's next sync round
    saving,         \* the engines whose sync round file is open
    newest,         \* auxiliary: of each node, the sync round last written
    restarts,       \* bounded by MaxRestarts
    writes,         \* bounded by MaxWrites; the last version
    args,           \* the tool's command line
    pc,             \* how far the tool is
    queue,          \* in memory: discovered, from the one in work on
    created,        \* in memory: created_adapter_dirs
    loaded,         \* in memory: what was loaded of the one in work
    evaluated,      \* in memory: how many of these were evaluated
    asked,          \* auxiliary: the paths the command line asked for
    dirs,           \* on disk: the adapter directories
    results,        \* on disk: the weights each results directory is from
    runs,           \* bounded by MaxRuns
    deaths          \* bounded by MaxDeaths

engines == <<files, next, saving, newest, restarts, writes>>
memory == <<args, queue, created, loaded, evaluated, asked>>
vars == <<engines, memory, pc, dirs, results, runs, deaths>>

Path == [node : Node, name : SyncRound \union {Base, Delta}]
Named(n, name) == [node |-> n, name |-> name]
NoPath == Named("none", Base)

Absent == [state |-> "absent", version |-> 0, tensors |-> {}]
Cut == [state |-> "cut", version |-> 0, tensors |-> {}]
Whole(version, tensors) == [state |-> "whole", version |-> version, tensors |-> tensors]

Present(p) == files[p].state # "absent"

\* Directories beside a checkpoint, inside the one given, and that one itself.
Root == "root"
OutDir == [place : {"beside"}, node : Node, name : SyncRound \union {Base, Delta}]
          \union [place : {"inside"}, node : Node \union {Root}, name : SyncRound \union {0}]
Given == [place |-> "given", node |-> Root, name |-> 0]
Dirs == OutDir \union {Given}

\* The directory of --eval-output-dir.
EvalOutput == [place |-> "results", node |-> Root, name |-> 0]

\* Weights, configuration and audit file of a directory, each with where it is from.
NoMeta == [whole |-> FALSE, of |-> NoPath, source |-> 0, weights |-> 0]
NoDir == [of |-> NoPath, weights |-> Absent, config |-> 0, rank |-> 0, meta |-> NoMeta]

Init ==
    /\ files = [p \in Path |-> Absent]
    /\ next = [n \in Node |-> Interval]
    /\ saving = {}
    /\ newest = [n \in Node |-> 0]
    /\ restarts = 0 /\ writes = 0
    /\ args \in Args
    /\ pc = "Invoked"
    /\ queue = <<>> /\ created = <<>>
    /\ loaded = Absent
    /\ evaluated = 0
    /\ asked = {}
    /\ dirs = [o \in Dirs |-> NoDir]
    /\ results = [o \in Dirs \union {EvalOutput} |-> 0]
    /\ runs = 1 /\ deaths = 0

-------------------------------------------------------------------------------
(* The engines (ml_engine.py:761, 849-858).                                *)

\* A base that was cut off cannot be loaded, and the engine writes no more.
Begins(n) ==
    /\ n \notin saving /\ files[Named(n, Base)].state # "cut"
    /\ writes < MaxWrites /\ next[n] \in SyncRound
    /\ writes' = writes + 1

\* The delta and the base are written; in every Interval-th round the file of a sync round
\* is opened then.
SaveBase(n) ==
    /\ Begins(n)
    /\ \E sync \in (IF Interval = 1 THEN {TRUE} ELSE BOOLEAN) :
           LET saved == Whole(writes + 1, Saved[writes + 1])
               written == [files EXCEPT ![Named(n, Delta)] = saved, ![Named(n, Base)] = saved]
           IN  /\ files' = IF sync THEN [written EXCEPT ![Named(n, next[n])] = Cut] ELSE written
               /\ saving' = IF sync THEN saving \union {n} ELSE saving
    /\ UNCHANGED <<next, newest, restarts, memory, pc, dirs, results, runs, deaths>>

\* The engine dies while it writes the delta, after that, or while it writes the base.
CutOff(n) ==
    /\ Begins(n)
    /\ restarts < MaxRestarts
    /\ restarts' = restarts + 1
    /\ files' \in
           {[files EXCEPT ![Named(n, Delta)] = Cut],
            [files EXCEPT ![Named(n, Delta)] = Whole(writes + 1, Saved[writes + 1])],
            [files EXCEPT ![Named(n, Delta)] = Whole(writes + 1, Saved[writes + 1]),
                          ![Named(n, Base)] = Cut]}
    /\ UNCHANGED <<next, saving, newest, memory, pc, dirs, results, runs, deaths>>

\* It gets the tensors of the base.
SaveSync(n) ==
    /\ n \in saving
    /\ files' = [files EXCEPT ![Named(n, next[n])] = files[Named(n, Base)]]
    /\ newest' = [newest EXCEPT ![n] = next[n]]
    /\ next' = [next EXCEPT ![n] = @ + Interval]
    /\ saving' = saving \ {n}
    /\ UNCHANGED <<restarts, writes, memory, pc, dirs, results, runs, deaths>>

\* The engine dies.  If that is before state.json is saved the round is repeated, its file
\* written again; if state.json is cut off the rounds are counted anew.
Restart(n) ==
    /\ restarts < MaxRestarts
    /\ \E r \in {Interval, newest[n], next[n]} \ {0} :
           /\ n \in saving \/ r # next[n]
           /\ r = newest[n] /\ r # Interval =>
                  files[Named(n, r)].version = files[Named(n, Base)].version
           /\ next' = [next EXCEPT ![n] = r]
    /\ restarts' = restarts + 1
    /\ saving' = saving \ {n}
    /\ UNCHANGED <<files, newest, writes, memory, pc, dirs, results, runs, deaths>>

-------------------------------------------------------------------------------
(* Discovery.                                                              *)

\* Mutation of RoundBefore: the order of the names.
NameBefore(a, b) ==
    LET first(r) == IF r < 10 THEN r ELSE r \div 10
    IN  first(a) < first(b) \/ (first(a) = first(b) /\ a < b)

RoundBefore(a, b) == a < b

Found(node, round, path) == [node |-> node, round |-> round, path |-> path]

find_sync_round_files_in_dir(n) ==
    {Found(n, r, Named(n, r)) : r \in {q \in SyncRound : Present(Named(n, q))}}

\* Files without a number all count as round 0 of ml_models.
OtherFiles ==
    {Found(Root, 0, p) : p \in {q \in Path : q.name \notin SyncRound /\ Present(q)}}

\* A round that is no number is taken for the latest.
OnlyLatest == args.round \in {"latest", "unreadable"}

Selected(found) ==
    IF args.round = "all" THEN found
    ELSE IF args.round = "number" THEN {f \in found : f.round = args.number}
    ELSE {f \in found : \A g \in found : ~RoundBefore(f.round, g.round)}

FoundIn(nodes) == UNION {Selected(find_sync_round_files_in_dir(n)) : n \in nodes}

\* The filter is not part of the name of ml_models.
Matching == IF args.filter THEN args.matching ELSE Node

\* The lists of what is found: one directory after the other, each in the order of its
\* rounds, or of the disk where they all count as one.
Listings(found) ==
    {q \in [1..Cardinality(found) -> found] :
        /\ \A i, j \in DOMAIN q : i < j =>
              q[i] # q[j] /\ (q[i].node = q[j].node => ~RoundBefore(q[j].round, q[i].round))
        /\ \A i, j, k \in DOMAIN q : i < j /\ j < k /\ q[i].node = q[k].node =>
              q[j].node = q[i].node}

\* What may be discovered; nothing, too, where the code raises an error.
discover_checkpoints ==
    CASE args.input = "file" ->
            LET path == Named(args.of, args.number)
                round == IF args.number \in SyncRound THEN args.number ELSE 0
            IN  Listings(IF Present(path) THEN {Found(args.of, round, path)} ELSE {})
      [] args.input = "node" -> Listings(FoundIn(Matching \intersect {args.of}))
      [] args.input = "root" /\ (\E n \in Node, r \in SyncRound : Present(Named(n, r))) ->
            Listings(FoundIn(Matching))
      [] OTHER ->
            IF args.filter \/ OtherFiles = {} THEN {<<>>}
            ELSE IF OnlyLatest THEN {<<f>> : f \in OtherFiles}
            ELSE Listings(Selected(OtherFiles))

\* The sync rounds the command line asks for, stated without an order.
Asked ==
    LET there == {p \in Path : /\ p.name \in SyncRound /\ Present(p)
                               /\ args.input # "root" => p.node = args.of
                               /\ args.input # "file" => p.node \in Matching}
    IN  IF args.input = "file" \/ args.round = "number"
        THEN {p \in there : p.name = args.number}
        ELSE IF args.round = "all" THEN there
        ELSE {p \in there : \A q \in there : q.node = p.node => q.name <= p.name}

Discover ==
    /\ pc = "Invoked"
    /\ queue' \in discover_checkpoints
    /\ pc' = IF queue' = <<>> THEN "Failed" ELSE "Converting"
    /\ asked' = Asked
    /\ created' = <<>> /\ evaluated' = 0
    /\ UNCHANGED <<engines, args, loaded, dirs, results, runs, deaths>>

-------------------------------------------------------------------------------
(* Conversion of the first in the queue.                                   *)

Item == Head(queue)
multiple == Len(queue) + Len(created) > 1

\* Mutation of out_dir: beside the directory the checkpoint was discovered in.
out_dir_of_node(item) ==
    IF args.out THEN IF multiple THEN [place |-> "inside", node |-> item.node, name |-> item.round]
                     ELSE Given
    ELSE [place |-> "beside", node |-> item.node, name |-> item.path.name]

\* Mutation of out_dir: the node is not part of the name.
out_dir_of_round(item) ==
    IF args.out THEN IF multiple THEN [place |-> "inside", node |-> Root, name |-> item.round]
                     ELSE Given
    ELSE [place |-> "beside", node |-> item.path.node, name |-> item.path.name]

out_dir(item) ==
    IF args.out THEN IF multiple THEN [place |-> "inside", node |-> item.node, name |-> item.round]
                     ELSE Given
    ELSE [place |-> "beside", node |-> item.path.node, name |-> item.path.name]

Load ==
    /\ pc = "Converting"
    /\ loaded' = files[Item.path]
    /\ pc' = IF loaded'.state = "whole" /\ loaded'.tensors # {} THEN "Loaded" ELSE "Failed"
    /\ UNCHANGED <<engines, args, queue, created, evaluated, asked, dirs, results, runs, deaths>>

SameName(t, u) == t.target = u.target /\ t.part = u.part

\* A tensor's name has a prefix and an adapter's name, which are taken out.  Of the tensors
\* that get one name so, one is kept: the last in the file.
normalize_lora_keys(tensors) ==
    LET clean == {[t EXCEPT !.module = FALSE, !.adapter = FALSE] : t \in tensors}
    IN  {(CHOOSE u \in clean : SameName(t, u)) : t \in clean}

\* Mutation of Ranks: the same dimension of both.
RanksByRow(tensors) == {t.shape[1] : t \in {u \in tensors : u.part \in {"lora_A", "lora_B"}}}

\* The rank is the first dimension of an A and the second of a B.
Ranks(tensors) ==
    {t.shape[1] : t \in {u \in tensors : u.part = "lora_A"}}
    \union {t.shape[2] : t \in {u \in tensors : u.part = "lora_B"}}

Save(from, to) ==
    /\ pc = from
    /\ pc' = to
    /\ UNCHANGED <<engines, args, loaded, evaluated, asked, results, runs, deaths>>

SaveWeights ==
    /\ Save("Loaded", "WeightsSaved")
    /\ dirs' = [dirs EXCEPT ![out_dir(Item)].of = Item.path,
                            ![out_dir(Item)].weights =
                                Whole(loaded.version, normalize_lora_keys(loaded.tensors))]
    /\ UNCHANGED <<queue, created>>

SaveConfig ==
    /\ Save("WeightsSaved", "ConfigSaved")
    /\ dirs' = [dirs EXCEPT ![out_dir(Item)].config = loaded.version,
                            ![out_dir(Item)].rank = Max({0} \union
                                IF Ranks(loaded.tensors) = {} THEN {DefaultRank}
                                ELSE Ranks(loaded.tensors))]
    /\ UNCHANGED <<queue, created>>

\* Mutation of Source: the first that was found.
SourceFound == IF created = <<>> THEN Item.path ELSE dirs[created[1]].of

Source == Item.path

\* The audit file names the checkpoint and has its hash, as it is now, and that of the weights.
SaveMeta ==
    /\ Save("ConfigSaved", IF Len(queue) > 1 THEN "Converting"
                           ELSE IF args.evaluate THEN "Evaluating" ELSE "Succeeded")
    /\ dirs' = [dirs EXCEPT ![out_dir(Item)].meta =
                    [whole |-> TRUE, of |-> Source, source |-> files[Source].version,
                     weights |-> dirs[out_dir(Item)].weights.version]]
    /\ queue' = Tail(queue)
    /\ created' = Append(created, out_dir(Item))

-------------------------------------------------------------------------------
(* Evaluation, and the end of a run.                                       *)

\* Mutation of eval_out: one directory for all.
eval_out_common(o) == EvalOutput

eval_out(o) == IF args.eval_output THEN EvalOutput ELSE o

\* The evaluation is external; the first that fails ends the run.
run_monash_evaluation ==
    /\ pc = "Evaluating"
    /\ \/ LET o == created[evaluated + 1]
          IN  /\ results' = [results EXCEPT ![eval_out(o)] = dirs[o].weights.version]
              /\ evaluated' = evaluated + 1
              /\ pc' = IF evaluated' = Len(created) THEN "Succeeded" ELSE "Evaluating"
       \/ pc' = "Failed" /\ UNCHANGED <<results, evaluated>>
    /\ UNCHANGED <<engines, args, queue, created, loaded, asked, dirs, runs, deaths>>

Cutting ==
    LET o == out_dir(Item)
    IN  CASE pc = "Loaded"       -> [dirs EXCEPT ![o].weights = Cut]
          [] pc = "WeightsSaved" -> [dirs EXCEPT ![o].config = 0]
          [] pc = "ConfigSaved"  -> [dirs EXCEPT ![o].meta = NoMeta]
          [] OTHER -> dirs

\* The tool is stopped; the file it was writing may be cut off.
Die ==
    /\ pc \notin {"Invoked", "Failed", "Succeeded"}
    /\ deaths < MaxDeaths
    /\ deaths' = deaths + 1
    /\ dirs' \in {dirs, Cutting}
    /\ pc' = "Failed"
    /\ UNCHANGED <<engines, memory, results, runs>>

Again ==
    /\ pc \in {"Failed", "Succeeded"}
    /\ runs < MaxRuns
    /\ runs' = runs + 1
    /\ args' \in Args
    /\ pc' = "Invoked"
    /\ queue' = <<>> /\ created' = <<>> /\ evaluated' = 0
    /\ loaded' = Absent
    /\ asked' = {}
    /\ UNCHANGED <<engines, dirs, results, deaths>>

Next ==
    \/ \E n \in Node : SaveBase(n) \/ SaveSync(n) \/ CutOff(n) \/ Restart(n)
    \/ Discover \/ Load \/ SaveWeights \/ SaveConfig \/ SaveMeta
    \/ run_monash_evaluation \/ Die \/ Again

Spec == Init /\ [][Next]_vars

-------------------------------------------------------------------------------
(* Properties.                                                             *)

\* What a file may hold, and the weights beside an audit file.
Contents == {Absent, Cut} \union {Whole(v, Saved[v]) : v \in 1..MaxWrites}

Weights ==
    {Absent, Cut} \union {Whole(v, normalize_lora_keys(Saved[v])) : v \in 1..MaxWrites}

Meta ==
    [whole : BOOLEAN, of : Path \union {NoPath}, source : 0..MaxWrites, weights : 0..MaxWrites]

Directory ==
    [of : Path \union {NoPath}, weights : Weights, config : 0..MaxWrites, rank : Nat,
     meta : Meta]

Discovered == [node : Node \union {Root}, round : SyncRound \union {0}, path : Path]

TypeOK ==
    /\ files \in [Path -> Contents] /\ \A p \in Path : files[p].version <= writes
    /\ next \in [Node -> Nat]
    /\ saving \subseteq Node
    /\ newest \in [Node -> SyncRound \union {0}]
    /\ restarts \in 0..MaxRestarts /\ writes \in 0..MaxWrites
    /\ args \in Args
    /\ pc \in {"Invoked", "Converting", "Loaded", "WeightsSaved", "ConfigSaved", "Evaluating",
               "Failed", "Succeeded"}
    /\ queue \in Seq(Discovered) /\ created \in Seq(Dirs)
    /\ loaded \in Contents /\ loaded.version <= writes
    /\ evaluated \in 0..Len(created)
    /\ asked \subseteq Path
    /\ dirs \in [Dirs -> Directory]
    /\ results \in [Dirs \union {EvalOutput} -> 0..MaxWrites]
    /\ runs \in 1..MaxRuns /\ deaths \in 0..MaxDeaths

\* Exit code 0 means that each checkpoint asked for has a directory of its own, with weights,
\* configuration and audit file of that checkpoint.
ConvertedAsAsked ==
    pc = "Succeeded" /\ asked # {} =>
        /\ Len(created) = Cardinality(asked)
        /\ \A p \in asked : \E i \in DOMAIN created :
              LET o == dirs[created[i]]
              IN  /\ o.of = p /\ o.weights.state = "whole"
                  /\ o.config = o.weights.version
                  /\ o.meta.whole /\ o.meta.of = p /\ o.meta.weights = o.weights.version

\* As long as no engine has died, the latest round of a node is the one its engine wrote
\* last, or the one whose file it is writing.
LatestIsNewest ==
    [][/\ pc = "Invoked" /\ pc' = "Converting"
       /\ args.round = "latest" /\ args.input # "file" /\ restarts = 0
       => \A i \in DOMAIN queue' :
            LET n == queue'[i].node
            IN  n # Root => \/ queue'[i].round = newest[n]
                            \/ n \in saving /\ queue'[i].round = next[n]]_vars

\* An audit file that fits the weights beside it has the hash of what they were made from,
\* whatever was stopped half way and run again; for sync rounds, which an
\* engine that does not die writes once.
AuditHolds ==
    restarts = 0 => \A o \in Dirs :
        LET meta == dirs[o].meta
        IN  /\ meta.whole /\ meta.of.name \in SyncRound
            /\ dirs[o].weights.state = "whole" /\ meta.weights = dirs[o].weights.version
            => meta.source = dirs[o].weights.version

LoraTensors(tensors) == {t \in tensors : t.part # "none"}
RankOf(t) == t.shape[IF t.part = "lora_A" THEN 1 ELSE 2]

\* The adapter has one tensor for each module and part that the checkpoint has, under however
\* many names; and if the checkpoint is of one rank the configuration has that of the weights.
AdapterFits ==
    pc = "ConfigSaved" =>
        LET o == dirs[out_dir(Item)]
            from == LoraTensors(loaded.tensors)
        IN  /\ \A t \in loaded.tensors : \E u \in o.weights.tensors : SameName(t, u)
            /\ \A t, u \in o.weights.tensors : SameName(t, u) => t = u
            /\ (\A t, u \in from : RankOf(t) = RankOf(u)) =>
                   \A t \in LoraTensors(o.weights.tensors) : RankOf(t) = o.rank

\* After a run with an evaluation of each directory the results are those of its weights.
ResultsAreOwn ==
    pc = "Succeeded" /\ args.evaluate /\ ~args.eval_output =>
        \A i \in DOMAIN created : results[created[i]] = dirs[created[i]].weights.version
==============================================================================
