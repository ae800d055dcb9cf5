-------------------------- MODULE AdapterExport_proofs --------------------------
(***************************************************************************)
(* Theorems about AdapterExport for any nodes, rounds, tensors, command    *)
(* lines, deaths and repetitions.                                          *)
(***************************************************************************)
EXTENDS AdapterExport, FiniteLemmas, SequenceTheorems

-------------------------------------------------------------------------------
(* The invariant.                                                          *)

HasLoaded == pc \in {"Loaded", "WeightsSaved", "ConfigSaved"}
InWork == pc = "Converting" \/ HasLoaded
Converted == pc \in {"Evaluating", "Succeeded"}

\* The queue empties in front of the evaluation, which goes through what was created.
Work ==
    /\ InWork => queue # <<>> /\ evaluated = 0
    /\ HasLoaded => loaded.state = "whole"
    /\ Converted => queue = <<>>
    /\ pc = "Evaluating" => evaluated < Len(created)

\* What the directory in work holds so far.
Written ==
    LET o == dirs[out_dir(Item)]
    IN  /\ pc \in {"WeightsSaved", "ConfigSaved"} =>
              /\ o.of = Item.path
              /\ o.weights = Whole(loaded.version, normalize_lora_keys(loaded.tensors))
        /\ pc = "ConfigSaved" =>
              /\ o.config = loaded.version
              /\ o.rank = Max({0} \union IF Ranks(loaded.tensors) = {} THEN {DefaultRank}
                                         ELSE Ranks(loaded.tensors))

\* What was written stays on disk, and a sync round is written when its base has been.
Kept ==
    /\ \A n \in saving : Present(Named(n, Base))
    /\ \A n \in Node : newest[n] # 0 => Present(Named(n, newest[n]))

\* An engine that does not die goes up in its rounds and never comes back to a file.
SyncFiles ==
    /\ \A n \in saving : next[n] \in SyncRound /\ files[Named(n, next[n])].state = "cut"
    /\ restarts = 0 =>
          /\ \A n \in Node : newest[n] < next[n]
          /\ \A n \in Node, r \in SyncRound :
                Present(Named(n, r)) => r <= newest[n] \/ (n \in saving /\ r = next[n])
          /\ HasLoaded /\ Item.path.name \in SyncRound => files[Item.path] = loaded

Audits ==
    restarts = 0 => \A o \in Dirs :
        LET meta == dirs[o].meta
        IN  meta.whole /\ meta.of.name \in SyncRound => meta.source = meta.weights

\* A directory made of p is complete.
Finished(d, p) ==
    /\ d.of = p /\ d.weights.state = "whole" /\ d.config = d.weights.version
    /\ d.meta.whole /\ d.meta.of = p /\ d.meta.weights = d.weights.version

\* What was asked for is in the queue or finished, and no directory is used twice.
Progress ==
    asked # {} /\ (InWork \/ Converted) =>
        /\ \A i \in DOMAIN queue :
              LET p == queue[i].path IN p \in asked /\ queue[i] = Found(p.node, p.name, p)
        /\ \A i, j \in DOMAIN queue : queue[i].path = queue[j].path => i = j
        /\ \A i \in DOMAIN created, j \in DOMAIN queue : created[i] # out_dir(queue[j])
        /\ Len(created) + Len(queue) = Cardinality(asked)
        /\ \A p \in asked : \/ \E i \in DOMAIN queue : queue[i].path = p
                            \/ \E i \in DOMAIN created : Finished(dirs[created[i]], p)

Evaluations ==
    /\ pc = "Succeeded" /\ args.evaluate => evaluated = Len(created)
    /\ Converted /\ ~args.eval_output =>
          \A i \in 1..evaluated : results[created[i]] = dirs[created[i]].weights.version

ExportInv ==
    /\ TypeOK /\ Work /\ Written /\ Kept /\ SyncFiles /\ Audits /\ Progress /\ Evaluations

-------------------------------------------------------------------------------
(* Files and their contents.                                               *)

LEMMA NamedType ==
    ASSUME NEW n \in Node, NEW name \in SyncRound \union {Base, Delta}
    PROVE  Named(n, name) \in Path /\ Named(n, name).node = n /\ Named(n, name).name = name
BY DEF Named, Path

LEMMA PathParts ==
    ASSUME NEW p \in Path
    PROVE  /\ p.node \in Node /\ p.name \in SyncRound \union {Base, Delta}
           /\ p = Named(p.node, p.name)
BY DEF Named, Path

\* Numbers of sync rounds are no names of other files.
LEMMA SyncRoundType ==
    SyncRound \subseteq 1..99 /\ SyncRound \subseteq Nat \ {0}
    /\ Base \notin SyncRound /\ Delta \notin SyncRound
<1>1. \A r \in SyncRound : r \in 1..99
  BY ExportAssumption, Zenon DEF ExportAssumption
<1>2. 0 \notin 1..99 /\ -1 \notin 1..99 /\ 1..99 \subseteq Nat \ {0}
  OBVIOUS
<1> QED BY <1>1, <1>2 DEF Base, Delta

LEMMA ContentsType ==
    ASSUME NEW c \in Contents
    PROVE  /\ c.state \in {"absent", "cut", "whole"} /\ c.version \in 0..MaxWrites
           /\ c.state = "whole" =>
                 /\ c.version \in 1..MaxWrites /\ c.tensors = Saved[c.version]
                 /\ c = Whole(c.version, Saved[c.version])
BY ExportAssumption DEF Contents, Absent, Cut, Whole

LEMMA WholeType ==
    ASSUME NEW v \in 1..MaxWrites
    PROVE  /\ Whole(v, Saved[v]) \in Contents
           /\ Whole(v, normalize_lora_keys(Saved[v])) \in Weights
           /\ Whole(v, Saved[v]).version = v
BY DEF Contents, Weights, Whole

LEMMA CutType ==
    /\ Absent \in Contents /\ Cut \in Contents /\ Cut \in Weights /\ Absent \in Weights
    /\ Cut.version = 0 /\ Absent.version = 0 /\ Cut.state = "cut"
BY DEF Contents, Weights, Absent, Cut

LEMMA WeightsVersion ==
    ASSUME NEW w \in Weights
    PROVE  w.version \in 0..MaxWrites
BY ExportAssumption DEF Weights, Absent, Cut, Whole

\* Where an adapter goes.
LEMMA OutDirType ==
    ASSUME NEW item \in Discovered
    PROVE  out_dir(item) \in Dirs
<1>1. /\ item.node \in Node \union {Root} /\ item.round \in SyncRound \union {0}
      /\ item.path.node \in Node /\ item.path.name \in SyncRound \union {Base, Delta}
  BY PathParts DEF Discovered
<1> QED BY <1>1 DEF out_dir, Dirs, OutDir, Given

\* The first in the queue, and the others.
LEMMA ItemType ==
    ASSUME queue \in Seq(Discovered), queue # <<>>
    PROVE  /\ Item \in Discovered /\ Item = queue[1] /\ Item.path \in Path
           /\ Tail(queue) \in Seq(Discovered) /\ Len(queue) \in Nat \ {0}
           /\ Len(Tail(queue)) = Len(queue) - 1
           /\ DOMAIN queue = 1..Len(queue) /\ DOMAIN Tail(queue) = 1..(Len(queue) - 1)
           /\ \A i \in 1..(Len(queue) - 1) : Tail(queue)[i] = queue[i + 1]
<1>1. /\ Len(queue) \in Nat \ {0} /\ DOMAIN queue = 1..Len(queue)
      /\ Tail(queue) \in Seq(Discovered) /\ Len(Tail(queue)) = Len(queue) - 1
      /\ DOMAIN Tail(queue) = 1..(Len(queue) - 1)
      /\ \A i \in 1..(Len(queue) - 1) : Tail(queue)[i] = queue[i + 1]
  BY LenProperties, EmptySeq, HeadTailProperties
<1>2. Item = queue[1]
  BY DEF Item
<1>3. queue[1] \in Discovered
  BY <1>1, ElementOfSeq
<1> QED BY <1>1, <1>2, <1>3 DEF Discovered

-------------------------------------------------------------------------------
(* Discovery.                                                              *)

\* Only finitely much can be discovered.
LEMMA DiscoveredFinite == IsFiniteSet(Discovered) /\ IsFiniteSet(Path)
<1>1. IsFiniteSet(Node) /\ IsFiniteSet(SyncRound)
  <2>1. IsFiniteSet(1..99)
    <3>1. 1 \in Int /\ 99 \in Int
      OBVIOUS
    <3> QED BY <3>1, FS_Interval, Zenon
  <2> QED BY <2>1, SyncRoundType, FS_Subset, ExportAssumption
<1> DEFINE names == SyncRound \union {Base, Delta}
           rounds == SyncRound \union {0}
           nodes == Node \union {Root}
<1>2. IsFiniteSet(names) /\ IsFiniteSet(rounds) /\ IsFiniteSet(nodes)
  <2>1. IsFiniteSet({Base, Delta}) /\ IsFiniteSet({0}) /\ IsFiniteSet({Root})
    <3>1. \A x : IsFiniteSet({x})
      BY FS_Singleton, Zenon
    <3>2. IsFiniteSet({Base} \union {Delta})
      BY <3>1, FS_Union, Zenon
    <3>3. {Base, Delta} = {Base} \union {Delta}
      OBVIOUS
    <3> QED BY <3>1, <3>2, <3>3, Zenon
  <2> QED BY <1>1, <2>1, FS_Union
<1>3. IsFiniteSet(Path)
  <2> DEFINE f == [t \in Node \X names |-> Named(t[1], t[2])]
  <2>1. IsFiniteSet(Node \X names)
    BY <1>1, <1>2, FS_Product
  <2>2. f \in Surjection(Node \X names, Path)
    <3>1. f \in [Node \X names -> Path]
      BY NamedType
    <3>2. ASSUME NEW p \in Path PROVE \E t \in Node \X names : f[t] = p
      <4>1. <<p.node, p.name>> \in Node \X names
        BY PathParts
      <4>2. f[<<p.node, p.name>>] = p
        BY <4>1, PathParts
      <4> QED BY <4>1, <4>2
    <3> HIDE DEF f
    <3> QED BY <3>1, <3>2 DEF Surjection
  <2> HIDE DEF f, names
  <2> QED BY <2>1, <2>2, FS_Surjection
<1>4. IsFiniteSet(Discovered)
  <2> DEFINE T == (nodes \X rounds) \X Path
             f == [t \in T |-> Found(t[1][1], t[1][2], t[2])]
  <2>1. IsFiniteSet(nodes \X rounds)
    BY <1>2, FS_Product
  <2>2. IsFiniteSet(T)
    BY <1>3, <2>1, FS_Product
  <2>3. f \in Surjection(T, Discovered)
    <3>1. f \in [T -> Discovered]
      BY DEF Found, Discovered
    <3>2. ASSUME NEW d \in Discovered PROVE \E t \in T : f[t] = d
      <4>1. <<<<d.node, d.round>>, d.path>> \in T
        BY DEF Discovered
      <4>2. f[<<<<d.node, d.round>>, d.path>>] = d
        BY <4>1 DEF Found, Discovered
      <4> QED BY <4>1, <4>2
    <3> HIDE DEF f, T
    <3> QED BY <3>1, <3>2 DEF Surjection
  <2> HIDE DEF f, T
  <2> QED BY <2>2, <2>3, FS_Surjection
<1> QED BY <1>3, <1>4

\* A listing has every one of what is found once.
LEMMA ListingType ==
    ASSUME NEW found \in SUBSET Discovered, NEW q \in Listings(found)
    PROVE  /\ q \in Seq(Discovered)
           /\ Len(q) = Cardinality(found) /\ DOMAIN q = 1..Len(q)
           /\ \A i \in DOMAIN q : q[i] \in found
           /\ \A i, j \in DOMAIN q : q[i] = q[j] => i = j
           /\ \A f \in found : \E i \in DOMAIN q : q[i] = f
<1> DEFINE k == Cardinality(found)
<1>1. IsFiniteSet(found) /\ k \in Nat
  BY DiscoveredFinite, FS_Subset, FS_CardinalityType
<1>2. q \in [1..k -> found] /\ \A i, j \in DOMAIN q : i < j => q[i] # q[j]
  BY DEF Listings
<1> HIDE DEF k
<1>3. q \in Seq(found) /\ Len(q) = k
  <2>1. q \in Seq(found)
    BY <1>1, <1>2, SeqDef
  <2> QED BY <1>1, <1>2, <2>1, LenProperties
<1>4. \A i, j \in DOMAIN q : q[i] = q[j] => i = j
  <2> SUFFICES ASSUME NEW i \in 1..k, NEW j \in 1..k, q[i] = q[j], i # j PROVE FALSE
    BY <1>2
  <2>1. i < j \/ j < i
    BY <1>1
  <2> QED BY <1>2, <2>1
<1>5. \A f \in found : \E i \in DOMAIN q : q[i] = f
  <2>1. q \in Injection(1..k, found)
    BY <1>2, <1>4 DEF Injection, IsInjective
  <2>2. Cardinality(1..k) = k
    <3>1. 1 \in Int /\ k \in Int
      BY <1>1
    <3>2. Cardinality(1..k) = IF 1 > k THEN 0 ELSE k - 1 + 1
      BY <3>1, FS_Interval, Zenon
    <3> QED BY <1>1, <3>2
  <2>3. q \in Surjection(1..k, found)
    BY <1>1, <2>1, <2>2, FS_Injection DEF k
  <2> QED BY <1>2, <2>3 DEF Surjection
<1> QED BY <1>2, <1>3, <1>4, <1>5 DEF k

LEMMA FoundType ==
    ASSUME NEW n \in Node \union {Root}, NEW r \in SyncRound \union {0}, NEW p \in Path
    PROVE  Found(n, r, p) \in Discovered
BY DEF Found, Discovered

LEMMA SelectedSome ==
    ASSUME NEW found
    PROVE  Selected(found) \subseteq found
BY DEF Selected

LEMMA NodesFound ==
    ASSUME NEW n \in Node
    PROVE  /\ find_sync_round_files_in_dir(n) \subseteq Discovered
           /\ Selected(find_sync_round_files_in_dir(n)) \subseteq Discovered
<1>1. \A r \in SyncRound : Found(n, r, Named(n, r)) \in Discovered
  BY NamedType, FoundType
<1>2. find_sync_round_files_in_dir(n) \subseteq Discovered
  BY <1>1 DEF find_sync_round_files_in_dir
<1> QED BY <1>2, SelectedSome

\* Whatever the command line, checkpoints are discovered.
LEMMA DiscoveryType ==
    ASSUME args \in parse_args, NEW q \in discover_checkpoints
    PROVE  q \in Seq(Discovered)
<1>1. ASSUME NEW nodes \in SUBSET Node PROVE FoundIn(nodes) \in SUBSET Discovered
  BY NodesFound DEF FoundIn
<1>2. Matching \in SUBSET Node
  BY DEF Matching, parse_args
<1>3. OtherFiles \in SUBSET Discovered
  BY FoundType DEF OtherFiles
<1>4. CASE args.input = "file"
  <2> DEFINE path == Named(args.of, args.number)
             round == IF args.number \in SyncRound THEN args.number ELSE 0
             found == IF Present(path) THEN {Found(args.of, round, path)} ELSE {}
  <2>1. Found(args.of, round, path) \in Discovered
    BY NamedType, FoundType DEF parse_args
  <2>2. q \in Listings(found)
    BY <1>4 DEF discover_checkpoints
  <2>3. found \in SUBSET Discovered
    BY <2>1
  <2> HIDE DEF found
  <2> QED BY <2>2, <2>3, ListingType
<1>5. CASE args.input = "node"
  <2>1. q \in Listings(FoundIn(Matching \intersect {args.of}))
    BY <1>5 DEF discover_checkpoints
  <2>2. FoundIn(Matching \intersect {args.of}) \in SUBSET Discovered
    BY <1>1, <1>2
  <2> QED BY <2>1, <2>2, ListingType
<1>6. CASE args.input = "root"
  <2>1. \/ q \in Listings(FoundIn(Matching))
        \/ q = <<>>
        \/ \E f \in OtherFiles : q = <<f>>
        \/ q \in Listings(Selected(OtherFiles))
    BY <1>6 DEF discover_checkpoints
  <2>2. FoundIn(Matching) \in SUBSET Discovered /\ Selected(OtherFiles) \in SUBSET Discovered
    BY <1>1, <1>2, <1>3, SelectedSome
  <2>3. q \in Listings(FoundIn(Matching)) => q \in Seq(Discovered)
    BY <2>2, ListingType
  <2>4. q \in Listings(Selected(OtherFiles)) => q \in Seq(Discovered)
    BY <2>2, ListingType
  <2>5. <<>> \in Seq(Discovered)
    BY EmptySeq
  <2>6. \A f \in Discovered : <<f>> \in Seq(Discovered)
    OBVIOUS
  <2> QED BY <1>3, <2>1, <2>3, <2>4, <2>5, <2>6, Zenon
<1> QED BY <1>4, <1>5, <1>6 DEF parse_args

\* What the discovery makes of the sync rounds that were asked for.
Checkpoints(paths) == {Found(p.node, p.name, p) : p \in paths}

LEMMA FoundSyncRound ==
    ASSUME NEW n \in Node, NEW f
    PROVE  f \in find_sync_round_files_in_dir(n) <=>
               /\ f.path \in Path /\ f.path.node = n /\ f.path.name \in SyncRound
               /\ Present(f.path)
               /\ f = Found(f.path.node, f.path.name, f.path)
<1>1. ASSUME f \in find_sync_round_files_in_dir(n)
      PROVE  /\ f.path \in Path /\ f.path.node = n /\ f.path.name \in SyncRound
             /\ Present(f.path)
             /\ f = Found(f.path.node, f.path.name, f.path)
  <2>1. PICK r \in SyncRound : Present(Named(n, r)) /\ f = Found(n, r, Named(n, r))
    BY <1>1 DEF find_sync_round_files_in_dir
  <2>2. f.path = Named(n, r)
    BY <2>1 DEF Found
  <2>3. f.path \in Path /\ f.path.node = n /\ f.path.name = r
    BY <2>2, NamedType
  <2> QED BY <2>1, <2>2, <2>3
<1>2. ASSUME /\ f.path \in Path /\ f.path.node = n /\ f.path.name \in SyncRound
             /\ Present(f.path)
             /\ f = Found(f.path.node, f.path.name, f.path)
      PROVE  f \in find_sync_round_files_in_dir(n)
  <2>1. f.path = Named(n, f.path.name)
    BY <1>2, PathParts
  <2> QED BY <1>2, <2>1 DEF find_sync_round_files_in_dir
<1> QED BY <1>1, <1>2

\* It is exactly what was asked for: the order in which the code goes through directories
\* and rounds does not come into it.
LEMMA DiscoveryAsAsked ==
    ASSUME args \in parse_args, Asked # {}, NEW q \in discover_checkpoints
    PROVE  q \in Listings(Checkpoints(Asked))
<1> DEFINE there == {p \in Path : /\ p.name \in SyncRound /\ Present(p)
                                  /\ args.input # "root" => p.node = args.of
                                  /\ args.input # "file" => p.node \in Matching}
<1>1. /\ Asked = IF args.input = "file" \/ args.round = "number"
                 THEN {p \in there : p.name = args.number}
                 ELSE IF args.round = "all" THEN there
                 ELSE {p \in there : \A r \in there : r.node = p.node => r.name <= p.name}
      /\ Asked \subseteq there
  BY DEF Asked
<1>2. CASE args.input = "file"
  <2> DEFINE path == Named(args.of, args.number)
  <2>1. PICK p \in Asked : TRUE
    OBVIOUS
  <2>2. \A r \in Asked : r = path /\ r.name \in SyncRound /\ Present(r) /\ r.name = args.number
                         /\ r.node = args.of
    BY <1>1, <1>2, PathParts
  <2>3. Asked = {path} /\ args.number \in SyncRound /\ Present(path)
    BY <2>1, <2>2
  <2>4. q \in Listings({Found(args.of, args.number, path)})
    BY <1>2, <2>3 DEF discover_checkpoints
  <2>5. Checkpoints(Asked) = {Found(args.of, args.number, path)}
    <3>1. path.node = args.of /\ path.name = args.number
      BY <2>2, <2>3
    <3> QED BY <2>3, <3>1 DEF Checkpoints
  <2> QED BY <2>4, <2>5
<1>3. CASE args.input # "file"
  <2> DEFINE nodes == IF args.input = "node" THEN Matching \intersect {args.of} ELSE Matching
  <2>1. nodes \in SUBSET Node
    BY DEF Matching, parse_args
  <2>2. q \in Listings(FoundIn(nodes))
    <3>1. CASE args.input = "node"
      BY <3>1 DEF discover_checkpoints
    <3>2. CASE args.input = "root"
      <4>1. PICK p \in there : TRUE
        BY <1>1
      <4>2. \E n \in Node, r \in SyncRound : Present(Named(n, r))
        BY <4>1, PathParts
      <4> QED BY <3>2, <4>2 DEF discover_checkpoints
    <3> QED BY <1>3, <3>1, <3>2 DEF parse_args
  <2>3. there = {p \in Path : p.name \in SyncRound /\ Present(p) /\ p.node \in nodes}
    BY <1>3, <2>1 DEF parse_args
  <2>4. ASSUME NEW n \in nodes, NEW f
        PROVE  f \in find_sync_round_files_in_dir(n) <=>
                   f.path \in there /\ f.path.node = n /\ f = Found(f.path.node, f.path.name, f.path)
    <3> HIDE DEF there, nodes
    <3> QED BY <2>1, <2>3, FoundSyncRound
  <2>5. ASSUME NEW n \in nodes, NEW f
        PROVE  f \in Selected(find_sync_round_files_in_dir(n)) <=>
                   f.path \in Asked /\ f.path.node = n /\ f = Found(f.path.node, f.path.name, f.path)
    <3> DEFINE found == find_sync_round_files_in_dir(n)
    <3>1. f \in found => f.round = f.path.name
      <4> HIDE DEF there, nodes
      <4> QED BY <2>4 DEF Found
    <3>2. CASE args.round = "all"
      <4> HIDE DEF there, nodes
      <4> QED BY <1>1, <1>3, <2>4, <3>2 DEF Selected
    <3>3. CASE args.round = "number"
      <4> HIDE DEF there, nodes
      <4> QED BY <1>1, <1>3, <2>4, <3>1, <3>3 DEF Selected
    <3>4. CASE args.round \notin {"all", "number"}
      <4>1. f \in Selected(found) <=>
                f \in found /\ \A g \in found : ~RoundBefore(f.round, g.round)
        BY <3>4 DEF Selected
      <4>2. f.path \in Asked <=>
                f.path \in there /\ \A r \in there : r.node = f.path.node => r.name <= f.path.name
        BY <1>1, <1>3, <3>4
      <4>3. ASSUME f \in found
            PROVE  (\A g \in found : ~RoundBefore(f.round, g.round)) <=>
                   (\A r \in there : r.node = n => r.name <= f.path.name)
        <5>1. f.round = f.path.name /\ f.path.name \in Int
          <6>1. f.path.name \in SyncRound
            <7> HIDE DEF nodes
            <7> QED BY <2>4, <4>3
          <6>2. f.path.name \in Nat
            BY <6>1, SyncRoundType
          <6> QED BY <3>1, <4>3, <6>2
        <5>2. ASSUME NEW g \in found, NEW r \in there, r.node = n, r.name <= f.path.name, r = g.path
              PROVE  ~RoundBefore(f.round, g.round)
          <6>1. g.round = r.name /\ r.name \in Int
            BY <2>4, <5>2, SyncRoundType DEF Found
          <6> QED BY <5>1, <5>2, <6>1 DEF RoundBefore
        <5>3. ASSUME NEW r \in there, r.node = n,
                     ~RoundBefore(f.round, Found(n, r.name, r).round)
              PROVE  r.name <= f.path.name
          <6>1. r.name \in Nat
            BY SyncRoundType
          <6>2. Found(n, r.name, r).round = r.name
            BY DEF Found
          <6> QED BY <5>1, <5>3, <6>1, <6>2 DEF RoundBefore
        <5>4. \A r \in there : r.node = n => Found(n, r.name, r) \in found
          <6> SUFFICES ASSUME NEW r \in there, r.node = n PROVE Found(n, r.name, r) \in found
            OBVIOUS
          <6>1. Found(n, r.name, r).path = r
            BY DEF Found
          <6> HIDE DEF there, nodes, found
          <6> QED BY <2>4, <6>1 DEF found
        <5>5. \A g \in found : g.path \in there /\ g.path.node = n
          <6> HIDE DEF there, nodes
          <6> QED BY <2>4
        <5> HIDE DEF there, nodes, found
        <5> QED BY <5>2, <5>3, <5>4, <5>5
      <4> HIDE DEF there, nodes
      <4> QED BY <1>1, <2>4, <4>1, <4>2, <4>3
    <3> QED BY <3>2, <3>3, <3>4
  <2>6. FoundIn(nodes) = Checkpoints(Asked)
    <3>1. ASSUME NEW f \in FoundIn(nodes) PROVE f \in Checkpoints(Asked)
      <4>1. PICK n \in nodes : f \in Selected(find_sync_round_files_in_dir(n))
        BY DEF FoundIn
      <4>2. f.path \in Asked /\ f = Found(f.path.node, f.path.name, f.path)
        <5> HIDE DEF nodes
        <5> QED BY <2>5, <4>1
      <4> QED BY <4>2 DEF Checkpoints
    <3>2. ASSUME NEW f \in Checkpoints(Asked) PROVE f \in FoundIn(nodes)
      <4>1. PICK p \in Asked : f = Found(p.node, p.name, p)
        BY DEF Checkpoints
      <4>2. f.path = p /\ p.node \in nodes
        <5> HIDE DEF nodes
        <5> QED BY <1>1, <2>3, <4>1 DEF Found
      <4>3. f \in Selected(find_sync_round_files_in_dir(p.node))
        <5> HIDE DEF nodes
        <5> QED BY <2>5, <4>1, <4>2
      <4> QED BY <4>2, <4>3 DEF FoundIn
    <3> QED BY <3>1, <3>2
  <2> QED BY <2>2, <2>6
<1> QED BY <1>2, <1>3

-------------------------------------------------------------------------------
(* The tensors of an adapter.                                              *)

\* The rank in the configuration is that of every LoRA tensor.
LEMMA ConfigRank ==
    ASSUME NEW v \in 1..MaxWrites
    PROVE  LET ranks == Ranks(Saved[v])
               rank == Max({0} \union IF ranks = {} THEN {DefaultRank} ELSE ranks)
           IN  rank \in Nat /\ ((\A x, y \in ranks : x = y) => \A x \in ranks : x = rank)
<1> DEFINE ranks == Ranks(Saved[v])
           S == {0} \union IF ranks = {} THEN {DefaultRank} ELSE ranks
           row(t) == t.shape[1]
           column(t) == t.shape[2]
           As == {u \in Saved[v] : u.part = "lora_A"}
           Bs == {u \in Saved[v] : u.part = "lora_B"}
<1>1. Saved[v] \in SUBSET Tensors /\ IsFiniteSet(Saved[v])
  BY SavedAssumption
<1>2. IsFiniteSet(As) /\ IsFiniteSet(Bs)
  BY <1>1, FS_Subset
<1>3. ranks = {row(t) : t \in As} \union {column(t) : t \in Bs}
  BY DEF Ranks
<1>4. ranks \in SUBSET Nat
  <2>1. \A t \in Saved[v] : t.shape[1] \in Nat /\ t.shape[2] \in Nat
    BY <1>1 DEF Tensors
  <2> QED BY <1>3, <2>1
<1>5. IsFiniteSet(ranks)
  <2>1. IsFiniteSet({row(t) : t \in As})
    <3> HIDE DEF As
    <3>1. [t \in As |-> row(t)] \in Surjection(As, {row(t) : t \in As})
      BY DEF Surjection
    <3> QED BY <1>2, <3>1, FS_Surjection
  <2>2. IsFiniteSet({column(t) : t \in Bs})
    <3> HIDE DEF Bs
    <3>1. [t \in Bs |-> column(t)] \in Surjection(Bs, {column(t) : t \in Bs})
      BY DEF Surjection
    <3> QED BY <1>2, <3>1, FS_Surjection
  <2> HIDE DEF ranks, As, Bs, row, column
  <2> QED BY <1>3, <2>1, <2>2, FS_Union
<1> HIDE DEF ranks
<1>6. S \in SUBSET Nat /\ S # {} /\ IsFiniteSet(S)
  <2>1. DefaultRank \in Nat
    BY ExportAssumption
  <2>2. \A x : IsFiniteSet({x})
    BY FS_Singleton, Zenon
  <2>3. IsFiniteSet(IF ranks = {} THEN {DefaultRank} ELSE ranks)
    BY <1>5, <2>2
  <2>4. IsFiniteSet(S)
    BY <2>2, <2>3, FS_Union, Zenon
  <2> QED BY <1>4, <2>1, <2>4
<1>7. Max(S) \in S /\ \A y \in S : Max(S) >= y
  <2> HIDE DEF S
  <2> QED BY <1>6, LargestNumber
<1>8. ASSUME \A x, y \in ranks : x = y, NEW x \in ranks PROVE x = Max(S)
  <2>1. x \in Nat /\ x \in S /\ ranks = {x}
    BY <1>4, <1>8
  <2>2. S = {0, x}
    BY <2>1
  <2>3. Max(S) \in {0, x} /\ Max(S) >= x
    BY <1>7, <2>1, <2>2
  <2> QED BY <2>1, <2>3
<1>9. Max(S) \in Nat
  BY <1>6, <1>7
<1> QED BY <1>8, <1>9 DEF S, ranks

\* Normalising keeps a tensor for each module and part, one of those that were there.
LEMMA Normalised ==
    ASSUME NEW v \in 1..MaxWrites
    PROVE  LET tensors == normalize_lora_keys(Saved[v])
           IN  /\ \A t \in tensors : \E u \in Saved[v] : t.part = u.part /\ t.shape = u.shape
               /\ \A t \in Saved[v] : \E u \in tensors : SameName(t, u)
               /\ \A t, u \in tensors : SameName(t, u) => t = u
<1> DEFINE old == Saved[v]
           new == normalize_lora_keys(old)
           clean(t) == [t EXCEPT !.module = FALSE, !.adapter = FALSE]
           C == {clean(t) : t \in old}
           kept(t) == CHOOSE u \in C : SameName(t, u)
<1>1. old \in SUBSET Tensors
  BY SavedAssumption
<1>2. ASSUME NEW t \in old
      PROVE  clean(t).target = t.target /\ clean(t).part = t.part /\ clean(t).shape = t.shape
  BY <1>1 DEF Tensors
<1>3. new = {kept(t) : t \in C}
  BY DEF normalize_lora_keys
<1>4. ASSUME NEW t \in C PROVE kept(t) \in C /\ SameName(t, kept(t))
  <2>1. SameName(t, t)
    BY DEF SameName
  <2> QED BY <1>4, <2>1
<1>5. ASSUME NEW t \in C, NEW u \in C, SameName(t, u) PROVE kept(t) = kept(u)
  <2>1. \A w : SameName(t, w) <=> SameName(u, w)
    BY <1>5 DEF SameName
  <2> QED BY <2>1
<1>6. \A t \in C : \E u \in old : t.part = u.part /\ t.shape = u.shape
  <2> HIDE DEF clean, old
  <2> QED BY <1>2
<1>7. \A t \in old : \E u \in C : SameName(t, u)
  <2> HIDE DEF clean, old
  <2> QED BY <1>2 DEF SameName
<1> HIDE DEF old, new, clean, C, kept
<1>8. \A t \in new : \E u \in old : t.part = u.part /\ t.shape = u.shape
  BY <1>3, <1>4, <1>6
<1>9. ASSUME NEW t \in old PROVE \E u \in new : SameName(t, u)
  <2>1. PICK u \in C : SameName(t, u)
    BY <1>7
  <2> QED BY <1>3, <1>4, <2>1 DEF SameName
<1>10. ASSUME NEW t \in new, NEW u \in new, SameName(t, u) PROVE t = u
  <2>1. PICK a \in C, b \in C : t = kept(a) /\ u = kept(b)
    BY <1>3
  <2>2. SameName(a, b)
    BY <1>4, <1>10, <2>1 DEF SameName
  <2> QED BY <1>5, <2>1, <2>2
<1> QED BY <1>8, <1>9, <1>10 DEF new, old

-------------------------------------------------------------------------------
(* Type correctness.                                                       *)

LEMMA NoDirType == NoDir \in Directory /\ NoMeta \in Meta
<1>1. 0 \in 0..MaxWrites
  BY ExportAssumption
<1>2. NoMeta \in Meta
  BY <1>1 DEF NoMeta, Meta
<1>3. Absent \in Weights
  BY CutType
<1> QED BY <1>1, <1>2, <1>3 DEF NoDir, Directory

LEMMA Bounds ==
    /\ MaxWrites \in Nat /\ MaxRestarts \in Nat /\ MaxRuns \in Nat \ {0} /\ MaxDeaths \in Nat
    /\ Interval \in Nat \ {0} /\ DefaultRank \in Nat
BY ExportAssumption

LEMMA InitType == Init => TypeOK
<1> SUFFICES ASSUME Init PROVE TypeOK
  OBVIOUS
<1>1. \A p \in Path : files[p] = Absent /\ files[p].version <= 0
  BY CutType DEF Init
<1>2. files \in [Path -> Contents]
  BY CutType DEF Init
<1>3. <<>> \in Seq(Discovered) /\ <<>> \in Seq(Dirs) /\ Len(<<>>) = 0
  BY EmptySeq
<1>4. dirs \in [Dirs -> Directory]
  BY NoDirType DEF Init
<1>5. loaded \in Contents /\ loaded.version <= 0
  BY CutType DEF Init
<1> QED BY <1>1, <1>2, <1>3, <1>4, <1>5, Bounds DEF Init, TypeOK

\* What one of the rounds leaves in the files.
LEMMA SaveBaseFiles ==
    ASSUME TypeOK, NEW n \in Node, SaveBase(n)
    PROVE  /\ files' \in [Path -> Contents] /\ \A p \in Path : files'[p].version <= writes'
           /\ writes' \in 0..MaxWrites /\ writes <= writes' /\ next[n] \in SyncRound
           /\ \/ saving' = saving
              \/ saving' = saving \union {n} /\ files'[Named(n, next[n])] = Cut
           /\ files'[Named(n, Base)].state # "absent"
           /\ \A p \in Path : p.name \in SyncRound =>
                 \/ files'[p] = files[p]
                 \/ p = Named(n, next[n]) /\ saving' = saving \union {n} /\ files'[p] = Cut
           /\ \A p \in Path : Present(p) => files'[p].state # "absent"
<1> DEFINE v == writes + 1
           saved == Whole(v, Saved[v])
           written == [files EXCEPT ![Named(n, Delta)] = saved, ![Named(n, Base)] = saved]
<1>1. v \in 1..MaxWrites /\ writes' = v /\ next[n] \in SyncRound /\ writes \in Nat
  BY Bounds DEF SaveBase, Begins, TypeOK
<1>2. PICK sync \in BOOLEAN :
          /\ files' = IF sync THEN [written EXCEPT ![Named(n, next[n])] = Cut] ELSE written
          /\ saving' = IF sync THEN saving \union {n} ELSE saving
  BY DEF SaveBase
<1> HIDE DEF v
<1>3. saved \in Contents /\ saved.version = v /\ saved.state = "whole"
  <2>1. saved.state = "whole"
    BY DEF Whole
  <2> QED BY <1>1, <2>1, WholeType
<1> HIDE DEF saved
<1>4. /\ written \in [Path -> Contents]
      /\ \A p \in Path : written[p] = files[p] \/ (p.name \notin SyncRound /\ written[p] = saved)
  <2>1. \A p \in Path : p = Named(n, Delta) \/ p = Named(n, Base) => p.name \notin SyncRound
    BY SyncRoundType DEF Named
  <2>2. files \in [Path -> Contents]
    BY DEF TypeOK
  <2> QED BY <1>3, <2>1, <2>2
<1>5. \A p \in Path : written[p].version <= v
  <2>1. \A p \in Path : files[p].version <= writes /\ files[p].version \in 0..MaxWrites
    BY ContentsType DEF TypeOK
  <2>2. \A p \in Path : files[p].version <= v
    BY <1>1, <2>1 DEF v
  <2>3. saved.version <= v
    BY <1>1, <1>3
  <2> HIDE DEF written
  <2> QED BY <1>4, <2>2, <2>3
<1>6. Named(n, next[n]) \in Path
  BY <1>1, NamedType
<1>9. Named(n, Base) \in Path /\ written[Named(n, Base)] = saved
  BY NamedType DEF TypeOK
<1> HIDE DEF written
<1>7. CASE ~sync
  <2>1. files' = written /\ saving' = saving
    BY <1>2, <1>7
  <2>2. writes' \in 0..MaxWrites /\ writes <= writes'
    BY <1>1 DEF v
  <2> QED BY <1>1, <1>3, <1>4, <1>5, <1>9, <2>1, <2>2 DEF Present
<1>8. CASE sync
  <2>1. files' = [written EXCEPT ![Named(n, next[n])] = Cut] /\ saving' = saving \union {n}
    BY <1>2, <1>8
  <2>2. writes' \in 0..MaxWrites /\ writes <= writes' /\ 0 <= v
    BY <1>1 DEF v
  <2>3. files'[Named(n, next[n])] = Cut
    BY <1>4, <1>6, <2>1
  <2>4. \A p \in Path : files'[p] = written[p] \/ (p = Named(n, next[n]) /\ files'[p] = Cut)
    BY <1>4, <2>1
  <2>5. files' \in [Path -> Contents]
    BY <1>4, <2>1, CutType
  <2>6. \A p \in Path : files'[p].version <= writes'
    BY <1>1, <1>5, <2>2, <2>4, CutType
  <2>7. \A p \in Path : Present(p) => files'[p].state # "absent"
    BY <1>3, <1>4, <2>4, CutType DEF Present
  <2>8. files'[Named(n, Base)].state # "absent"
    BY <1>3, <1>9, <2>4, CutType
  <2> QED BY <1>1, <1>4, <2>1, <2>2, <2>3, <2>4, <2>5, <2>6, <2>7, <2>8
<1> QED BY <1>7, <1>8

\* What a death leaves that comes between the opening of the delta and the end of the base.
LEMMA CutOffFiles ==
    ASSUME TypeOK, NEW n \in Node, CutOff(n)
    PROVE  /\ files' \in [Path -> Contents] /\ \A p \in Path : files'[p].version <= writes'
           /\ writes' \in 0..MaxWrites /\ writes <= writes'
           /\ \A p \in Path : p.name \in SyncRound => files'[p] = files[p]
           /\ \A p \in Path : Present(p) => files'[p].state # "absent"
<1> DEFINE v == writes + 1
           saved == Whole(v, Saved[v])
<1>1. v \in 1..MaxWrites /\ writes' = v /\ writes \in Nat
  BY Bounds DEF CutOff, Begins, TypeOK
<1>2. \/ files' = [files EXCEPT ![Named(n, Delta)] = Cut]
      \/ files' = [files EXCEPT ![Named(n, Delta)] = saved]
      \/ files' = [files EXCEPT ![Named(n, Delta)] = saved, ![Named(n, Base)] = Cut]
  BY DEF CutOff
<1> HIDE DEF v
<1>3. saved \in Contents /\ saved.version = v /\ saved.state = "whole"
  <2>1. saved.state = "whole"
    BY DEF Whole
  <2> QED BY <1>1, <2>1, WholeType
<1> HIDE DEF saved
<1>4. \A p \in Path : p = Named(n, Delta) \/ p = Named(n, Base) => p.name \notin SyncRound
  BY SyncRoundType DEF Named
<1>5. files \in [Path -> Contents]
  BY DEF TypeOK
<1>6. /\ files' \in [Path -> Contents]
      /\ \A p \in Path : \/ files'[p] = files[p]
                         \/ p.name \notin SyncRound /\ files'[p] \in {Cut, saved}
  BY <1>2, <1>3, <1>4, <1>5, CutType
<1>7. ASSUME NEW p \in Path PROVE files'[p].version <= v
  <2>1. files[p].version <= writes /\ files[p].version \in 0..MaxWrites
    BY ContentsType DEF TypeOK
  <2>2. files[p].version <= v /\ saved.version <= v /\ Cut.version <= v
    BY <1>1, <1>3, <2>1, CutType DEF v
  <2> QED BY <1>6, <2>2
<1>8. writes' \in 0..MaxWrites /\ writes <= writes'
  BY <1>1 DEF v
<1>9. \A p \in Path : Present(p) => files'[p].state # "absent"
  BY <1>3, <1>6, CutType DEF Present
<1> QED BY <1>1, <1>6, <1>7, <1>8, <1>9

LEMMA NextType == ExportInv /\ [Next]_vars => TypeOK'
<1> SUFFICES ASSUME ExportInv, [Next]_vars PROVE TypeOK'
  OBVIOUS
<1> USE DEF ExportInv
<1>1. ASSUME NEW n \in Node, SaveBase(n) PROVE TypeOK'
  <2>1. saving' \subseteq Node
    BY <1>1, SaveBaseFiles DEF TypeOK
  <2>2. /\ files' \in [Path -> Contents] /\ \A p \in Path : files'[p].version <= writes'
        /\ writes' \in 0..MaxWrites /\ writes <= writes'
    BY <1>1, SaveBaseFiles
  <2>3. loaded.version <= writes'
    BY <2>2, Bounds, ContentsType DEF TypeOK
  <2> QED BY <1>1, <2>1, <2>2, <2>3 DEF SaveBase, memory, TypeOK
<1>11. ASSUME NEW n \in Node, CutOff(n) PROVE TypeOK'
  <2>1. /\ files' \in [Path -> Contents] /\ \A p \in Path : files'[p].version <= writes'
        /\ writes' \in 0..MaxWrites /\ writes <= writes'
    BY <1>11, CutOffFiles
  <2>2. loaded.version <= writes'
    BY <2>1, Bounds, ContentsType DEF TypeOK
  <2>3. restarts' \in 0..MaxRestarts
    BY <1>11, Bounds DEF CutOff, TypeOK
  <2> QED BY <1>11, <2>1, <2>2, <2>3 DEF CutOff, memory, TypeOK
<1>2. ASSUME NEW n \in Node, SaveSync(n) PROVE TypeOK'
  <2>1. next[n] \in SyncRound
    BY <1>2 DEF SaveSync, SyncFiles
  <2>2. Named(n, next[n]) \in Path /\ Named(n, Base) \in Path
    BY <2>1, NamedType
  <2>3. files' \in [Path -> Contents] /\ \A p \in Path : files'[p].version <= writes
    BY <1>2, <2>2 DEF SaveSync, TypeOK
  <2>4. newest' \in [Node -> SyncRound \union {0}]
    BY <1>2, <2>1 DEF SaveSync, TypeOK
  <2>5. next' \in [Node -> Nat]
    BY <1>2, Bounds DEF SaveSync, TypeOK
  <2>6. saving' \subseteq Node
    BY <1>2 DEF SaveSync, TypeOK
  <2> QED BY <1>2, <2>3, <2>4, <2>5, <2>6 DEF SaveSync, memory, TypeOK
<1>3. ASSUME NEW n \in Node, Restart(n) PROVE TypeOK'
  <2>1. PICK r \in {Interval, newest[n], next[n]} \ {0} : next' = [next EXCEPT ![n] = r]
    BY <1>3 DEF Restart
  <2>2. r \in Nat
    BY <2>1, Bounds, SyncRoundType DEF TypeOK
  <2>3. next' \in [Node -> Nat]
    BY <2>1, <2>2 DEF TypeOK
  <2>4. restarts' \in 0..MaxRestarts
    BY <1>3, Bounds DEF Restart, TypeOK
  <2>5. saving' \subseteq Node
    BY <1>3 DEF Restart, TypeOK
  <2> QED BY <1>3, <2>3, <2>4, <2>5 DEF Restart, memory, TypeOK
<1>4. CASE Discover
  <2>1. args \in parse_args
    BY ArgsAssumption DEF TypeOK
  <2>2. queue' \in Seq(Discovered)
    BY <1>4, <2>1, DiscoveryType DEF Discover
  <2>3. asked' \subseteq Path
    BY <1>4 DEF Discover, Asked
  <2>4. created' \in Seq(Dirs) /\ Len(created') = 0 /\ evaluated' = 0
    BY <1>4, EmptySeq DEF Discover
  <2>5. pc' \in {"Failed", "Converting"}
    BY <1>4 DEF Discover
  <2> QED BY <1>4, <2>2, <2>3, <2>4, <2>5 DEF Discover, engines, TypeOK
<1>5. CASE Load
  <2>1. Item.path \in Path
    BY <1>5, ItemType DEF Load, Work, InWork, TypeOK
  <2>2. loaded' \in Contents /\ loaded'.version <= writes
    BY <1>5, <2>1 DEF Load, TypeOK
  <2>3. pc' \in {"Loaded", "Failed"}
    BY <1>5 DEF Load
  <2> QED BY <1>5, <2>2, <2>3 DEF Load, engines, TypeOK
<1>6. CASE SaveWeights \/ SaveConfig \/ SaveMeta
  <2>1. HasLoaded /\ queue # <<>> /\ loaded.state = "whole"
    BY <1>6 DEF SaveWeights, SaveConfig, SaveMeta, Save, Work, InWork, HasLoaded
  <2>2. Item \in Discovered /\ Item.path \in Path /\ Tail(queue) \in Seq(Discovered)
    BY <2>1, ItemType DEF TypeOK
  <2> DEFINE o == out_dir(Item)
  <2>3. o \in Dirs
    BY <2>2, OutDirType
  <2> HIDE DEF o
  <2>4. dirs[o] \in Directory /\ dirs \in [Dirs -> Directory]
    BY <2>3 DEF TypeOK
  <2>5. loaded.version \in 1..MaxWrites /\ loaded.tensors = Saved[loaded.version]
    BY <2>1, ContentsType DEF TypeOK
  <2>6. loaded.version \in 0..MaxWrites
    BY <2>5, Bounds
  <2>7. CASE SaveWeights
    <3> DEFINE w == Whole(loaded.version, normalize_lora_keys(loaded.tensors))
    <3>1. w \in Weights
      BY <2>5, WholeType
    <3>2. dirs' = [dirs EXCEPT ![o].of = Item.path, ![o].weights = w]
      BY <2>7 DEF SaveWeights, o
    <3> HIDE DEF w
    <3>3. dirs' = [dirs EXCEPT ![o] = [dirs[o] EXCEPT !.of = Item.path, !.weights = w]]
      BY <2>3, <2>4, <3>2
    <3>4. [dirs[o] EXCEPT !.of = Item.path, !.weights = w] \in Directory
      BY <2>2, <2>4, <3>1 DEF Directory
    <3>5. dirs' \in [Dirs -> Directory]
      BY <2>3, <2>4, <3>3, <3>4
    <3> QED BY <2>7, <3>5 DEF SaveWeights, Save, engines, TypeOK
  <2>8. CASE SaveConfig
    <3> DEFINE r == Max({0} \union IF Ranks(loaded.tensors) = {} THEN {DefaultRank}
                                   ELSE Ranks(loaded.tensors))
    <3>1. r \in Nat
      BY <2>5, ConfigRank
    <3>2. dirs' = [dirs EXCEPT ![o].config = loaded.version, ![o].rank = r]
      BY <2>8 DEF SaveConfig, o
    <3> HIDE DEF r
    <3>3. dirs' = [dirs EXCEPT ![o] = [dirs[o] EXCEPT !.config = loaded.version, !.rank = r]]
      BY <2>3, <2>4, <3>2
    <3>4. [dirs[o] EXCEPT !.config = loaded.version, !.rank = r] \in Directory
      BY <2>4, <2>6, <3>1 DEF Directory
    <3>5. dirs' \in [Dirs -> Directory]
      BY <2>3, <2>4, <3>3, <3>4
    <3> QED BY <2>8, <3>5 DEF SaveConfig, Save, engines, TypeOK
  <2>9. CASE SaveMeta
    <3> DEFINE m == [whole |-> TRUE, of |-> Source, source |-> files[Source].version,
                     weights |-> dirs[o].weights.version]
    <3>1. m \in Meta
      <4>1. files[Item.path].version \in 0..MaxWrites
        BY <2>2, ContentsType DEF TypeOK
      <4>2. dirs[o].weights.version \in 0..MaxWrites
        BY <2>4, WeightsVersion DEF Directory
      <4> QED BY <2>2, <4>1, <4>2 DEF Meta, Source
    <3>2. dirs' = [dirs EXCEPT ![o].meta = m]
      BY <2>9 DEF SaveMeta, o
    <3> HIDE DEF m
    <3>3. dirs' = [dirs EXCEPT ![o] = [dirs[o] EXCEPT !.meta = m]]
      BY <2>3, <2>4, <3>2
    <3>4. [dirs[o] EXCEPT !.meta = m] \in Directory
      BY <2>4, <3>1 DEF Directory
    <3>5. dirs' \in [Dirs -> Directory]
      BY <2>3, <2>4, <3>3, <3>4
    <3>6. created' \in Seq(Dirs) /\ Len(created') = Len(created) + 1 /\ Len(created) \in Nat
      BY <2>3, <2>9, AppendProperties, LenProperties DEF SaveMeta, TypeOK, o
    <3>7. evaluated' \in 0..Len(created')
      BY <2>9, <3>6 DEF SaveMeta, Save, TypeOK
    <3>8. pc' \in {"Converting", "Evaluating", "Succeeded"}
      BY <2>9 DEF SaveMeta, Save
    <3> QED BY <2>2, <2>9, <3>5, <3>6, <3>7, <3>8 DEF SaveMeta, Save, engines, TypeOK
  <2> QED BY <1>6, <2>7, <2>8, <2>9
<1>7. CASE run_monash_evaluation
  <2>1. pc' \in {"Succeeded", "Evaluating", "Failed"}
    BY <1>7 DEF run_monash_evaluation
  <2>2. CASE UNCHANGED <<results, evaluated>>
    BY <1>7, <2>1, <2>2 DEF run_monash_evaluation, engines, TypeOK
  <2>3. CASE ~UNCHANGED <<results, evaluated>>
    <3> DEFINE o == created[evaluated + 1]
    <3>1. /\ results' = [results EXCEPT ![eval_out(o)] = dirs[o].weights.version]
          /\ evaluated' = evaluated + 1
      BY <1>7, <2>3 DEF run_monash_evaluation
    <3>2. evaluated < Len(created) /\ Len(created) \in Nat /\ evaluated \in Nat
      BY <1>7, LenProperties DEF run_monash_evaluation, Work, TypeOK
    <3>3. o \in Dirs
      BY <3>2, ElementOfSeq DEF TypeOK
    <3> HIDE DEF o
    <3>4. dirs[o].weights.version \in 0..MaxWrites
      BY <3>3, WeightsVersion DEF TypeOK, Directory
    <3>5. results' \in [Dirs \union {EvalOutput} -> 0..MaxWrites]
      BY <3>1, <3>4 DEF TypeOK
    <3>6. evaluated' \in 0..Len(created)
      BY <3>1, <3>2
    <3> QED BY <1>7, <2>1, <3>5, <3>6 DEF run_monash_evaluation, engines, TypeOK
  <2> QED BY <2>2, <2>3
<1>8. CASE Die
  <2>1. dirs' \in [Dirs -> Directory]
    <3>1. dirs' = dirs \/ (dirs' = Cutting /\ Cutting # dirs)
      BY <1>8 DEF Die
    <3>2. CASE dirs' = dirs
      BY <3>2 DEF TypeOK
    <3>3. CASE dirs' = Cutting /\ Cutting # dirs
      <4> DEFINE o == out_dir(Item)
      <4>1. HasLoaded
        BY <3>3 DEF Cutting, HasLoaded
      <4>2. o \in Dirs
        BY <4>1, ItemType, OutDirType DEF Work, InWork, TypeOK
      <4>3. \/ dirs' = [dirs EXCEPT ![o].weights = Cut]
            \/ dirs' = [dirs EXCEPT ![o].config = 0]
            \/ dirs' = [dirs EXCEPT ![o].meta = NoMeta]
        BY <3>3, <4>1 DEF Cutting, HasLoaded
      <4> HIDE DEF o
      <4>4. dirs \in [Dirs -> Directory] /\ dirs[o] \in Directory
        BY <4>2 DEF TypeOK
      <4>5. 0 \in 0..MaxWrites
        BY Bounds
      <4>6. /\ [dirs[o] EXCEPT !.weights = Cut] \in Directory
            /\ [dirs[o] EXCEPT !.config = 0] \in Directory
            /\ [dirs[o] EXCEPT !.meta = NoMeta] \in Directory
        BY <4>4, <4>5, CutType, NoDirType DEF Directory
      <4>7. \E d \in Directory : dirs' = [dirs EXCEPT ![o] = d]
        BY <4>3, <4>6
      <4> QED BY <4>4, <4>7
    <3> QED BY <3>1, <3>2, <3>3
  <2>2. deaths' \in 0..MaxDeaths
    BY <1>8, Bounds DEF Die, TypeOK
  <2> QED BY <1>8, <2>1, <2>2 DEF Die, engines, memory, TypeOK
<1>9. CASE Again
  <2>1. runs' \in 1..MaxRuns
    BY <1>9, Bounds DEF Again, TypeOK
  <2>2. queue' \in Seq(Discovered) /\ created' \in Seq(Dirs) /\ evaluated' \in 0..Len(created')
    BY <1>9, EmptySeq DEF Again
  <2>3. loaded' \in Contents /\ loaded'.version <= writes
    BY <1>9, CutType, Bounds DEF Again, TypeOK
  <2> QED BY <1>9, <2>1, <2>2, <2>3 DEF Again, engines, TypeOK
<1>10. CASE UNCHANGED vars
  BY <1>10 DEF vars, engines, memory, TypeOK
<1> QED BY <1>1, <1>2, <1>3, <1>4, <1>5, <1>6, <1>7, <1>8, <1>9, <1>10, <1>11 DEF Next

-------------------------------------------------------------------------------
(* How far the tool is.                                                    *)

\* The engines touch neither the tool nor what it writes.
EngineStep == \E n \in Node : SaveBase(n) \/ SaveSync(n) \/ CutOff(n) \/ Restart(n)

LEMMA EnginesApart ==
    ASSUME EngineStep \/ UNCHANGED vars
    PROVE  UNCHANGED <<memory, pc, dirs, results>>
BY DEF EngineStep, Begins, SaveBase, SaveSync, CutOff, Restart, vars

LEMMA NextWork == ExportInv /\ [Next]_vars => Work'
<1> SUFFICES ASSUME ExportInv, [Next]_vars PROVE Work'
  OBVIOUS
<1> USE DEF ExportInv
<1>1. CASE EngineStep \/ UNCHANGED vars
  BY <1>1, EnginesApart DEF Work, InWork, HasLoaded, Converted, memory
<1>2. CASE Discover
  BY <1>2 DEF Discover, Work, InWork, HasLoaded, Converted
<1>3. CASE Load
  BY <1>3 DEF Load, Work, InWork, HasLoaded, Converted
<1>4. CASE SaveWeights \/ SaveConfig
  BY <1>4 DEF SaveWeights, SaveConfig, Save, Work, InWork, HasLoaded, Converted
<1>5. CASE SaveMeta
  <2>1. queue # <<>> /\ evaluated' = 0 /\ queue' = Tail(queue)
        /\ created' = Append(created, out_dir(Item))
    BY <1>5 DEF SaveMeta, Save, Work, InWork, HasLoaded
  <2>2. /\ Len(queue) \in Nat \ {0} /\ Len(queue') = Len(queue) - 1 /\ queue' \in Seq(Discovered)
        /\ Item \in Discovered
    BY <2>1, ItemType DEF TypeOK
  <2>3. Len(created') > 0
    <3>1. Len(created') = Len(created) + 1 /\ Len(created) \in Nat
      BY <2>1, <2>2, OutDirType, AppendProperties, LenProperties DEF TypeOK
    <3> QED BY <3>1
  <2>4. CASE Len(queue) > 1
    <3>1. queue' # <<>>
      BY <2>2, <2>4, EmptySeq
    <3>2. pc' = "Converting"
      BY <1>5, <2>4 DEF SaveMeta, Save
    <3> QED BY <2>1, <3>1, <3>2 DEF Work, InWork, HasLoaded, Converted
  <2>5. CASE ~(Len(queue) > 1)
    <3>1. queue' = <<>>
      BY <2>2, <2>5, EmptySeq
    <3>2. pc' = IF args.evaluate THEN "Evaluating" ELSE "Succeeded"
      BY <1>5, <2>5 DEF SaveMeta, Save
    <3> QED BY <2>1, <2>3, <3>1, <3>2 DEF Work, InWork, HasLoaded, Converted
  <2> QED BY <2>4, <2>5
<1>6. CASE run_monash_evaluation
  <2>1. pc = "Evaluating" /\ UNCHANGED <<queue, created>>
    BY <1>6 DEF run_monash_evaluation
  <2>2. evaluated \in Nat /\ Len(created) \in Nat /\ evaluated < Len(created)
    BY <2>1, LenProperties DEF Work, TypeOK
  <2>3. \/ pc' = "Failed"
        \/ evaluated' = evaluated + 1
           /\ pc' = IF evaluated' = Len(created) THEN "Succeeded" ELSE "Evaluating"
    BY <1>6 DEF run_monash_evaluation
  <2>4. pc' = "Evaluating" => evaluated' < Len(created)
    BY <2>2, <2>3
  <2> QED BY <2>1, <2>3, <2>4 DEF Work, InWork, HasLoaded, Converted
<1>7. CASE Die \/ Again
  BY <1>7 DEF Die, Again, Work, InWork, HasLoaded, Converted
<1> QED BY <1>1, <1>2, <1>3, <1>4, <1>5, <1>6, <1>7 DEF Next, EngineStep

\* What a step of the conversion writes.
LEMMA StepOfConversion ==
    ASSUME ExportInv, SaveWeights \/ SaveConfig \/ SaveMeta
    PROVE  LET o == out_dir(Item)
           IN  /\ HasLoaded /\ queue # <<>> /\ o \in Dirs /\ Item.path \in Path
               /\ dirs' = [dirs EXCEPT ![o] = dirs'[o]] /\ dirs[o] \in Directory
               /\ loaded.state = "whole" /\ loaded.version \in 1..MaxWrites
               /\ loaded = Whole(loaded.version, Saved[loaded.version])
<1> USE DEF ExportInv
<1> DEFINE o == out_dir(Item)
<1>1. HasLoaded /\ queue # <<>> /\ loaded.state = "whole"
  BY DEF SaveWeights, SaveConfig, SaveMeta, Save, Work, InWork, HasLoaded
<1>2. Item \in Discovered /\ Item.path \in Path /\ o \in Dirs
  BY <1>1, ItemType, OutDirType DEF TypeOK
<1>3. dirs \in [Dirs -> Directory]
  BY DEF TypeOK
<1>4. dirs' = [dirs EXCEPT ![o] = dirs'[o]]
  <2>1. \E d : dirs' = [dirs EXCEPT ![o] = d]
    <3> HIDE DEF o
    <3>1. CASE SaveWeights
      <4> DEFINE w == Whole(loaded.version, normalize_lora_keys(loaded.tensors))
      <4>1. dirs' = [dirs EXCEPT ![o].of = Item.path, ![o].weights = w]
        BY <3>1 DEF SaveWeights, o
      <4> HIDE DEF w
      <4>2. dirs' = [dirs EXCEPT ![o] = [dirs[o] EXCEPT !.of = Item.path, !.weights = w]]
        BY <1>2, <1>3, <4>1 DEF o
      <4> QED BY <4>2
    <3>2. CASE SaveConfig
      <4> DEFINE r == Max({0} \union IF Ranks(loaded.tensors) = {} THEN {DefaultRank}
                                     ELSE Ranks(loaded.tensors))
      <4>1. dirs' = [dirs EXCEPT ![o].config = loaded.version, ![o].rank = r]
        BY <3>2 DEF SaveConfig, o
      <4> HIDE DEF r
      <4>2. dirs' = [dirs EXCEPT ![o] = [dirs[o] EXCEPT !.config = loaded.version, !.rank = r]]
        BY <1>2, <1>3, <4>1 DEF o
      <4> QED BY <4>2
    <3>3. CASE SaveMeta
      <4> DEFINE m == [whole |-> TRUE, of |-> Source, source |-> files[Source].version,
                       weights |-> dirs[o].weights.version]
      <4>1. dirs' = [dirs EXCEPT ![o].meta = m]
        BY <3>3 DEF SaveMeta, o
      <4> HIDE DEF m
      <4> QED BY <4>1
    <3> QED BY <3>1, <3>2, <3>3
  <2> HIDE DEF o
  <2> QED BY <1>2, <1>3, <2>1 DEF o
<1>5. loaded.version \in 1..MaxWrites /\ loaded = Whole(loaded.version, Saved[loaded.version])
  BY <1>1, ContentsType DEF TypeOK
<1> QED BY <1>1, <1>2, <1>3, <1>4, <1>5

LEMMA SameItem ==
    ASSUME UNCHANGED <<args, queue, created>>
    PROVE  Item' = Item /\ out_dir(Item)' = out_dir(Item)
BY DEF Item, out_dir, multiple

LEMMA NextWritten == ExportInv /\ [Next]_vars => Written'
<1> SUFFICES ASSUME ExportInv, [Next]_vars PROVE Written'
  OBVIOUS
<1> USE DEF ExportInv
<1> DEFINE o == out_dir(Item)
<1>1. CASE EngineStep \/ UNCHANGED vars
  <2>1. UNCHANGED <<args, queue, created, loaded, pc, dirs>>
    BY <1>1, EnginesApart DEF memory
  <2>2. Item' = Item /\ out_dir(Item)' = out_dir(Item)
    BY <2>1, SameItem
  <2> QED BY <2>1, <2>2 DEF Written
<1>2. CASE Discover \/ Load \/ SaveMeta \/ run_monash_evaluation \/ Die \/ Again
  <2>1. pc' \notin {"WeightsSaved", "ConfigSaved"}
    BY <1>2 DEF Discover, Load, SaveMeta, Save, run_monash_evaluation, Die, Again
  <2> QED BY <2>1 DEF Written
<1>3. CASE SaveWeights \/ SaveConfig
  <2>1. o \in Dirs /\ dirs[o] \in Directory /\ dirs \in [Dirs -> Directory]
    BY <1>3, StepOfConversion DEF TypeOK
  <2>2. UNCHANGED <<args, queue, created, loaded>>
    BY <1>3 DEF SaveWeights, SaveConfig, Save
  <2>3. Item' = Item /\ out_dir(Item)' = o
    BY <2>2, SameItem
  <2>4. CASE SaveWeights
    <3>1. pc' = "WeightsSaved"
      BY <2>4 DEF SaveWeights, Save
    <3> DEFINE w == Whole(loaded.version, normalize_lora_keys(loaded.tensors))
    <3>2. dirs' = [dirs EXCEPT ![o].of = Item.path, ![o].weights = w]
      BY <2>4 DEF SaveWeights
    <3> HIDE DEF o, w
    <3>3. dirs'[o].of = Item.path /\ dirs'[o].weights = w
      BY <2>1, <3>2 DEF Directory
    <3> QED BY <2>2, <2>3, <3>1, <3>3 DEF Written, o, w
  <2>5. CASE SaveConfig
    <3>1. pc = "WeightsSaved" /\ pc' = "ConfigSaved"
      BY <2>5 DEF SaveConfig, Save
    <3> DEFINE r == Max({0} \union IF Ranks(loaded.tensors) = {} THEN {DefaultRank}
                                   ELSE Ranks(loaded.tensors))
    <3>2. dirs' = [dirs EXCEPT ![o].config = loaded.version, ![o].rank = r]
      BY <2>5 DEF SaveConfig
    <3>3. /\ dirs[o].of = Item.path
          /\ dirs[o].weights = Whole(loaded.version, normalize_lora_keys(loaded.tensors))
      BY <3>1 DEF Written
    <3> HIDE DEF o, r
    <3>4. dirs'[o].of = dirs[o].of /\ dirs'[o].weights = dirs[o].weights
          /\ dirs'[o].config = loaded.version /\ dirs'[o].rank = r
      BY <2>1, <3>2 DEF Directory
    <3> QED BY <2>2, <2>3, <3>1, <3>3, <3>4 DEF Written, o, r
  <2> QED BY <1>3, <2>4, <2>5
<1> QED BY <1>1, <1>2, <1>3 DEF Next, EngineStep

LEMMA NextKept == ExportInv /\ [Next]_vars => Kept'
<1> SUFFICES ASSUME ExportInv, [Next]_vars PROVE Kept'
  OBVIOUS
<1> USE DEF ExportInv
<1>1. ASSUME NEW n \in Node, NEW name \in SyncRound \union {Base}
      PROVE  Named(n, name) \in Path
  BY NamedType
<1>2. \A n \in Node : newest[n] \in SyncRound \union {0}
  BY DEF TypeOK
<1>3. ASSUME NEW n \in Node, SaveBase(n) PROVE Kept'
  <2>1. /\ \A p \in Path : Present(p) => files'[p].state # "absent"
        /\ saving' = saving \/ saving' = saving \union {n}
        /\ files'[Named(n, Base)].state # "absent"
    BY <1>3, SaveBaseFiles
  <2>2. newest' = newest
    BY <1>3 DEF SaveBase
  <2>3. saving \subseteq Node
    BY DEF TypeOK
  <2> QED BY <1>1, <1>2, <2>1, <2>2, <2>3 DEF Kept, Present
<1>4. ASSUME NEW n \in Node, SaveSync(n) PROVE Kept'
  <2> DEFINE mine == Named(n, next[n])
  <2>1. /\ n \in saving /\ saving' = saving \ {n}
        /\ files' = [files EXCEPT ![mine] = files[Named(n, Base)]]
        /\ newest' = [newest EXCEPT ![n] = next[n]]
    BY <1>4 DEF SaveSync
  <2>2. mine \in Path /\ Present(Named(n, Base))
    BY <1>1, <2>1 DEF SyncFiles, Kept
  <2> HIDE DEF mine
  <2>3. \A p \in Path : Present(p) \/ p = mine => files'[p].state # "absent"
    BY <2>1, <2>2 DEF Present, TypeOK
  <2>4. \A m \in Node : newest'[m] = IF m = n THEN next[n] ELSE newest[m]
    BY <2>1 DEF TypeOK
  <2>5. saving \subseteq Node
    BY DEF TypeOK
  <2>6. ASSUME NEW m \in Node, newest'[m] # 0
        PROVE  files'[Named(m, newest'[m])].state # "absent"
    <3>1. CASE m = n
      BY <2>2, <2>3, <2>4, <3>1 DEF mine
    <3>2. CASE m # n
      <4>1. newest'[m] = newest[m] /\ Present(Named(m, newest[m]))
        BY <2>4, <2>6, <3>2 DEF Kept
      <4>2. Named(m, newest[m]) \in Path
        BY <1>1, <1>2, <2>6, <4>1
      <4> QED BY <2>3, <4>1, <4>2
    <3> QED BY <3>1, <3>2
  <2>7. ASSUME NEW m \in saving' PROVE files'[Named(m, Base)].state # "absent"
    BY <1>1, <2>1, <2>3, <2>5, <2>7 DEF Kept
  <2> QED BY <2>6, <2>7 DEF Kept, Present
<1>7. ASSUME NEW n \in Node, CutOff(n) PROVE Kept'
  <2>1. /\ \A p \in Path : Present(p) => files'[p].state # "absent"
        /\ saving' = saving /\ newest' = newest
    BY <1>7, CutOffFiles DEF CutOff
  <2>2. saving \subseteq Node
    BY DEF TypeOK
  <2> QED BY <1>1, <1>2, <2>1, <2>2 DEF Kept, Present
<1>5. ASSUME NEW n \in Node, Restart(n) PROVE Kept'
  BY <1>5 DEF Restart, Kept, Present
<1>6. CASE Discover \/ Load \/ SaveWeights \/ SaveConfig \/ SaveMeta
           \/ run_monash_evaluation \/ Die \/ Again \/ UNCHANGED vars
  <2>1. UNCHANGED <<files, saving, newest>>
    BY <1>6 DEF Discover, Load, SaveWeights, SaveConfig, SaveMeta, Save, run_monash_evaluation,
       Die, Again, vars, engines
  <2> QED BY <2>1 DEF Kept, Present
<1> QED BY <1>3, <1>4, <1>5, <1>6, <1>7 DEF Next

-------------------------------------------------------------------------------
(* The files of the engines.                                               *)

LEMMA NextSyncFiles == ExportInv /\ [Next]_vars => SyncFiles'
<1> SUFFICES ASSUME ExportInv, [Next]_vars PROVE SyncFiles'
  OBVIOUS
<1> USE DEF ExportInv
<1>0. \A n \in Node : next[n] \in Nat /\ newest[n] \in Nat
  <2>1. \A n \in Node : next[n] \in Nat /\ newest[n] \in SyncRound \union {0}
    BY DEF TypeOK
  <2>2. \A r \in SyncRound \union {0} : r \in Nat
    BY SyncRoundType
  <2> QED BY <2>1, <2>2, Zenon
<1>1. ASSUME NEW n \in Node, SaveBase(n) PROVE SyncFiles'
  <2> DEFINE mine == Named(n, next[n])
  <2>1. /\ n \notin saving /\ next[n] \in SyncRound
        /\ saving' = saving \/ (saving' = saving \union {n} /\ files'[mine] = Cut)
        /\ \A p \in Path : p.name \in SyncRound =>
              \/ files'[p] = files[p]
              \/ p = mine /\ saving' = saving \union {n} /\ files'[p] = Cut
    BY <1>1, SaveBaseFiles DEF SaveBase, Begins
  <2>2. UNCHANGED <<next, newest, restarts, queue, loaded, pc>>
    BY <1>1 DEF SaveBase, memory
  <2>3. ASSUME NEW m \in saving' PROVE next[m] \in SyncRound /\ files'[Named(m, next[m])].state = "cut"
    <3>1. CASE m = n
      <4>1. saving' # saving
        BY <2>1, <2>3, <3>1
      <4> QED BY <2>1, <3>1, <4>1, CutType
    <3>2. CASE m # n
      <4>1. m \in saving /\ m \in Node
        BY <2>1, <2>3, <3>2 DEF TypeOK
      <4>2. next[m] \in SyncRound /\ files[Named(m, next[m])].state = "cut"
        BY <4>1 DEF SyncFiles
      <4>3. /\ Named(m, next[m]) \in Path /\ Named(m, next[m]).name \in SyncRound
            /\ Named(m, next[m]).node = m /\ mine.node = n
        BY <2>1, <4>1, <4>2, NamedType
      <4> HIDE DEF mine
      <4>4. files'[Named(m, next[m])] = files[Named(m, next[m])]
        BY <2>1, <3>2, <4>3
      <4> QED BY <4>2, <4>4
    <3> QED BY <3>1, <3>2
  <2>4. ASSUME restarts = 0
        PROVE  /\ \A m \in Node : newest[m] < next[m]
               /\ \A m \in Node, r \in SyncRound :
                     files'[Named(m, r)].state # "absent" =>
                         r <= newest[m] \/ (m \in saving' /\ r = next[m])
               /\ HasLoaded /\ Item.path.name \in SyncRound => files'[Item.path] = loaded
    <3>1. \A m \in Node : newest[m] < next[m]
      BY <2>4 DEF SyncFiles
    <3>2. ASSUME NEW m \in Node, NEW r \in SyncRound, files'[Named(m, r)].state # "absent"
          PROVE  r <= newest[m] \/ (m \in saving' /\ r = next[m])
      <4>1. Named(m, r) \in Path /\ Named(m, r).name = r /\ Named(m, r).node = m
        BY NamedType
      <4>2. CASE files'[Named(m, r)] = files[Named(m, r)]
        BY <2>1, <2>4, <3>2, <4>1, <4>2 DEF SyncFiles, Present
      <4>3. CASE Named(m, r) = mine /\ saving' = saving \union {n}
        <5>1. mine.name = next[n] /\ mine.node = n
          BY <2>1, NamedType
        <5> QED BY <4>1, <4>3, <5>1
      <4> QED BY <2>1, <4>1, <4>2, <4>3
    <3>3. ASSUME HasLoaded, Item.path.name \in SyncRound PROVE files'[Item.path] = loaded
      <4>1. Item.path \in Path
        BY <3>3, ItemType DEF Work, InWork, TypeOK
      <4>2. files[Item.path] = loaded /\ loaded.state = "whole"
        BY <2>4, <3>3 DEF SyncFiles, Work
      <4>3. Item.path # mine
        <5>1. SUFFICES ASSUME Item.path = mine PROVE FALSE
          OBVIOUS
        <5>2. Present(Named(n, next[n]))
          BY <4>2, <5>1 DEF Present
        <5>3. next[n] <= newest[n]
          BY <2>1, <2>4, <5>2 DEF SyncFiles
        <5> QED BY <1>0, <3>1, <5>3
      <4> QED BY <2>1, <3>3, <4>1, <4>2, <4>3
    <3> QED BY <3>1, <3>2, <3>3
  <2>5. HasLoaded' = HasLoaded /\ Item' = Item
    BY <2>2 DEF HasLoaded, Item
  <2> QED BY <2>2, <2>3, <2>4, <2>5 DEF SyncFiles, Present
<1>2. ASSUME NEW n \in Node, SaveSync(n) PROVE SyncFiles'
  <2> DEFINE mine == Named(n, next[n])
  <2>1. /\ n \in saving /\ saving' = saving \ {n}
        /\ files' = [files EXCEPT ![mine] = files[Named(n, Base)]]
        /\ newest' = [newest EXCEPT ![n] = next[n]]
        /\ next' = [next EXCEPT ![n] = @ + Interval]
        /\ UNCHANGED <<restarts, queue, loaded, pc>>
    BY <1>2 DEF SaveSync, memory
  <2>2. next[n] \in SyncRound /\ mine \in Path /\ mine.node = n /\ mine.name = next[n]
        /\ files[mine].state = "cut"
    BY <2>1, NamedType DEF SyncFiles
  <2>3. \A p \in Path : p # mine => files'[p] = files[p]
    BY <2>1 DEF TypeOK
  <2>4. /\ newest'[n] = next[n] /\ next'[n] = next[n] + Interval
        /\ \A m \in Node : m # n => newest'[m] = newest[m] /\ next'[m] = next[m]
    BY <2>1 DEF TypeOK
  <2> HIDE DEF mine
  <2>5. ASSUME NEW m \in saving'
        PROVE  next'[m] \in SyncRound /\ files'[Named(m, next'[m])].state = "cut"
    <3>1. m \in saving /\ m \in Node /\ m # n
      BY <2>1, <2>5 DEF TypeOK
    <3>2. next'[m] = next[m] /\ next[m] \in SyncRound /\ files[Named(m, next[m])].state = "cut"
      BY <2>4, <3>1 DEF SyncFiles
    <3>3. Named(m, next[m]) \in Path /\ Named(m, next[m]).node = m
      BY <3>1, <3>2, NamedType
    <3>4. files'[Named(m, next[m])] = files[Named(m, next[m])]
      BY <2>2, <2>3, <3>1, <3>3
    <3> QED BY <3>2, <3>4
  <2>6. ASSUME restarts = 0
        PROVE  /\ \A m \in Node : newest'[m] < next'[m]
               /\ \A m \in Node, r \in SyncRound :
                     files'[Named(m, r)].state # "absent" =>
                         r <= newest'[m] \/ (m \in saving' /\ r = next'[m])
               /\ HasLoaded /\ Item.path.name \in SyncRound => files'[Item.path] = loaded
    <3>1. \A m \in Node : newest[m] < next[m]
      BY <2>6 DEF SyncFiles
    <3>2. ASSUME NEW m \in Node PROVE newest'[m] < next'[m]
      BY <1>0, <2>4, <3>1, Bounds
    <3>3. ASSUME NEW m \in Node, NEW r \in SyncRound, files'[Named(m, r)].state # "absent"
          PROVE  r <= newest'[m] \/ (m \in saving' /\ r = next'[m])
      <4>1. /\ Named(m, r) \in Path /\ Named(m, r).name = r /\ Named(m, r).node = m
            /\ r \in Nat
        BY NamedType, SyncRoundType
      <4>2. CASE Named(m, r) = mine
        BY <1>0, <2>2, <2>4, <4>1, <4>2
      <4>3. CASE Named(m, r) # mine
        <5>1. Present(Named(m, r))
          BY <2>3, <3>3, <4>1, <4>3 DEF Present
        <5>2. r <= newest[m] \/ (m \in saving /\ r = next[m])
          BY <2>6, <5>1 DEF SyncFiles
        <5>3. CASE m = n
          BY <1>0, <2>4, <3>1, <4>1, <5>2, <5>3
        <5>4. CASE m # n
          BY <2>1, <2>4, <5>2, <5>4
        <5> QED BY <5>3, <5>4
      <4> QED BY <4>2, <4>3
    <3>4. ASSUME HasLoaded, Item.path.name \in SyncRound PROVE files'[Item.path] = loaded
      <4>1. Item.path \in Path
        BY <3>4, ItemType DEF Work, InWork, TypeOK
      <4>2. files[Item.path] = loaded /\ loaded.state = "whole"
        BY <2>6, <3>4 DEF SyncFiles, Work
      <4> QED BY <2>2, <2>3, <4>1, <4>2
    <3> QED BY <3>2, <3>3, <3>4
  <2>7. HasLoaded' = HasLoaded /\ Item' = Item
    BY <2>1 DEF HasLoaded, Item
  <2> QED BY <2>1, <2>5, <2>6, <2>7 DEF SyncFiles, Present
<1>5. ASSUME NEW n \in Node, CutOff(n) PROVE SyncFiles'
  <2>1. /\ saving' = saving /\ next' = next /\ restarts' = restarts + 1
        /\ \A p \in Path : p.name \in SyncRound => files'[p] = files[p]
    BY <1>5, CutOffFiles DEF CutOff
  <2>2. restarts' # 0
    BY <2>1 DEF TypeOK
  <2>3. ASSUME NEW m \in saving PROVE files'[Named(m, next[m])].state = "cut"
    <3>1. m \in Node /\ next[m] \in SyncRound /\ files[Named(m, next[m])].state = "cut"
      BY DEF SyncFiles, TypeOK
    <3>2. Named(m, next[m]) \in Path /\ Named(m, next[m]).name = next[m]
      BY <3>1, NamedType DEF Named
    <3> QED BY <2>1, <3>1, <3>2
  <2> QED BY <2>1, <2>2, <2>3 DEF SyncFiles
<1>3. ASSUME NEW n \in Node, Restart(n) PROVE SyncFiles'
  <2>1. /\ saving' = saving \ {n} /\ files' = files /\ restarts' = restarts + 1
        /\ \A m \in Node : m # n => next'[m] = next[m]
    BY <1>3 DEF Restart, TypeOK
  <2>2. restarts' # 0
    BY <2>1 DEF TypeOK
  <2> QED BY <2>1, <2>2 DEF SyncFiles, TypeOK
<1>4. CASE Discover \/ Load \/ SaveWeights \/ SaveConfig \/ SaveMeta
           \/ run_monash_evaluation \/ Die \/ Again \/ UNCHANGED vars
  <2>1. UNCHANGED <<files, next, saving, newest, restarts>>
    BY <1>4 DEF Discover, Load, SaveWeights, SaveConfig, SaveMeta, Save, run_monash_evaluation,
       Die, Again, vars, engines
  <2>2. ASSUME restarts = 0, HasLoaded', Item'.path.name \in SyncRound
        PROVE  files[Item'.path] = loaded'
    <3>1. CASE Load
      BY <2>1, <3>1 DEF Load, Item
    <3>2. CASE SaveWeights \/ SaveConfig \/ UNCHANGED vars
      <4>1. HasLoaded /\ UNCHANGED <<queue, loaded>>
        BY <2>2, <3>2 DEF SaveWeights, SaveConfig, Save, HasLoaded, vars, memory
      <4>2. Item' = Item
        BY <4>1 DEF Item
      <4> QED BY <2>2, <4>1, <4>2 DEF SyncFiles
    <3>3. CASE Discover \/ SaveMeta \/ run_monash_evaluation \/ Die \/ Again
      BY <2>2, <3>3 DEF Discover, SaveMeta, Save, run_monash_evaluation, Die, Again, HasLoaded
    <3> QED BY <1>4, <3>1, <3>2, <3>3
  <2> QED BY <2>1, <2>2 DEF SyncFiles, Present
<1> QED BY <1>1, <1>2, <1>3, <1>4, <1>5 DEF Next

-------------------------------------------------------------------------------
(* The audit files.                                                        *)

\* A conversion changes the audit file only when it writes or cuts it off.
LEMMA NextAudits == ExportInv /\ [Next]_vars => Audits'
<1> SUFFICES ASSUME ExportInv, [Next]_vars PROVE Audits'
  OBVIOUS
<1> USE DEF ExportInv
<1> DEFINE o == out_dir(Item)
<1>1. restarts' = 0 => restarts = 0
  <2>1. restarts \in Nat
    BY Bounds DEF TypeOK
  <2>2. restarts' = restarts \/ restarts' = restarts + 1
    BY DEF Next, SaveBase, SaveSync, CutOff, Restart, Discover, Load, SaveWeights, SaveConfig, SaveMeta,
       Save, run_monash_evaluation, Die, Again, vars, engines
  <2> QED BY <2>1, <2>2
<1>2. ASSUME \A d \in Dirs : dirs'[d].meta = dirs[d].meta PROVE Audits'
  BY <1>1, <1>2 DEF Audits
<1>3. CASE EngineStep \/ UNCHANGED vars
  BY <1>2, <1>3, EnginesApart
<1>4. CASE Discover \/ Load \/ run_monash_evaluation \/ Again
  BY <1>2, <1>4 DEF Discover, Load, run_monash_evaluation, Again
<1>5. CASE SaveWeights \/ SaveConfig \/ SaveMeta
  <2>1. /\ HasLoaded /\ o \in Dirs /\ dirs[o] \in Directory /\ dirs \in [Dirs -> Directory]
        /\ Item.path \in Path
    BY <1>5, StepOfConversion DEF TypeOK
  <2>2. CASE SaveWeights
    <3> DEFINE w == Whole(loaded.version, normalize_lora_keys(loaded.tensors))
    <3>1. dirs' = [dirs EXCEPT ![o].of = Item.path, ![o].weights = w]
      BY <2>2 DEF SaveWeights
    <3> HIDE DEF o, w
    <3>2. \A d \in Dirs : dirs'[d].meta = dirs[d].meta
      BY <2>1, <3>1 DEF Directory
    <3> QED BY <1>2, <3>2
  <2>3. CASE SaveConfig
    <3> DEFINE r == Max({0} \union IF Ranks(loaded.tensors) = {} THEN {DefaultRank}
                                   ELSE Ranks(loaded.tensors))
    <3>1. dirs' = [dirs EXCEPT ![o].config = loaded.version, ![o].rank = r]
      BY <2>3 DEF SaveConfig
    <3> HIDE DEF o, r
    <3>2. \A d \in Dirs : dirs'[d].meta = dirs[d].meta
      BY <2>1, <3>1 DEF Directory
    <3> QED BY <1>2, <3>2
  <2>4. CASE SaveMeta
    <3> DEFINE m == [whole |-> TRUE, of |-> Item.path, source |-> files[Item.path].version,
                     weights |-> dirs[o].weights.version]
    <3>1. dirs' = [dirs EXCEPT ![o].meta = m] /\ pc = "ConfigSaved"
      BY <2>4 DEF SaveMeta, Save, Source
    <3>2. dirs[o].weights.version = loaded.version
      BY <3>1 DEF Written, Whole
    <3>3. restarts = 0 /\ Item.path.name \in SyncRound =>
              files[Item.path].version = loaded.version
      BY <2>1 DEF SyncFiles
    <3>4. restarts = 0 /\ m.of.name \in SyncRound => m.source = m.weights
      BY <3>2, <3>3
    <3> HIDE DEF o, m
    <3>5. dirs'[o].meta = m /\ \A d \in Dirs : d # o => dirs'[d].meta = dirs[d].meta
      BY <2>1, <3>1 DEF Directory
    <3> QED BY <1>1, <3>4, <3>5 DEF Audits
  <2> QED BY <1>5, <2>2, <2>3, <2>4
<1>6. CASE Die
  <2>1. CASE dirs' = dirs
    BY <1>2, <2>1
  <2>2. CASE dirs' = Cutting /\ Cutting # dirs
    <3>1. HasLoaded
      BY <2>2 DEF Cutting, HasLoaded
    <3>2. o \in Dirs
      BY <3>1, ItemType, OutDirType DEF Work, InWork, TypeOK
    <3>3. \/ dirs' = [dirs EXCEPT ![o].weights = Cut]
          \/ dirs' = [dirs EXCEPT ![o].config = 0]
          \/ dirs' = [dirs EXCEPT ![o].meta = NoMeta]
      BY <2>2, <3>1 DEF Cutting, HasLoaded
    <3> HIDE DEF o
    <3>4. dirs \in [Dirs -> Directory] /\ dirs[o] \in Directory
      BY <3>2 DEF TypeOK
    <3>5. \A d \in Dirs : dirs'[d].meta = dirs[d].meta \/ dirs'[d].meta = NoMeta
      BY <3>3, <3>4 DEF Directory
    <3>6. ~NoMeta.whole
      BY DEF NoMeta
    <3> QED BY <1>1, <3>5, <3>6 DEF Audits
  <2> QED BY <1>6, <2>1, <2>2 DEF Die
<1> QED BY <1>3, <1>4, <1>5, <1>6 DEF Next, EngineStep

-------------------------------------------------------------------------------
(* The conversion as a whole.                                              *)

\* Each path is discovered once.
LEMMA CheckpointsType ==
    ASSUME NEW paths \in SUBSET Path, \A p \in paths : p.name \in SyncRound
    PROVE  /\ Checkpoints(paths) \in SUBSET Discovered
           /\ Cardinality(Checkpoints(paths)) = Cardinality(paths)
<1> DEFINE f == [p \in paths |-> Found(p.node, p.name, p)]
<1>1. Checkpoints(paths) \in SUBSET Discovered
  <2>1. \A p \in paths : Found(p.node, p.name, p) \in Discovered
    BY PathParts, FoundType
  <2> QED BY <2>1 DEF Checkpoints
<1>2. f \in [paths -> Checkpoints(paths)]
  BY DEF Checkpoints
<1>3. \A p, q \in paths : f[p] = f[q] => p = q
  BY DEF Found
<1>4. \A c \in Checkpoints(paths) : \E p \in paths : f[p] = c
  BY DEF Checkpoints
<1> HIDE DEF f
<1>5. ExistsBijection(paths, Checkpoints(paths))
  BY <1>2, <1>3, <1>4 DEF ExistsBijection, Bijection, Injection, Surjection, IsInjective
<1>6. IsFiniteSet(paths)
  BY DiscoveredFinite, FS_Subset
<1> QED BY <1>1, <1>5, <1>6, FS_Bijection

\* Two checkpoints get two directories.
LEMMA OwnDirectory ==
    ASSUME NEW p \in Path, NEW q \in Path, p # q, multiple
    PROVE  out_dir(Found(p.node, p.name, p)) # out_dir(Found(q.node, q.name, q))
<1>1. p.node # q.node \/ p.name # q.name
  BY PathParts
<1> QED BY <1>1 DEF out_dir, Found

\* The directory in work is complete with its audit file.
LEMMA FinishedByAudit ==
    ASSUME ExportInv, SaveMeta
    PROVE  Finished(dirs'[out_dir(Item)], Item.path)
<1> USE DEF ExportInv
<1> DEFINE o == out_dir(Item)
           m == [whole |-> TRUE, of |-> Item.path, source |-> files[Item.path].version,
                 weights |-> dirs[o].weights.version]
<1>1. pc = "ConfigSaved" /\ dirs' = [dirs EXCEPT ![o].meta = m]
  BY DEF SaveMeta, Save, Source
<1>2. o \in Dirs /\ dirs[o] \in Directory /\ dirs \in [Dirs -> Directory]
  BY StepOfConversion DEF TypeOK
<1>3. /\ dirs[o].of = Item.path /\ dirs[o].weights.state = "whole"
      /\ dirs[o].config = dirs[o].weights.version
  BY <1>1 DEF Written, Whole
<1>4. m.whole /\ m.of = Item.path /\ m.weights = dirs[o].weights.version
  OBVIOUS
<1> HIDE DEF o, m
<1>5. /\ dirs'[o].of = dirs[o].of /\ dirs'[o].weights = dirs[o].weights
      /\ dirs'[o].config = dirs[o].config /\ dirs'[o].meta = m
  BY <1>1, <1>2 DEF Directory
<1> QED BY <1>3, <1>4, <1>5 DEF o, Finished

LEMMA NextProgress == ExportInv /\ [Next]_vars => Progress'
<1> SUFFICES ASSUME ExportInv, [Next]_vars, asked' # {}, (InWork \/ Converted)'
             PROVE  Progress'
  BY DEF Progress
<1> USE DEF ExportInv
<1>1. CASE EngineStep \/ UNCHANGED vars
  BY <1>1, EnginesApart
  DEF memory, Progress, out_dir, multiple, InWork, HasLoaded, Converted
<1>2. CASE Discover
  <2>1. /\ queue' \in discover_checkpoints /\ asked' = Asked /\ created' = <<>>
        /\ args \in parse_args
    BY <1>2, ArgsAssumption DEF Discover, TypeOK
  <2>2. queue' \in Listings(Checkpoints(Asked))
    BY <2>1, DiscoveryAsAsked
  <2>3. Asked \in SUBSET Path /\ \A p \in Asked : p.name \in SyncRound
    BY DEF Asked
  <2>4. /\ Checkpoints(Asked) \in SUBSET Discovered
        /\ Cardinality(Checkpoints(Asked)) = Cardinality(Asked)
    BY <2>3, CheckpointsType
  <2>5. /\ Len(queue') = Cardinality(Asked)
        /\ \A i \in DOMAIN queue' : queue'[i] \in Checkpoints(Asked)
        /\ \A i, j \in DOMAIN queue' : queue'[i] = queue'[j] => i = j
        /\ \A f \in Checkpoints(Asked) : \E i \in DOMAIN queue' : queue'[i] = f
    BY <2>2, <2>4, ListingType
  <2>6. \A i \in DOMAIN queue' :
            LET p == queue'[i].path IN p \in Asked /\ queue'[i] = Found(p.node, p.name, p)
    BY <2>5 DEF Checkpoints, Found
  <2>7. \A i, j \in DOMAIN queue' : queue'[i].path = queue'[j].path => i = j
    BY <2>5, <2>6
  <2>8. \A p \in Asked : \E i \in DOMAIN queue' : queue'[i].path = p
    <3>1. \A p \in Asked : Found(p.node, p.name, p) \in Checkpoints(Asked)
      BY DEF Checkpoints
    <3>2. \A p \in Asked : Found(p.node, p.name, p).path = p
      BY DEF Found
    <3> QED BY <2>5, <3>1, <3>2
  <2>9. DOMAIN created' = {} /\ Len(created') + Len(queue') = Cardinality(asked')
    <3>1. IsFiniteSet(Asked)
      BY <2>3, DiscoveredFinite, FS_Subset
    <3>2. Cardinality(Asked) \in Nat
      BY <3>1, FS_CardinalityType
    <3>3. Len(created') = 0
      BY <2>1
    <3> QED BY <2>1, <2>5, <3>2, <3>3
  <2> QED BY <2>1, <2>6, <2>7, <2>8, <2>9 DEF Progress
<1>3. CASE Load \/ SaveWeights \/ SaveConfig
  <2>1. InWork /\ UNCHANGED <<args, queue, created, asked>>
    BY <1>3 DEF Load, SaveWeights, SaveConfig, Save, InWork, HasLoaded
  <2>2. queue # <<>> /\ 1 \in DOMAIN queue /\ Item = queue[1]
    BY <2>1, ItemType DEF Work, TypeOK
  <2>3. \A d \in Dirs : d # out_dir(Item) => dirs'[d] = dirs[d]
    <3>1. CASE Load
      BY <3>1 DEF Load
    <3>2. CASE SaveWeights \/ SaveConfig
      <4>1. dirs' = [dirs EXCEPT ![out_dir(Item)] = dirs'[out_dir(Item)]]
        BY <3>2, StepOfConversion
      <4>2. dirs \in [Dirs -> Directory]
        BY DEF TypeOK
      <4> HIDE DEF ExportInv
      <4> QED BY <4>1, <4>2
    <3> QED BY <1>3, <3>1, <3>2
  <2>4. Progress /\ asked # {}
    BY <2>1
  <2>5. \A i \in DOMAIN created : created[i] \in Dirs /\ created[i] # out_dir(Item)
    BY <2>1, <2>2, <2>4, ElementOfSeq, LenProperties DEF Progress, TypeOK
  <2>6. \A i \in DOMAIN created : dirs'[created[i]] = dirs[created[i]]
    BY <2>3, <2>5
  <2> QED BY <2>1, <2>4, <2>6 DEF Progress, out_dir, multiple
<1>4. CASE SaveMeta
  <2> DEFINE o == out_dir(Item)
  <2>1. /\ HasLoaded /\ queue # <<>> /\ o \in Dirs
        /\ queue' = Tail(queue) /\ created' = Append(created, o)
        /\ UNCHANGED <<args, asked>> /\ dirs \in [Dirs -> Directory]
        /\ dirs' = [dirs EXCEPT ![o] = dirs'[o]]
    BY <1>4, StepOfConversion DEF SaveMeta, Save, TypeOK
  <2>2. /\ Item = queue[1] /\ Len(queue) \in Nat \ {0} /\ Len(queue') = Len(queue) - 1
        /\ DOMAIN queue = 1..Len(queue) /\ DOMAIN queue' = 1..(Len(queue) - 1)
        /\ \A i \in DOMAIN queue' : queue'[i] = queue[i + 1]
    BY <2>1, ItemType DEF TypeOK
  <2>3. /\ Len(created) \in Nat /\ Len(created') = Len(created) + 1
        /\ DOMAIN created = 1..Len(created) /\ DOMAIN created' = 1..(Len(created) + 1)
        /\ created'[Len(created) + 1] = o
        /\ \A i \in DOMAIN created : created'[i] = created[i] /\ created[i] \in Dirs
    <3>1. created \in Seq(Dirs)
      BY DEF TypeOK
    <3> QED BY <2>1, <3>1, AppendProperties, LenProperties, ElementOfSeq
  <2>4. Progress /\ asked # {} /\ InWork
    BY <2>1 DEF InWork
  <2>5. /\ \A i \in DOMAIN queue :
              LET p == queue[i].path IN p \in asked /\ queue[i] = Found(p.node, p.name, p)
        /\ \A i, j \in DOMAIN queue : queue[i].path = queue[j].path => i = j
        /\ \A i \in DOMAIN created, j \in DOMAIN queue : created[i] # out_dir(queue[j])
        /\ Len(created) + Len(queue) = Cardinality(asked)
        /\ \A p \in asked : \/ \E i \in DOMAIN queue : queue[i].path = p
                            \/ \E i \in DOMAIN created : Finished(dirs[created[i]], p)
    BY <2>4 DEF Progress
  <2>6. \A i \in DOMAIN queue' : i + 1 \in DOMAIN queue
    BY <2>2
  <2>7. 1 \in DOMAIN queue /\ asked \subseteq Path
    BY <2>2 DEF TypeOK
  <2>8. Len(created') + Len(queue') = Len(created) + Len(queue)
    BY <2>2, <2>3
  <2>9. \A x : out_dir(x)' = out_dir(x)
    BY <2>1, <2>8 DEF out_dir, multiple
  <2>10. \A i \in DOMAIN queue' :
            LET p == queue'[i].path IN p \in asked /\ queue'[i] = Found(p.node, p.name, p)
    <3> HIDE DEF o
    <3> QED BY <2>2, <2>5, <2>6
  <2>11. ASSUME NEW i \in DOMAIN queue', NEW j \in DOMAIN queue', queue'[i].path = queue'[j].path
         PROVE  i = j
    <3>1. i + 1 = j + 1 /\ i \in Int /\ j \in Int
      <4> HIDE DEF o
      <4> QED BY <2>2, <2>5, <2>6, <2>11
    <3> QED BY <3>1
  <2>12. ASSUME NEW i \in DOMAIN created', NEW j \in DOMAIN queue'
         PROVE  created'[i] # out_dir(queue'[j])
    <3>1. CASE i \in DOMAIN created
      <4> HIDE DEF o
      <4> QED BY <2>2, <2>3, <2>5, <2>6, <3>1
    <3>2. CASE i = Len(created) + 1
      <4> DEFINE p == queue[1].path
                 q == queue[j + 1].path
      <4>1. p \in Path /\ queue[1] = Found(p.node, p.name, p)
        BY <2>5, <2>7
      <4>2. q \in Path /\ queue[j + 1] = Found(q.node, q.name, q)
        BY <2>5, <2>6, <2>7
      <4>3. p # q
        <5>1. j + 1 # 1
          BY <2>2
        <5> QED BY <2>5, <2>6, <2>7, <5>1
      <4>4. multiple
        BY <2>2, <2>3 DEF multiple
      <4> HIDE DEF p, q
      <4>5. out_dir(queue[1]) # out_dir(queue[j + 1])
        BY <4>1, <4>2, <4>3, <4>4, OwnDirectory
      <4> QED BY <2>2, <2>3, <3>2, <4>5
    <3> QED BY <2>3, <3>1, <3>2
  <2>13. Finished(dirs'[o], Item.path)
    BY <1>4, FinishedByAudit
  <2>14. \A i \in DOMAIN created : created[i] # o
    BY <2>2, <2>5, <2>7
  <2>15. \A i \in DOMAIN created : dirs'[created'[i]] = dirs[created[i]]
    <3> HIDE DEF o
    <3> QED BY <2>1, <2>3, <2>14
  <2>16. ASSUME NEW p \in asked
         PROVE  \/ \E i \in DOMAIN queue' : queue'[i].path = p
                \/ \E i \in DOMAIN created' : Finished(dirs'[created'[i]], p)
    <3>1. CASE \E i \in DOMAIN queue : queue[i].path = p
      <4>1. PICK i \in DOMAIN queue : queue[i].path = p
        BY <3>1
      <4>2. CASE i = 1
        <5>1. Len(created) + 1 \in DOMAIN created'
          BY <2>3
        <5>2. Finished(dirs'[created'[Len(created) + 1]], p)
          BY <2>2, <2>3, <2>13, <4>1, <4>2
        <5> QED BY <5>1, <5>2
      <4>3. CASE i # 1
        <5>1. i - 1 \in DOMAIN queue' /\ (i - 1) + 1 = i
          BY <2>2, <4>3
        <5>2. queue'[i - 1] = queue[i]
          BY <2>2, <5>1
        <5> QED BY <4>1, <5>1, <5>2
      <4> QED BY <4>2, <4>3
    <3>2. CASE \E i \in DOMAIN created : Finished(dirs[created[i]], p)
      <4>1. PICK i \in DOMAIN created : Finished(dirs[created[i]], p)
        BY <3>2
      <4>2. i \in DOMAIN created' /\ dirs'[created'[i]] = dirs[created[i]]
        BY <2>3, <2>15
      <4> QED BY <4>1, <4>2
    <3> QED BY <2>5, <3>1, <3>2
  <2>17. Len(created') + Len(queue') = Cardinality(asked')
    BY <2>1, <2>5, <2>8
  <2> HIDE DEF o
  <2>18. \A i \in DOMAIN created', j \in DOMAIN queue' : created'[i] # out_dir(queue[j])'
    BY <2>1, <2>8, <2>12 DEF out_dir, multiple
  <2> QED BY <2>1, <2>10, <2>11, <2>16, <2>17, <2>18 DEF Progress
<1>5. CASE run_monash_evaluation
  BY <1>5 DEF run_monash_evaluation, Progress, out_dir, multiple, InWork, HasLoaded,
     Converted
<1>6. CASE Die \/ Again
  BY <1>6 DEF Die, Again, InWork, HasLoaded, Converted
<1> QED BY <1>1, <1>2, <1>3, <1>4, <1>5, <1>6 DEF Next, EngineStep

-------------------------------------------------------------------------------
(* The evaluation.                                                         *)

LEMMA NextEvaluations == ExportInv /\ [Next]_vars => Evaluations'
<1> SUFFICES ASSUME ExportInv, [Next]_vars PROVE Evaluations'
  OBVIOUS
<1> USE DEF ExportInv
<1>1. CASE EngineStep \/ UNCHANGED vars
  BY <1>1, EnginesApart DEF memory, Evaluations, Converted
<1>2. CASE Discover \/ Load \/ SaveWeights \/ SaveConfig \/ Die \/ Again
  <2>1. pc' \notin {"Evaluating", "Succeeded"}
    BY <1>2 DEF Discover, Load, SaveWeights, SaveConfig, Save, Die, Again
  <2> QED BY <2>1 DEF Evaluations, Converted
<1>3. CASE SaveMeta
  <2>1. evaluated' = 0 /\ UNCHANGED args /\ (pc' = "Succeeded" => ~args.evaluate)
    BY <1>3 DEF SaveMeta, Save, Work, InWork, HasLoaded
  <2>2. 1..evaluated' = {}
    BY <2>1
  <2> QED BY <2>1, <2>2 DEF Evaluations
<1>4. CASE run_monash_evaluation
  <2>1. pc = "Evaluating" /\ UNCHANGED <<args, created, dirs>>
    BY <1>4 DEF run_monash_evaluation
  <2>2. CASE pc' = "Failed"
    BY <2>2 DEF Evaluations, Converted
  <2>3. CASE pc' # "Failed"
    <3> DEFINE o == created[evaluated + 1]
    <3>1. /\ results' = [results EXCEPT ![eval_out(o)] = dirs[o].weights.version]
          /\ evaluated' = evaluated + 1
          /\ pc' = IF evaluated' = Len(created) THEN "Succeeded" ELSE "Evaluating"
      BY <1>4, <2>3 DEF run_monash_evaluation
    <3>2. /\ evaluated \in Nat /\ Len(created) \in Nat /\ evaluated < Len(created)
          /\ created \in Seq(Dirs)
      BY <2>1, LenProperties DEF Work, TypeOK
    <3>3. ASSUME ~args.eval_output, NEW i \in 1..evaluated'
          PROVE  results'[created[i]] = dirs[created[i]].weights.version
      <4>1. eval_out(o) = o
        BY <3>3 DEF eval_out
      <4>2. o \in Dirs /\ created[i] \in Dirs
        BY <3>1, <3>2, ElementOfSeq
      <4>3. results \in [Dirs \union {EvalOutput} -> 0..MaxWrites]
        BY DEF TypeOK
      <4>4. CASE created[i] = o
        BY <3>1, <4>1, <4>2, <4>3, <4>4
      <4>5. CASE created[i] # o
        <5>1. i \in 1..evaluated
          BY <3>1, <3>2, <4>5
        <5>2. results[created[i]] = dirs[created[i]].weights.version
          BY <2>1, <3>3, <5>1 DEF Evaluations, Converted
        <5>3. results'[created[i]] = results[created[i]]
          <6> HIDE DEF o
          <6> QED BY <3>1, <4>1, <4>2, <4>3, <4>5
        <5> QED BY <5>2, <5>3
      <4> QED BY <4>4, <4>5
    <3>4. pc' = "Succeeded" => evaluated' = Len(created)
      BY <3>1
    <3> HIDE DEF o
    <3> QED BY <2>1, <3>3, <3>4 DEF Evaluations
  <2> QED BY <2>2, <2>3
<1> QED BY <1>1, <1>2, <1>3, <1>4 DEF Next, EngineStep

-------------------------------------------------------------------------------
(* The invariant holds.                                                    *)

LEMMA InitExport == Init => ExportInv
<1> SUFFICES ASSUME Init PROVE ExportInv
  OBVIOUS
<1>1. TypeOK
  BY InitType
<1>2. Work /\ Written /\ Progress /\ Evaluations
  BY DEF Init, Work, Written, Progress, Evaluations, InWork, HasLoaded, Converted
<1>3. \A n \in Node, name \in SyncRound \union {Base, Delta} : ~Present(Named(n, name))
  BY NamedType, CutType DEF Init, Present, Absent
<1>4. \A n \in Node : newest[n] < next[n]
  BY Bounds DEF Init
<1>5. Kept
  BY DEF Init, Kept
<1>6. SyncFiles
  BY <1>3, <1>4 DEF Init, SyncFiles, HasLoaded
<1>7. Audits
  <2>1. \A o \in Dirs : ~dirs[o].meta.whole
    BY DEF Init, NoDir, NoMeta
  <2> QED BY <2>1 DEF Audits
<1> QED BY <1>1, <1>2, <1>5, <1>6, <1>7 DEF ExportInv

LEMMA ExportInvHolds == Spec => []ExportInv
<1>1. ExportInv /\ [Next]_vars => ExportInv'
  BY NextType, NextWork, NextWritten, NextKept, NextSyncFiles, NextAudits, NextProgress,
     NextEvaluations DEF ExportInv
<1> QED BY <1>1, InitExport, PTL DEF Spec

-------------------------------------------------------------------------------
(* The theorems.                                                           *)

\* Every state of the engines' files, the tool's memory and the adapter directories is well
\* typed: among others, whatever is discovered can be converted.
THEOREM ExportTypeCorrect == Spec => []TypeOK
<1>1. ExportInv => TypeOK
  BY DEF ExportInv
<1> QED BY <1>1, ExportInvHolds, PTL

\* A run that ends with exit code 0 has made a complete directory of its own of every
\* checkpoint it was asked for, for any command line and any nodes and rounds, also when
\* the directories hold what a run that was stopped has left.
THEOREM ConversionIsComplete == Spec => []ConvertedAsAsked
<1>1. ExportInv => ConvertedAsAsked
  <2> SUFFICES ASSUME ExportInv, pc = "Succeeded", asked # {}
               PROVE  /\ Len(created) = Cardinality(asked)
                      /\ \A p \in asked : \E i \in DOMAIN created : Finished(dirs[created[i]], p)
    BY DEF ConvertedAsAsked, Finished
  <2>1. Progress /\ queue = <<>> /\ Converted
    BY DEF ExportInv, Work, Converted
  <2>2. DOMAIN queue = {} /\ Len(queue) = 0 /\ Len(created) \in Nat
    BY <2>1, LenProperties DEF ExportInv, TypeOK
  <2> QED BY <2>1, <2>2 DEF Progress
<1> QED BY <1>1, ExportInvHolds, PTL

\* As long as no engine has died, an audit file that fits the weights beside it tells the
\* truth about the sync round they were made from.
THEOREM AuditsAreTrue == Spec => []AuditHolds
<1>1. ExportInv => AuditHolds
  BY DEF ExportInv, Audits, AuditHolds
<1> QED BY <1>1, ExportInvHolds, PTL

\* Whatever tensors a checkpoint has, its adapter has one for each module and part; and if they
\* are of one rank the configuration has that of the weights beside it.
THEOREM AdaptersFit == Spec => []AdapterFits
<1>1. ExportInv => AdapterFits
  <2> SUFFICES ASSUME ExportInv, pc = "ConfigSaved" PROVE AdapterFits
    BY DEF AdapterFits
  <2> DEFINE o == dirs[out_dir(Item)]
             v == loaded.version
             old == Saved[v]
             new == normalize_lora_keys(old)
             ranks == Ranks(old)
             rank == Max({0} \union IF ranks = {} THEN {DefaultRank} ELSE ranks)
  <2>1. v \in 1..MaxWrites /\ loaded.tensors = old
    BY ContentsType DEF ExportInv, Work, HasLoaded, TypeOK
  <2>2. o.weights.tensors = new /\ o.rank = rank
    BY <2>1 DEF ExportInv, Written, Whole
  <2>3. (\A x, y \in ranks : x = y) => \A x \in ranks : x = rank
    BY <2>1, ConfigRank
  <2>4. /\ \A t \in new : \E u \in old : t.part = u.part /\ t.shape = u.shape
        /\ \A t \in old : \E u \in new : SameName(t, u)
        /\ \A t, u \in new : SameName(t, u) => t = u
    BY <2>1, Normalised
  <2>5. old \in SUBSET Tensors
    BY <2>1, SavedAssumption
  <2>6. /\ \A u \in LoraTensors(old) : RankOf(u) \in ranks
        /\ \A x \in ranks : \E u \in LoraTensors(old) : x = RankOf(u)
    BY <2>5 DEF Ranks, LoraTensors, RankOf, Tensors
  <2> HIDE DEF old, new, ranks, rank
  <2>7. ASSUME \A t, u \in LoraTensors(old) : RankOf(t) = RankOf(u), NEW t \in LoraTensors(new)
        PROVE  RankOf(t) = rank
    <3>1. PICK u \in LoraTensors(old) : RankOf(t) = RankOf(u)
      BY <2>4 DEF LoraTensors, RankOf
    <3>2. \A x, y \in ranks : x = y
      BY <2>6, <2>7
    <3> QED BY <2>3, <2>6, <3>1, <3>2
  <2> QED BY <2>1, <2>2, <2>4, <2>7 DEF AdapterFits
<1> QED BY <1>1, ExportInvHolds, PTL

\* Where each adapter is evaluated into its own directory, the results left by a run that
\* ends with exit code 0 are those of the weights beside them.
THEOREM ResultsBelongToWeights == Spec => []ResultsAreOwn
<1>1. ExportInv => ResultsAreOwn
  <2> SUFFICES ASSUME ExportInv, pc = "Succeeded", args.evaluate, ~args.eval_output,
                      NEW i \in DOMAIN created
               PROVE  results[created[i]] = dirs[created[i]].weights.version
    BY DEF ResultsAreOwn
  <2>1. i \in 1..evaluated
    BY LenProperties DEF ExportInv, Evaluations, TypeOK
  <2> QED BY <2>1 DEF ExportInv, Evaluations, Converted
<1> QED BY <1>1, ExportInvHolds, PTL

\* As long as no engine has died, "latest" takes of every node the sync round its engine
\* wrote last, or the one it is writing, for any number of nodes and rounds.
THEOREM LatestIsTheNewest == Spec => LatestIsNewest
<1> DEFINE Newest ==
               /\ pc = "Invoked" /\ pc' = "Converting"
               /\ args.round = "latest" /\ args.input # "file" /\ restarts = 0
               => \A i \in DOMAIN queue' :
                    LET n == queue'[i].node
                    IN  n # Root => \/ queue'[i].round = newest[n]
                                    \/ n \in saving /\ queue'[i].round = next[n]
<1>1. ExportInv /\ [Next]_vars => [Newest]_vars
  <2> SUFFICES ASSUME ExportInv, Next, pc = "Invoked", pc' = "Converting",
                      args.round = "latest", args.input # "file", restarts = 0,
                      NEW i \in DOMAIN queue', queue'[i].node # Root
               PROVE  LET n == queue'[i].node
                      IN  \/ queue'[i].round = newest[n]
                          \/ n \in saving /\ queue'[i].round = next[n]
    OBVIOUS
  <2> DEFINE f == queue'[i]
  <2>1. Discover
    BY DEF Next, SaveBase, SaveSync, CutOff, Restart, Load, SaveWeights, SaveConfig, SaveMeta, Save,
       run_monash_evaluation, Die, Again
  <2>2. queue' \in discover_checkpoints /\ args \in parse_args
    BY <2>1, ArgsAssumption DEF Discover, ExportInv, TypeOK
  <2>3. PICK nodes \in SUBSET Node : f \in FoundIn(nodes)
    <3>1. ASSUME NEW found \in SUBSET Discovered, queue' \in Listings(found) PROVE f \in found
      BY <3>1, ListingType
    <3>2. ASSUME NEW nodes \in SUBSET Node PROVE FoundIn(nodes) \in SUBSET Discovered
      BY NodesFound DEF FoundIn
    <3>3. Matching \in SUBSET Node
      BY <2>2 DEF Matching, parse_args
    <3>4. CASE args.input = "node"
      <4>1. queue' \in Listings(FoundIn(Matching \intersect {args.of}))
        BY <2>2, <3>4 DEF discover_checkpoints
      <4>2. Matching \intersect {args.of} \in SUBSET Node
        BY <3>3
      <4> QED BY <3>1, <3>2, <4>1, <4>2
    <3>5. CASE args.input = "root"
      <4>1. \/ queue' \in Listings(FoundIn(Matching))
            \/ queue' = <<>>
            \/ \E g \in OtherFiles : queue' = <<g>>
        BY <2>2, <3>5 DEF discover_checkpoints, OnlyLatest
      <4>2. queue' # <<>>
        <5>1. DOMAIN <<>> = {}
          OBVIOUS
        <5> QED BY <5>1
      <4>3. \A g \in OtherFiles : queue' # <<g>>
        <5> SUFFICES ASSUME NEW g \in OtherFiles, queue' = <<g>> PROVE FALSE
          OBVIOUS
        <5>1. f = g
          OBVIOUS
        <5> QED BY <5>1 DEF OtherFiles, Found
      <4> QED BY <3>1, <3>2, <3>3, <4>1, <4>2, <4>3
    <3> QED BY <2>2, <3>4, <3>5 DEF parse_args
  <2>4. PICK n \in nodes : f \in Selected(find_sync_round_files_in_dir(n))
    BY <2>3 DEF FoundIn
  <2> DEFINE found == find_sync_round_files_in_dir(n)
  <2>5. f \in found /\ \A g \in found : ~RoundBefore(f.round, g.round)
    BY <2>4 DEF Selected
  <2>6. /\ n \in Node /\ f.path \in Path /\ f.path.node = n /\ f.path.name \in SyncRound
        /\ Present(f.path) /\ f = Found(f.path.node, f.path.name, f.path)
    <3>1. n \in Node
      BY <2>3, <2>4
    <3> HIDE DEF f
    <3> QED BY <2>5, <3>1, FoundSyncRound
  <2>7. f.node = n /\ f.round \in SyncRound /\ f.path = Named(n, f.round)
    BY <2>6, PathParts DEF Found
  <2>8. f.round <= newest[n] \/ (n \in saving /\ f.round = next[n])
    BY <2>6, <2>7 DEF ExportInv, SyncFiles
  <2>9. CASE f.round <= newest[n]
    <3> DEFINE p == Named(n, newest[n])
               g == Found(n, newest[n], p)
    <3>1. newest[n] \in SyncRound \union {0} /\ f.round \in Nat \ {0}
      BY <2>6, <2>7, SyncRoundType DEF ExportInv, TypeOK
    <3>2. newest[n] \in SyncRound
      BY <2>9, <3>1
    <3>3. newest[n] \in Nat \ {0}
      BY <3>2, SyncRoundType
    <3>4. Present(p)
      BY <2>6, <3>3 DEF ExportInv, Kept
    <3>5. g \in found
      BY <3>2, <3>4 DEF find_sync_round_files_in_dir
    <3>6. g.round = newest[n]
      BY DEF Found
    <3>7. f.round = newest[n]
      BY <2>5, <2>9, <3>1, <3>3, <3>5, <3>6 DEF RoundBefore
    <3> QED BY <2>7, <3>7
  <2> QED BY <2>7, <2>8, <2>9
<1>2. Spec => [][Next]_vars
  BY PTL DEF Spec
<1> QED BY <1>1, <1>2, ExportInvHolds, PTL DEF LatestIsNewest
===============================================================================
