----------------------------- MODULE Workdir_proofs -----------------------------
(***************************************************************************)
(* Theorems about Workdir for any number of nodes, samples, rounds,        *)
(* experiments and faults.                                                 *)
(***************************************************************************)
EXTENDS Workdir, FiniteLemmas

-------------------------------------------------------------------------------
(* The invariant.                                                          *)

Waiting == {"Started", "Tokenising", "Ready", "Opening"}
HeaderRows == {i \in DOMAIN log : log[i].node = Header}

\* A node's training is where its last row is.
Positioned(n) == pc[n] = "Training" => at[n] = LastSamples(n)

\* Rows are of rounds begun; those of the round a node trains in have the epoch of it, and
\* before it trains there are none.
Dated(n) ==
    \A i \in OwnRows(n) :
        /\ log[i].of <= Now
        /\ pc[n] \in Waiting => log[i].of < Now
        /\ pc[n] = "Training" => /\ log[i].epoch <= epoch[n]
                                 /\ log[i].epoch = epoch[n] <=> log[i].of = Now

\* While a round trains the node has no mark but that of this round.
Marked(n) ==
    /\ pc[n] \in {"Training", "Ended"} => complete[n] \subseteq {Now}
    /\ pc[n] = "Trained" /\ source[n].kind = "checkpoint" => source[n].of = Now

Scored(n) ==
    pc[n] = "Trained" /\ OwnRows(n) # {} /\ HeaderRows = {1} => score[n] >= Max(OwnRows(n))

Local(n) == Positioned(n) /\ Dated(n) /\ Marked(n) /\ Scored(n)

\* What the lines are, whoever wrote them.
Headers == \A i \in DOMAIN log : log[i].node = Header => log[i] = HeaderLine

\* The same of a node's rows by themselves: each is a step on from the one before, the first
\* from the start of the data, and an epoch is one round's.
Walk(n) ==
    /\ OwnRows(n) # {} => log[Min(OwnRows(n))].samples = 1
    /\ \A i, j \in OwnRows(n) :
           i < j /\ (\A k \in OwnRows(n) : k <= i \/ j <= k)
               => log[j].samples = (log[i].samples + 1) % (Size + 1)

Walks == \A n \in Node : Walk(n)

Epochs ==
    \A n \in Node : \A i, j \in OwnRows(n) :
        log[i].epoch = log[j].epoch <=> log[i].of = log[j].of

\* A node with rows, or past the check of its cache, has one that passes the check.
Checked == {"Ready", "Opening", "Training"}

CacheKept ==
    \A n \in Node : ~shared /\ (OwnRows(n) # {} \/ pc[n] \in Checked) =>
                        cache[n] \notin {"none", "stub"} /\ pc[n] # "Tokenising"

WorkdirInv ==
    /\ TypeOK
    /\ Headers
    /\ Walks
    /\ Epochs
    /\ CacheKept
    /\ \A n \in Node : Local(n)

-------------------------------------------------------------------------------
(* Rows.                                                                   *)

LEMMA Constants ==
    /\ Size \in Nat /\ Size > 0 /\ PerRound \in Nat
    /\ Rounds \in Nat /\ Rounds > 0 /\ Experiments \in Nat /\ Experiments > 0
    /\ MaxFaults \in Nat /\ Header \notin Node
BY WorkdirAssumption

LEMMA NowType ==
    ASSUME TypeOK
    PROVE  Now \in Nat
<1>1. sweep.experiment - 1 \in Nat /\ sweep.round \in Nat /\ Rounds \in Nat
  BY Constants DEF TypeOK
<1>2. \A a, b \in Nat : a * b \in Nat
  OBVIOUS
<1>3. (sweep.experiment - 1) * Rounds \in Nat
  BY <1>1, <1>2
<1> QED BY <1>1, <1>3 DEF Now

LEMMA RowsType ==
    ASSUME TypeOK, NEW n
    PROVE  /\ OwnRows(n) \subseteq 1..Len(log) /\ Len(log) \in Nat
           /\ OwnRows(n) \in SUBSET Int /\ OwnRows(n) \in SUBSET Nat /\ IsFiniteSet(OwnRows(n))
           /\ \A i \in OwnRows(n) : log[i] \in Lines /\ log[i].node = n
           /\ OwnRows(n) # {} => /\ Max(OwnRows(n)) \in OwnRows(n)
                                 /\ \A i \in OwnRows(n) : Max(OwnRows(n)) >= i
                                 /\ Min(OwnRows(n)) \in OwnRows(n)
                                 /\ \A i \in OwnRows(n) : Min(OwnRows(n)) <= i
<1>1. log \in Seq(Lines)
  BY DEF TypeOK
<1>2. DOMAIN log = 1..Len(log) /\ Len(log) \in Nat /\ \A i \in 1..Len(log) : log[i] \in Lines
  BY <1>1
<1>3. OwnRows(n) \subseteq 1..Len(log) /\ \A i \in OwnRows(n) : log[i].node = n
  BY <1>2 DEF OwnRows
<1>4. OwnRows(n) \in SUBSET Int /\ OwnRows(n) \in SUBSET Nat
  BY <1>2, <1>3
<1>5. IsFiniteSet(OwnRows(n))
  <2>1. IsFiniteSet(1..Len(log))
    BY <1>2, FS_Interval
  <2> QED BY <1>3, <2>1, FS_Subset
<1> QED BY <1>2, <1>3, <1>4, <1>5, LargestNumber, LeastNumber

\* The largest of a set of naturals, zero included, is one and bounds it.
LEMMA LargestNatural ==
    ASSUME NEW S \in SUBSET Nat, IsFiniteSet(S)
    PROVE  Max({0} \union S) \in Nat /\ \A x \in S : x <= Max({0} \union S)
<1>1. IsFiniteSet({0} \union S)
  BY FS_Singleton, FS_Union
<1>2. {0} \union S \in SUBSET Int /\ {0} \union S # {} /\ {0} \union S \in SUBSET Nat
  OBVIOUS
<1>3. /\ Max({0} \union S) \in {0} \union S
      /\ \A x \in {0} \union S : Max({0} \union S) >= x
  BY <1>1, <1>2, LargestNumber
<1>4. ASSUME NEW x \in S PROVE x <= Max({0} \union S)
  BY <1>2, <1>3
<1> QED BY <1>2, <1>3, <1>4

LEMMA LastSamplesType ==
    ASSUME TypeOK, NEW n
    PROVE  LastSamples(n) \in 0..Size
<1>1. 0 \in 0..Size
  BY Constants
<1>2. CASE OwnRows(n) = {}
  BY <1>1, <1>2 DEF LastSamples
<1>3. CASE OwnRows(n) # {}
  <2>1. log[Max(OwnRows(n))] \in Lines
    BY <1>3, RowsType
  <2> QED BY <1>3, <2>1 DEF LastSamples, Lines
<1> QED BY <1>2, <1>3

LEMMA NextEpochType ==
    ASSUME TypeOK, NEW n
    PROVE  NextEpoch(n) \in Nat /\ \A i \in OwnRows(n) : log[i].epoch < NextEpoch(n)
<1> DEFINE E == {log[i].epoch : i \in OwnRows(n)}
<1>1. \A i \in OwnRows(n) : log[i].epoch \in Nat
  BY RowsType DEF Lines
<1>2. IsFiniteSet(E)
  <2>1. [i \in OwnRows(n) |-> log[i].epoch] \in Surjection(OwnRows(n), E)
    BY DEF Surjection
  <2> QED BY <2>1, RowsType, FS_Surjection
<1>3. E \in SUBSET Nat
  BY <1>1
<1>4. NextEpoch(n) = Max({0} \union E) + 1
  BY DEF NextEpoch
<1>5. \A i \in OwnRows(n) : log[i].epoch \in E
  OBVIOUS
<1> HIDE DEF E
<1>6. Max({0} \union E) \in Nat /\ \A x \in E : x <= Max({0} \union E)
  BY <1>2, <1>3, LargestNatural
<1> QED BY <1>1, <1>4, <1>5, <1>6

-------------------------------------------------------------------------------
(* Steps that write no line.                                               *)

\* What is said of a node stays so when neither its rows nor its process change.
LEMMA Bystander ==
    ASSUME NEW n \in Node, Local(n), sweep' = sweep, OwnRows(n)' = OwnRows(n),
           \A i \in OwnRows(n) : log'[i] = log[i],
           OwnRows(n) = {} \/ (HeaderRows' = {1} => HeaderRows = {1}),
           TypeOK,
           pc'[n] = pc[n], at'[n] = at[n], epoch'[n] = epoch[n],
           complete'[n] = complete[n], source'[n] = source[n], score'[n] = score[n]
    PROVE  Local(n)'
<1>1. LastSamples(n)' = LastSamples(n)
  BY RowsType DEF LastSamples
<1>2. Now' = Now
  BY DEF Now
<1>3. Positioned(n)' /\ Dated(n)' /\ Marked(n)' /\ Scored(n)'
  BY <1>1, <1>2 DEF Local, Positioned, Dated, Marked, Scored
<1> QED BY <1>3 DEF Local

\* Without a line written all that is said of the lines stays so.
LEMMA SameLog ==
    ASSUME log' = log
    PROVE  /\ Headers => Headers'
           /\ Walks => Walks'
           /\ Epochs => Epochs'
           /\ HeaderRows' = HeaderRows
           /\ \A n : OwnRows(n)' = OwnRows(n) /\ LastSamples(n)' = LastSamples(n)
<1>1. HeaderRows' = HeaderRows /\ \A n : OwnRows(n)' = OwnRows(n)
  BY DEF HeaderRows, OwnRows
<1>2. \A n : LastSamples(n)' = LastSamples(n)
  BY <1>1 DEF LastSamples
<1>3. Walks => Walks'
  BY <1>1 DEF Walks, Walk
<1> QED BY <1>1, <1>2, <1>3 DEF Headers, Epochs

\* A step that leaves the caches alone, and takes no process to tokenise or past the check.
LEMMA CachesLeft ==
    ASSUME CacheKept, UNCHANGED <<shared, cache>>,
           \A m \in Node : /\ OwnRows(m)' # {} => OwnRows(m) # {} \/ pc[m] = "Training"
                           /\ pc'[m] \in Checked => pc[m] \in Checked
                           /\ pc'[m] = "Tokenising" => pc[m] = "Tokenising"
    PROVE  CacheKept'
BY DEF CacheKept, Checked

LEMMA SweepStep ==
    ASSUME WorkdirInv, run_round \/ run_experiment
    PROVE  WorkdirInv'
<1> USE DEF engine, disk, opening
<1>1. TypeOK /\ CacheKept /\ \A n \in Node : Local(n)
  BY DEF WorkdirInv
<1>2. log' = log /\ \A n \in Node : pc[n] = "Exited"
  BY DEF run_round, run_experiment, AllExited
<1>3. Headers' /\ Walks' /\ Epochs'
  BY <1>2, SameLog DEF WorkdirInv
<1>4. /\ sweep.experiment \in 1..Experiments /\ sweep.round \in 0..Rounds
      /\ Now \in Nat /\ \A n : \A i \in OwnRows(n) : log[i].of \in Nat
  BY <1>1, NowType, RowsType DEF TypeOK, Lines
<1>5. CASE run_round
  <2>1. /\ sweep' = [sweep EXCEPT !.round = @ + 1] /\ sweep.round < Rounds
        /\ pc' = [n \in Node |-> "Started"]
        /\ UNCHANGED <<shared, disk, torn, opening, engine, faults>>
    BY <1>5 DEF run_round
  <2>2. TypeOK'
    <3>1. sweep' \in [experiment : 1..Experiments, round : 0..Rounds]
      <4>1. sweep.round + 1 \in 0..Rounds
        BY <1>4, <2>1, Constants
      <4> QED BY <1>1, <2>1, <4>1 DEF TypeOK
    <3>2. pc' \in [Node -> Places]
      BY <2>1 DEF Places
    <3> QED BY <1>1, <2>1, <3>1, <3>2 DEF TypeOK
  <2>3. Now' = Now + 1
    <3>1. sweep'.experiment = sweep.experiment /\ sweep'.round = sweep.round + 1
      BY <1>1, <2>1 DEF TypeOK
    <3> DEFINE before == (sweep.experiment - 1) * Rounds
    <3>2. Now = before + sweep.round /\ Now' = before + (sweep.round + 1)
      BY <3>1 DEF Now
    <3>3. before \in Int
      BY <1>4, Constants
    <3> HIDE DEF before
    <3> QED BY <1>4, <3>2, <3>3
  <2>4. CacheKept'
    BY <1>1, <1>2, <2>1, SameLog, CachesLeft DEF Checked
  <2>5. ASSUME NEW n \in Node PROVE Local(n)'
    <3>1. \A i \in OwnRows(n) : log[i].of <= Now
      BY <1>1 DEF Local, Dated
    <3>2. Dated(n)'
      BY <1>2, <1>4, <2>1, <2>3, <3>1, SameLog DEF Dated
    <3> QED BY <2>1, <3>2 DEF Local, Positioned, Marked, Scored
  <2> QED BY <1>3, <2>2, <2>4, <2>5 DEF WorkdirInv
<1>6. CASE run_experiment
  <2>1. /\ sweep' = [experiment |-> sweep.experiment + 1, round |-> 0]
        /\ sweep.round = Rounds /\ sweep.experiment < Experiments
        /\ UNCHANGED <<shared, pc, disk, torn, opening, engine, faults>>
    BY <1>6 DEF run_experiment
  <2>2. TypeOK'
    <3>1. sweep' \in [experiment : 1..Experiments, round : 0..Rounds]
      BY <1>4, <2>1, Constants
    <3> QED BY <1>1, <2>1, <3>1 DEF TypeOK
  <2>3. Now' = Now
    <3>1. sweep'.experiment = sweep.experiment + 1 /\ sweep'.round = 0
      BY <2>1
    <3>2. sweep'.experiment - 1 = sweep.experiment
      BY <1>4, <3>1
    <3>3. Now' = (sweep'.experiment - 1) * Rounds + sweep'.round
      BY DEF Now
    <3>4. Now' = sweep.experiment * Rounds + 0
      BY <3>1, <3>2, <3>3
    <3>5. Now = (sweep.experiment - 1) * Rounds + Rounds
      BY <2>1 DEF Now
    <3>6. \A e, r \in Int : e * r + 0 = (e - 1) * r + r
      OBVIOUS
    <3> QED BY <1>4, <3>4, <3>5, <3>6, Constants
  <2>4. CacheKept'
    BY <1>1, <1>2, <2>1, SameLog, CachesLeft
  <2>5. ASSUME NEW n \in Node PROVE Local(n)'
    <3>1. Dated(n)
      BY <1>1 DEF Local
    <3>2. Dated(n)'
      BY <1>2, <2>1, <2>3, <3>1, SameLog DEF Dated
    <3> QED BY <1>2, <2>1, <3>2 DEF Local, Positioned, Marked, Scored
  <2> QED BY <1>3, <2>2, <2>4, <2>5 DEF WorkdirInv
<1> QED BY <1>5, <1>6

\* A process goes from one place before its training to another.
LEMMA WaitingStep ==
    ASSUME NEW n \in Node, NEW place \in Waiting, WorkdirInv, pc[n] \in Waiting,
           Goto(n, place), UNCHANGED <<sweep, log, complete, adapter, engine>>
    PROVE  \A m \in Node : Local(m)'
<1> USE DEF engine
<1>1. TypeOK /\ \A m \in Node : Local(m)
  BY DEF WorkdirInv
<1>2. pc' = [pc EXCEPT ![n] = place] /\ pc \in [Node -> Places]
  BY <1>1 DEF Goto, TypeOK
<1>3. ASSUME NEW m \in Node, m # n PROVE Local(m)'
  <2>1. pc'[m] = pc[m]
    BY <1>2, <1>3
  <2> QED BY <1>1, <2>1, SameLog, Bystander
<1>4. Local(n)'
  <2>1. pc'[n] = place
    BY <1>2
  <2>2. Dated(n)'
    <3>1. Dated(n)
      BY <1>1 DEF Local
    <3> QED BY <2>1, <3>1, SameLog DEF Dated, Now, Waiting
  <2> QED BY <2>1, <2>2 DEF Local, Positioned, Marked, Scored, Waiting
<1> QED BY <1>3, <1>4

LEMMA CacheStep ==
    ASSUME WorkdirInv, NEW n \in Node, CheckCache(n) \/ WriteCache(n) \/ CacheWritten(n)
    PROVE  WorkdirInv'
<1> USE DEF engine, disk, opening
<1>1. TypeOK /\ CacheKept
  BY DEF WorkdirInv
<1>2. pc \in [Node -> Places] /\ cache \in [Node -> Contents]
  BY <1>1 DEF TypeOK
<1>3. log' = log
  BY DEF CheckCache, WriteCache, CacheWritten
<1>4. Headers' /\ Walks' /\ Epochs' /\ \A m \in Node : OwnRows(m)' = OwnRows(m)
  BY <1>3, SameLog DEF WorkdirInv
<1>5. ASSUME NEW content \in Contents, SetCache(n, content)
      PROVE  /\ cache' \in [Node -> Contents] /\ cache'[n] = content
             /\ \A m \in Node : m # n /\ ~shared => cache'[m] = cache[m]
  <2>1. cache' = [m \in Node |-> IF m \in Sharing(n) THEN content ELSE cache[m]]
    BY <1>5 DEF SetCache
  <2>2. n \in Sharing(n) /\ (~shared => Sharing(n) = {n})
    BY DEF Sharing
  <2> QED BY <1>2, <2>1, <2>2
<1>6. ASSUME CheckCache(n) PROVE WorkdirInv'
  <2>1. /\ pc[n] = "Started"
        /\ Goto(n, IF cache[n] \in {"none", "stub"} THEN "Tokenising" ELSE "Ready")
        /\ UNCHANGED <<shared, sweep, created, log, complete, adapter, opening, engine, faults>>
    BY <1>6 DEF CheckCache
  <2>2. \/ cache[n] = "stub" /\ SetCache(n, "none")
           /\ torn' = torn \union {m \in Sharing(n) : pc[m] = "Tokenising"}
        \/ cache[n] # "stub" /\ UNCHANGED <<cache, torn>>
    BY <1>6 DEF CheckCache
  <2>3. PICK place \in {"Tokenising", "Ready"} :
            Goto(n, place) /\ (place = "Ready" <=> cache[n] \notin {"none", "stub"})
    BY <2>1
  <2>4. pc' = [pc EXCEPT ![n] = place]
    BY <2>3 DEF Goto
  <2>5. /\ cache' \in [Node -> Contents]
        /\ place = "Ready" => cache'[n] \notin {"none", "stub"}
        /\ \A m \in Node : m # n /\ ~shared => cache'[m] = cache[m]
    BY <1>2, <1>5, <2>2, <2>3 DEF Contents
  <2>6. TypeOK'
    <3>1. pc' \in [Node -> Places] /\ torn' \subseteq Node
      BY <1>1, <2>2, <2>4 DEF TypeOK, Places, Sharing
    <3> QED BY <1>1, <2>1, <2>5, <3>1 DEF TypeOK
  <2>7. CacheKept'
    <3>1. ASSUME NEW m \in Node, m # n, ~shared,
                 OwnRows(m)' # {} \/ pc'[m] \in Checked
          PROVE  cache'[m] \notin {"none", "stub"} /\ pc'[m] # "Tokenising"
      BY <1>1, <1>2, <1>4, <2>4, <2>5, <3>1 DEF CacheKept
    <3>2. pc'[n] = place /\ "Tokenising" \notin Checked
      BY <1>2, <2>4 DEF Checked
    <3>3. ~shared /\ OwnRows(n) # {} => place = "Ready"
      BY <1>1, <2>3 DEF CacheKept
    <3>4. ASSUME ~shared, OwnRows(n)' # {} \/ pc'[n] \in Checked
          PROVE  cache'[n] \notin {"none", "stub"} /\ pc'[n] # "Tokenising"
      BY <1>4, <2>3, <2>5, <3>2, <3>3, <3>4
    <3> QED BY <2>1, <3>1, <3>4 DEF CacheKept
  <2>8. \A m \in Node : Local(m)'
    BY <2>1, <2>3, WaitingStep DEF Waiting
  <2> QED BY <1>4, <2>6, <2>7, <2>8 DEF WorkdirInv
<1>7. ASSUME WriteCache(n) PROVE WorkdirInv'
  <2>1. /\ pc[n] = "Tokenising" /\ pc' = pc
        /\ UNCHANGED <<shared, sweep, pc, created, log, complete, adapter, torn, opening, engine,
                       faults>>
    BY <1>7 DEF WriteCache
  <2>2. PICK content \in {"stub", "partial"} : SetCache(n, content)
    BY <1>7 DEF WriteCache
  <2>3. /\ cache' \in [Node -> Contents]
        /\ \A m \in Node : m # n /\ ~shared => cache'[m] = cache[m]
    BY <1>5, <2>2 DEF Contents
  <2>4. TypeOK'
    BY <1>1, <2>1, <2>3 DEF TypeOK
  <2>5. CacheKept'
    <3>1. "Tokenising" \notin Checked
      BY DEF Checked
    <3> QED BY <1>1, <1>4, <2>1, <2>3, <3>1 DEF CacheKept
  <2>6. \A m \in Node : Local(m)'
    <3>1. Goto(n, "Tokenising")
      BY <1>2, <2>1 DEF Goto
    <3> QED BY <2>1, <3>1, WaitingStep DEF Waiting
  <2> QED BY <1>4, <2>4, <2>5, <2>6 DEF WorkdirInv
<1>8. ASSUME CacheWritten(n) PROVE WorkdirInv'
  <2>1. /\ pc[n] = "Tokenising" /\ Goto(n, "Ready") /\ torn' = torn \ {n}
        /\ UNCHANGED <<shared, sweep, created, log, complete, adapter, opening, engine, faults>>
    BY <1>8 DEF CacheWritten
  <2>2. PICK content \in {"partial", "full"} : SetCache(n, content)
    BY <1>8 DEF CacheWritten
  <2>3. /\ cache' \in [Node -> Contents] /\ cache'[n] \notin {"none", "stub"}
        /\ \A m \in Node : m # n /\ ~shared => cache'[m] = cache[m]
    BY <1>5, <2>2 DEF Contents
  <2>4. pc' = [pc EXCEPT ![n] = "Ready"]
    BY <2>1 DEF Goto
  <2>5. TypeOK'
    <3>1. pc' \in [Node -> Places] /\ torn' \subseteq Node
      BY <1>1, <2>1, <2>4 DEF TypeOK, Places
    <3> QED BY <1>1, <2>1, <2>3, <3>1 DEF TypeOK
  <2>6. CacheKept'
    <3>1. pc'[n] = "Ready" /\ \A m \in Node : m # n => pc'[m] = pc[m]
      BY <1>2, <2>4
    <3> QED BY <1>1, <1>4, <2>1, <2>3, <3>1 DEF CacheKept
  <2>7. \A m \in Node : Local(m)'
    BY <2>1, WaitingStep DEF Waiting
  <2> QED BY <1>4, <2>5, <2>6, <2>7 DEF WorkdirInv
<1> QED BY <1>6, <1>7, <1>8

\* The process takes up where its last row left off, in an epoch no row has.
LEMMA OpeningStep ==
    ASSUME WorkdirInv, NEW n \in Node, LookForLog(n) \/ Open(n)
    PROVE  WorkdirInv'
<1> USE DEF engine, disk, opening
<1>1. TypeOK /\ CacheKept /\ \A m \in Node : Local(m)
  BY DEF WorkdirInv
<1>2. pc \in [Node -> Places]
  BY <1>1 DEF TypeOK
<1>3. log' = log /\ UNCHANGED <<shared, sweep, cache>>
  BY DEF LookForLog, Open
<1>4. Headers' /\ Walks' /\ Epochs'
  BY <1>3, SameLog DEF WorkdirInv
<1>5. ASSUME LookForLog(n) PROVE WorkdirInv'
  <2>1. /\ pc[n] = "Ready" /\ Goto(n, "Opening") /\ pc' = [pc EXCEPT ![n] = "Opening"]
        /\ UNCHANGED <<shared, sweep, disk, torn, unflushed, engine, faults>>
    BY <1>5 DEF LookForLog, Goto
  <2>2. TypeOK'
    <3>1. pc' \in [Node -> Places]
      BY <1>2, <2>1 DEF Places
    <3>2. unheaded' \subseteq Node
      BY <1>1, <1>5 DEF LookForLog, TypeOK
    <3> QED BY <1>1, <2>1, <3>1, <3>2 DEF TypeOK
  <2>3. CacheKept'
    BY <1>1, <1>2, <1>3, <2>1, SameLog, CachesLeft DEF Checked
  <2>4. \A m \in Node : Local(m)'
    BY <2>1, WaitingStep DEF Waiting
  <2> QED BY <1>4, <2>2, <2>3, <2>4 DEF WorkdirInv
<1>6. ASSUME Open(n) PROVE WorkdirInv'
  <2>1. /\ pc[n] = "Opening" /\ pc' = [pc EXCEPT ![n] = "Training"]
        /\ complete' = [complete EXCEPT ![n] = {}]
        /\ epoch' = [epoch EXCEPT ![n] = NextEpoch(n)]
        /\ from' = [from EXCEPT ![n] = LastSamples(n)]
        /\ at' = [at EXCEPT ![n] = LastSamples(n)]
        /\ created' = TRUE
        /\ UNCHANGED <<shared, sweep, cache, log, adapter, torn, source, score, faults>>
    BY <1>6 DEF Open, Goto, Sentinels
  <2>2. LastSamples(n) \in 0..Size /\ NextEpoch(n) \in Nat
    BY <1>1, LastSamplesType, NextEpochType
  <2>3. TypeOK'
    <3>1. pc' \in [Node -> Places]
      BY <1>2, <2>1 DEF Places
    <3>2. unheaded' \subseteq Node /\ unflushed' \subseteq Node
      BY <1>1, <1>6 DEF Open, TypeOK
    <3>3. epoch' \in [Node -> Nat] /\ complete' \in [Node -> SUBSET Nat]
      BY <1>1, <2>1, <2>2 DEF TypeOK
    <3>4. from' \in [Node -> 0..Size] /\ at' \in [Node -> 0..Size]
      BY <1>1, <2>1, <2>2 DEF TypeOK
    <3> QED BY <1>1, <2>1, <3>1, <3>2, <3>3, <3>4 DEF TypeOK
  <2>4. CacheKept'
    BY <1>1, <1>2, <1>3, <2>1, SameLog, CachesLeft DEF Checked
  <2>5. ASSUME NEW m \in Node, m # n PROVE Local(m)'
    <3>1. /\ pc'[m] = pc[m] /\ at'[m] = at[m] /\ epoch'[m] = epoch[m]
          /\ complete'[m] = complete[m] /\ source' = source /\ score' = score
      BY <1>1, <2>1, <2>5 DEF TypeOK
    <3> QED BY <1>1, <2>1, <3>1, SameLog, Bystander
  <2>6. Local(n)'
    <3>1. /\ pc'[n] = "Training" /\ at'[n] = LastSamples(n) /\ epoch'[n] = NextEpoch(n)
          /\ complete'[n] = {}
      BY <1>1, <2>1 DEF TypeOK
    <3>2. Now' = Now /\ Now \in Nat
      BY <1>1, <2>1, NowType DEF Now
    <3>3. ASSUME NEW i \in OwnRows(n)
          PROVE  /\ log[i].of <= Now /\ log[i].of < Now
                 /\ log[i].epoch <= NextEpoch(n) /\ log[i].epoch # NextEpoch(n) /\ log[i].of # Now
      <4>1. log[i].of < Now
        BY <1>1, <2>1 DEF Local, Dated, Waiting
      <4>2. log[i].epoch < NextEpoch(n) /\ NextEpoch(n) \in Nat
        BY <1>1, NextEpochType
      <4>3. log[i].of \in Nat /\ log[i].epoch \in Nat
        BY <1>1, RowsType DEF Lines
      <4> QED BY <3>2, <4>1, <4>2, <4>3
    <3>4. Dated(n)'
      <4>1. OwnRows(n)' = OwnRows(n) /\ log' = log
        BY <1>3, SameLog
      <4> QED BY <3>1, <3>2, <3>3, <4>1 DEF Dated, Waiting
    <3>5. Positioned(n)'
      BY <1>3, <3>1, SameLog DEF Positioned
    <3> QED BY <3>1, <3>4, <3>5 DEF Local, Marked, Scored
  <2> QED BY <1>4, <2>3, <2>4, <2>5, <2>6 DEF WorkdirInv
<1> QED BY <1>5, <1>6

\* A process that ends changes nothing of another's.
LEMMA ForgetType ==
    ASSUME TypeOK, NEW n \in Node, Forget(n)
    PROVE  /\ pc' \in [Node -> Places] /\ pc'[n] = "Exited"
           /\ epoch' \in [Node -> Nat] /\ score' \in [Node -> Nat]
           /\ from' \in [Node -> 0..Size] /\ at' \in [Node -> 0..Size]
           /\ source' \in [Node -> [kind : {"none", "checkpoint", "adapter", "dummy"}, of : Nat]]
           /\ \A m \in Node : m # n =>
                  /\ pc'[m] = pc[m] /\ at'[m] = at[m] /\ epoch'[m] = epoch[m]
                  /\ source'[m] = source[m] /\ score'[m] = score[m]
<1>1. 0 \in 0..Size /\ "Exited" \in Places
      /\ NoSource \in [kind : {"none", "checkpoint", "adapter", "dummy"}, of : Nat]
  BY Constants DEF Places, NoSource
<1>2. /\ pc' = [pc EXCEPT ![n] = "Exited"] /\ epoch' = [epoch EXCEPT ![n] = 0]
      /\ from' = [from EXCEPT ![n] = 0] /\ at' = [at EXCEPT ![n] = 0]
      /\ source' = [source EXCEPT ![n] = NoSource] /\ score' = [score EXCEPT ![n] = 0]
  BY DEF Forget, Goto
<1>3. pc' \in [Node -> Places] /\ epoch' \in [Node -> Nat] /\ score' \in [Node -> Nat]
  BY <1>1, <1>2 DEF TypeOK
<1>4. from' \in [Node -> 0..Size] /\ at' \in [Node -> 0..Size]
  BY <1>1, <1>2 DEF TypeOK
<1>5. source' \in [Node -> [kind : {"none", "checkpoint", "adapter", "dummy"}, of : Nat]]
  BY <1>1, <1>2 DEF TypeOK
<1>6. \A m \in Node : m # n =>
          /\ pc'[m] = pc[m] /\ at'[m] = at[m] /\ epoch'[m] = epoch[m]
          /\ source'[m] = source[m] /\ score'[m] = score[m]
  BY <1>2 DEF TypeOK
<1> QED BY <1>2, <1>3, <1>4, <1>5, <1>6 DEF TypeOK

\* A source is a checkpoint only if there is one, and the newest is then of this round.
LEMMA SourceType ==
    ASSUME TypeOK, NEW n \in Node, complete[n] \subseteq {Now}
    PROVE  /\ Source(n) \in [kind : {"none", "checkpoint", "adapter", "dummy"}, of : Nat]
           /\ Source(n).kind = "checkpoint" => Source(n).of = Now
<1>1. Now \in Nat /\ adapter[n] \in Nat
  BY NowType DEF TypeOK
<1>2. complete[n] # {} => Max(complete[n]) = Now
  <2>1. complete[n] # {} => complete[n] = {Now}
    OBVIOUS
  <2>2. IsFiniteSet({Now})
    BY FS_Singleton
  <2>3. {Now} \in SUBSET Int /\ {Now} # {}
    BY <1>1
  <2>4. Max({Now}) \in {Now}
    BY <2>2, <2>3, LargestNumber
  <2> QED BY <2>1, <2>4
<1>3. /\ [kind |-> "dummy", of |-> Now] \in
             [kind : {"none", "checkpoint", "adapter", "dummy"}, of : Nat]
      /\ [kind |-> "checkpoint", of |-> Now] \in
             [kind : {"none", "checkpoint", "adapter", "dummy"}, of : Nat]
      /\ [kind |-> "adapter", of |-> adapter[n]] \in
             [kind : {"none", "checkpoint", "adapter", "dummy"}, of : Nat]
  BY <1>1
<1> QED BY <1>2, <1>3 DEF Source, get_adapter_path

\* With a header only at the start the last line is the score.
LEMMA ScoreType ==
    ASSUME TypeOK
    PROVE  /\ extract_training_metrics \in Nat
           /\ \A n \in Node : OwnRows(n) # {} /\ HeaderRows = {1}
                  => extract_training_metrics >= Max(OwnRows(n))
<1>1. log \in Seq(Lines) /\ DOMAIN log = 1..Len(log) /\ Len(log) \in Nat
  BY DEF TypeOK
<1>2. ReadableLines \subseteq 1..Len(log)
  BY <1>1 DEF ReadableLines
<1>3. IsFiniteSet(ReadableLines) /\ ReadableLines \in SUBSET Nat
  <2>1. IsFiniteSet(1..Len(log))
    BY <1>1, FS_Interval
  <2>2. IsFiniteSet(ReadableLines)
    BY <1>2, <2>1, FS_Subset
  <2> QED BY <1>1, <1>2, <2>2
<1>4. /\ extract_training_metrics \in Nat
      /\ \A x \in ReadableLines : x <= extract_training_metrics
  BY <1>3, LargestNatural DEF extract_training_metrics
<1>5. ASSUME NEW n \in Node, OwnRows(n) # {}, HeaderRows = {1}
      PROVE  extract_training_metrics >= Max(OwnRows(n))
  <2> DEFINE last == Max(OwnRows(n))
  <2>1. last \in 1..Len(log) /\ log[last].node = n /\ n # Header
    BY <1>5, RowsType, Constants
  <2>2. 1 \in DOMAIN log /\ log[1].node = Header /\ log # <<>>
    BY <1>1, <1>5, <2>1 DEF HeaderRows
  <2>3. \A j \in 2..Len(log) : log[j].node # Header
    <3>1. \A j \in 2..Len(log) : j \in DOMAIN log /\ j \notin HeaderRows
      BY <1>1, <1>5
    <3> QED BY <3>1 DEF HeaderRows
  <2>4. last # 1 /\ last \in 2..Len(log)
    BY <1>1, <2>1, <2>2
  <2>5. last \in ReadableLines
    BY <1>1, <2>2, <2>3, <2>4 DEF ReadableLines
  <2> QED BY <1>1, <1>4, <2>1, <2>5
<1> QED BY <1>4, <1>5

LEMMA EndingStep ==
    ASSUME WorkdirInv, NEW n \in Node,
           Saves(n) \/ TrainerStops(n) \/ Extract(n) \/ Finish(n)
    PROVE  WorkdirInv'
<1> USE DEF engine, disk, opening
<1>1. TypeOK /\ CacheKept /\ \A m \in Node : Local(m)
  BY DEF WorkdirInv
<1>2. pc \in [Node -> Places] /\ Now \in Nat
  BY <1>1, NowType DEF TypeOK
<1>3. log' = log /\ UNCHANGED <<shared, sweep, cache>>
  BY DEF Saves, TrainerStops, Extract, Finish
<1>4. Headers' /\ Walks' /\ Epochs'
  BY <1>3, SameLog DEF WorkdirInv
<1>5. Now' = Now
  BY <1>3 DEF Now
<1>6. Local(n)
  BY <1>1
<1>7. /\ OwnRows(n)' = OwnRows(n) /\ LastSamples(n)' = LastSamples(n) /\ HeaderRows' = HeaderRows
      /\ log' = log
  BY <1>3, SameLog
<1>8. ASSUME Saves(n) PROVE WorkdirInv'
  <2>1. /\ pc[n] = "Training" /\ pc' = pc
        /\ UNCHANGED <<shared, sweep, pc, cache, created, log, torn, opening, engine, faults>>
        /\ \/ complete' = [complete EXCEPT ![n] = @ \union {Now}] /\ UNCHANGED adapter
           \/ adapter' = [adapter EXCEPT ![n] = Now] /\ UNCHANGED complete
    BY <1>8 DEF Saves
  <2>2. TypeOK'
    <3>1. complete[n] \union {Now} \in SUBSET Nat
      BY <1>1, <1>2 DEF TypeOK
    <3>2. complete \in [Node -> SUBSET Nat] /\ adapter \in [Node -> Nat]
      BY <1>1 DEF TypeOK
    <3>3. complete' \in [Node -> SUBSET Nat]
      BY <2>1, <3>1, <3>2
    <3>4. adapter' \in [Node -> Nat]
      BY <1>2, <2>1, <3>2
    <3> QED BY <1>1, <2>1, <3>3, <3>4 DEF TypeOK
  <2>3. CacheKept'
    BY <1>1, <1>3, <2>1, SameLog, CachesLeft
  <2>4. ASSUME NEW m \in Node, m # n PROVE Local(m)'
    <3>1. complete'[m] = complete[m]
      BY <1>1, <2>1, <2>4 DEF TypeOK
    <3> QED BY <1>1, <2>1, <3>1, SameLog, Bystander
  <2>5. Local(n)'
    <3>1. complete'[n] \subseteq complete[n] \union {Now} /\ complete[n] \subseteq {Now}
      BY <1>1, <1>6, <2>1 DEF TypeOK, Local, Marked
    <3>2. Dated(n)'
      BY <1>5, <1>6, <1>7, <2>1 DEF Local, Dated
    <3> QED BY <1>5, <1>6, <1>7, <2>1, <3>1, <3>2 DEF Local, Positioned, Marked, Scored
  <2> QED BY <1>4, <2>2, <2>3, <2>4, <2>5 DEF WorkdirInv
<1>9. ASSUME TrainerStops(n) PROVE WorkdirInv'
  <2>1. /\ pc[n] = "Training" /\ pc' = [pc EXCEPT ![n] = "Ended"]
        /\ UNCHANGED <<shared, sweep, disk, torn, opening, engine>>
        /\ faults' \in 0..MaxFaults
    <3>1. faults' \in 0..MaxFaults
      BY <1>1, <1>9, Constants DEF TrainerStops, TypeOK
    <3> QED BY <1>9, <3>1 DEF TrainerStops, Goto
  <2>2. TypeOK'
    <3>1. pc' \in [Node -> Places]
      BY <1>2, <2>1 DEF Places
    <3> QED BY <1>1, <2>1, <3>1 DEF TypeOK
  <2>3. CacheKept'
    BY <1>1, <1>2, <1>3, <2>1, SameLog, CachesLeft DEF Checked
  <2>4. ASSUME NEW m \in Node, m # n PROVE Local(m)'
    <3>1. pc'[m] = pc[m]
      BY <1>2, <2>1, <2>4
    <3> QED BY <1>1, <2>1, <3>1, SameLog, Bystander
  <2>5. Local(n)'
    <3>1. pc'[n] = "Ended"
      BY <1>2, <2>1
    <3>2. Dated(n)'
      BY <1>5, <1>6, <1>7, <3>1 DEF Local, Dated, Waiting
    <3> QED BY <1>5, <1>6, <1>7, <2>1, <3>1, <3>2 DEF Local, Positioned, Marked, Scored
  <2> QED BY <1>4, <2>2, <2>3, <2>4, <2>5 DEF WorkdirInv
<1>10. ASSUME Extract(n) PROVE WorkdirInv'
  <2>1. /\ pc[n] = "Ended" /\ pc' = [pc EXCEPT ![n] = "Trained"]
        /\ score' = [score EXCEPT ![n] = extract_training_metrics]
        /\ source' = [source EXCEPT ![n] = Source(n)]
        /\ UNCHANGED <<shared, sweep, disk, torn, opening, epoch, from, at, faults>>
    BY <1>10 DEF Extract, Goto
  <2>2. /\ Source(n) \in [kind : {"none", "checkpoint", "adapter", "dummy"}, of : Nat]
        /\ Source(n).kind = "checkpoint" => Source(n).of = Now
    <3>1. complete[n] \subseteq {Now}
      BY <1>6, <2>1 DEF Local, Marked
    <3> QED BY <1>1, <3>1, SourceType
  <2>3. /\ extract_training_metrics \in Nat
        /\ OwnRows(n) # {} /\ HeaderRows = {1} => extract_training_metrics >= Max(OwnRows(n))
    BY <1>1, ScoreType
  <2>4. TypeOK'
    <3>1. pc' \in [Node -> Places]
      BY <1>2, <2>1 DEF Places
    <3>2. score' \in [Node -> Nat]
      BY <1>1, <2>1, <2>3 DEF TypeOK
    <3>3. source' \in [Node -> [kind : {"none", "checkpoint", "adapter", "dummy"}, of : Nat]]
      BY <1>1, <2>1, <2>2 DEF TypeOK
    <3> QED BY <1>1, <2>1, <3>1, <3>2, <3>3 DEF TypeOK
  <2>5. CacheKept'
    BY <1>1, <1>2, <1>3, <2>1, SameLog, CachesLeft DEF Checked
  <2>6. ASSUME NEW m \in Node, m # n PROVE Local(m)'
    <3>1. pc'[m] = pc[m] /\ score'[m] = score[m] /\ source'[m] = source[m]
      BY <1>1, <2>1, <2>6 DEF TypeOK
    <3> QED BY <1>1, <2>1, <3>1, SameLog, Bystander
  <2>7. Local(n)'
    <3>1. /\ pc'[n] = "Trained" /\ score'[n] = extract_training_metrics /\ source'[n] = Source(n)
      BY <1>1, <2>1 DEF TypeOK
    <3>2. Dated(n)'
      BY <1>5, <1>6, <1>7, <3>1 DEF Local, Dated, Waiting
    <3>3. Marked(n)'
      BY <1>5, <2>2, <3>1 DEF Marked
    <3>4. Scored(n)'
      BY <1>7, <2>3, <3>1 DEF Scored
    <3> QED BY <3>1, <3>2, <3>3, <3>4 DEF Local, Positioned
  <2> QED BY <1>4, <2>4, <2>5, <2>6, <2>7 DEF WorkdirInv
<1>11. ASSUME Finish(n) PROVE WorkdirInv'
  <2>1. /\ adapter' = [adapter EXCEPT ![n] = IF adapter[n] = 0 THEN 0 ELSE Now]
        /\ Forget(n)
        /\ UNCHANGED <<shared, sweep, cache, created, log, complete, torn, opening, faults>>
    BY <1>11 DEF Finish, get_adapter_path
  <2>2. TypeOK'
    <3>1. adapter' \in [Node -> Nat]
      BY <1>1, <1>2, <2>1 DEF TypeOK
    <3> QED BY <1>1, <2>1, <3>1, ForgetType DEF TypeOK
  <2>3. CacheKept'
    BY <1>1, <1>3, <2>1, ForgetType, SameLog, CachesLeft DEF Checked
  <2>4. ASSUME NEW m \in Node, m # n PROVE Local(m)'
    BY <1>1, <2>1, <2>4, ForgetType, SameLog, Bystander
  <2>5. Local(n)'
    <3>1. pc'[n] = "Exited"
      BY <1>1, <2>1, ForgetType
    <3>2. Dated(n)'
      BY <1>5, <1>6, <1>7, <3>1 DEF Local, Dated, Waiting
    <3> QED BY <3>1, <3>2 DEF Local, Positioned, Marked, Scored
  <2> QED BY <1>4, <2>2, <2>3, <2>4, <2>5 DEF WorkdirInv
<1> QED BY <1>8, <1>9, <1>10, <1>11

-------------------------------------------------------------------------------
(* Steps that write lines.                                                 *)

\* To the lines there are some headers may have been added.
Grown(k) ==
    /\ k \in Nat /\ Len(log) <= k
    /\ log' \in Seq(Lines)
    /\ \A i \in 1..Len(log) : log'[i] = log[i]
    /\ \A i \in Len(log) + 1..k : log'[i] = HeaderLine

LEMMA AppendedLine ==
    ASSUME NEW s \in Seq(Lines), NEW r \in Lines
    PROVE  /\ Append(s, r) \in Seq(Lines)
           /\ Len(s) \in Nat /\ Len(Append(s, r)) = Len(s) + 1
           /\ \A i \in 1..Len(s) : Append(s, r)[i] = s[i]
           /\ Append(s, r)[Len(s) + 1] = r
<1>1. Append(s, r) \in Seq(Lines) /\ Len(Append(s, r)) = Len(s) + 1
  OBVIOUS
<1>2. Len(s) \in Nat
  OBVIOUS
<1>3. \A i \in 1..Len(s) : Append(s, r)[i] = s[i]
  OBVIOUS
<1>4. Append(s, r)[Len(s) + 1] = r
  OBVIOUS
<1> QED BY <1>1, <1>2, <1>3, <1>4

LEMMA FlushedHeader ==
    ASSUME TypeOK, NEW n \in Node, NEW lines \in Seq(Lines), Flush(n, lines)
    PROVE  \E s \in Seq(Lines) :
               /\ log' = s \o lines /\ unflushed' = unflushed \ {n}
               /\ Len(s) \in Nat /\ Len(log) \in Nat /\ Len(log) <= Len(s)
               /\ \A i \in 1..Len(log) : s[i] = log[i]
               /\ \A i \in Len(log) + 1..Len(s) : s[i] = HeaderLine
<1> DEFINE h == IF n \in unflushed THEN <<HeaderLine>> ELSE <<>>
<1>1. log' = log \o h \o lines /\ unflushed' = unflushed \ {n} /\ log \in Seq(Lines)
  BY DEF Flush, TypeOK
<1>2. HeaderLine \in Lines
  BY Constants DEF HeaderLine, Lines
<1>3. h = <<HeaderLine>> \/ h = <<>>
  OBVIOUS
<1> HIDE DEF h
<1>4. CASE h = <<HeaderLine>>
  <2> DEFINE s == Append(log, HeaderLine)
             L == Len(log)
  <2>1. log' = s \o lines
    BY <1>1, <1>2, <1>4
  <2>2. /\ s \in Seq(Lines) /\ L \in Nat /\ Len(s) = L + 1
        /\ \A i \in 1..L : s[i] = log[i]
        /\ s[L + 1] = HeaderLine
    BY <1>1, <1>2, AppendedLine
  <2> HIDE DEF s, L
  <2>3. Len(s) \in Nat /\ L <= Len(s) /\ \A i \in L + 1..Len(s) : i = L + 1
    BY <2>2
  <2> QED BY <1>1, <2>1, <2>2, <2>3 DEF L
<1>5. CASE h = <<>>
  <2>1. log' = log \o lines
    BY <1>1, <1>5
  <2>2. Len(log) \in Nat
    BY <1>1
  <2>3. \A i \in Len(log) + 1..Len(log) : FALSE
    BY <2>2
  <2> QED BY <1>1, <2>1, <2>2, <2>3
<1> QED BY <1>3, <1>4, <1>5

LEMMA FlushNothing ==
    ASSUME TypeOK, NEW n \in Node, Flush(n, <<>>)
    PROVE  /\ Grown(Len(log')) /\ unflushed' = unflushed \ {n}
<1>1. <<>> \in Seq(Lines)
  OBVIOUS
<1>2. PICK s \in Seq(Lines) :
          /\ log' = s \o <<>> /\ unflushed' = unflushed \ {n}
          /\ Len(s) \in Nat /\ Len(log) \in Nat /\ Len(log) <= Len(s)
          /\ \A i \in 1..Len(log) : s[i] = log[i]
          /\ \A i \in Len(log) + 1..Len(s) : s[i] = HeaderLine
  BY <1>1, FlushedHeader
<1>3. log' = s
  BY <1>2
<1> QED BY <1>2, <1>3, Zenon DEF Grown

LEMMA FlushRow ==
    ASSUME TypeOK, NEW n \in Node, NEW r \in Lines, Flush(n, <<r>>)
    PROVE  /\ \E k \in Nat : Grown(k) /\ Len(log') = k + 1 /\ log'[k + 1] = r
           /\ unflushed' = unflushed \ {n}
<1>1. <<r>> \in Seq(Lines)
  OBVIOUS
<1>2. PICK s \in Seq(Lines) :
          /\ log' = s \o <<r>> /\ unflushed' = unflushed \ {n}
          /\ Len(s) \in Nat /\ Len(log) \in Nat /\ Len(log) <= Len(s)
          /\ \A i \in 1..Len(log) : s[i] = log[i]
          /\ \A i \in Len(log) + 1..Len(s) : s[i] = HeaderLine
  BY <1>1, FlushedHeader
<1> DEFINE t == Append(s, r)
<1>3. log' = t
  BY <1>2
<1>4. /\ t \in Seq(Lines) /\ Len(t) = Len(s) + 1 /\ t[Len(s) + 1] = r
      /\ \A i \in 1..Len(s) : t[i] = s[i]
  BY AppendedLine
<1> DEFINE L == Len(log)
           k == Len(s)
<1>5. /\ L \in Nat /\ k \in Nat /\ L <= k
      /\ \A i \in 1..L : s[i] = log[i]
      /\ \A i \in L + 1..k : s[i] = HeaderLine
  BY <1>2
<1> HIDE DEF t, L, k
<1>6. (\A i \in 1..L : i \in 1..k) /\ \A i \in L + 1..k : i \in 1..k
  BY <1>5
<1>7. \A i \in 1..k : log'[i] = s[i]
  BY <1>3, <1>4 DEF k
<1>8. /\ \A i \in 1..L : log'[i] = log[i]
      /\ \A i \in L + 1..k : log'[i] = HeaderLine
  BY <1>5, <1>6, <1>7
<1>9. Grown(k)
  BY <1>3, <1>4, <1>5, <1>8, Zenon DEF Grown, L
<1>10. Len(log') = k + 1 /\ log'[k + 1] = r
  BY <1>3, <1>4 DEF k
<1> QED BY <1>2, <1>5, <1>9, <1>10

\* What the lines after a row, or after headers alone, are: other nodes' rows stay theirs.
LEMMA GrownRows ==
    ASSUME TypeOK, NEW n, NEW k, Grown(k), Len(log') = k + 1 => log'[k + 1].node = n,
           Len(log') \in {k, k + 1}
    PROVE  /\ DOMAIN log = 1..Len(log) /\ DOMAIN log' = 1..Len(log') /\ Len(log) \in Nat
           /\ \A m \in Node : /\ m # n => OwnRows(m)' = OwnRows(m)
                              /\ \A i \in OwnRows(m) : log'[i] = log[i]
           /\ n \in Node => OwnRows(n)' = OwnRows(n) \union (k + 1..Len(log'))
           /\ \A m \in Node : OwnRows(m) # {} => (HeaderRows' = {1} => HeaderRows = {1})
<1> DEFINE L == Len(log)
           M == Len(log')
<1>1. log \in Seq(Lines) /\ log' \in Seq(Lines)
  BY DEF TypeOK, Grown
<1>2. DOMAIN log = 1..L /\ DOMAIN log' = 1..M /\ L \in Nat /\ M \in Nat
  BY <1>1
<1>3. k \in Nat /\ L <= k /\ M \in {k, k + 1} /\ (M = k + 1 => log'[k + 1].node = n)
  BY DEF Grown
<1>4. \A i \in 1..L : log'[i] = log[i]
  BY DEF Grown
<1>5. \A i \in L + 1..k : log'[i].node = Header
  BY DEF Grown, HeaderLine
<1>6. /\ \A m : OwnRows(m) = {i \in 1..L : log[i].node = m}
      /\ \A m : OwnRows(m)' = {i \in 1..M : log'[i].node = m}
      /\ HeaderRows = {i \in 1..L : log[i].node = Header}
      /\ HeaderRows' = {i \in 1..M : log'[i].node = Header}
  BY <1>2 DEF OwnRows, HeaderRows
<1> HIDE DEF L, M
<1>7. \A i \in 1..M : i \in 1..L \/ i \in L + 1..k \/ (i = k + 1 /\ M = k + 1)
  BY <1>2, <1>3
<1>8. \A i \in 1..L : i \in 1..M /\ i # k + 1
  BY <1>2, <1>3
<1>9. /\ \A i \in k + 1..M : i \in 1..M /\ i = k + 1 /\ M = k + 1
      /\ M = k + 1 => k + 1 \in k + 1..M
  BY <1>2, <1>3
<1>10. ASSUME NEW m \in Node, m # n PROVE OwnRows(m)' = OwnRows(m)
  BY <1>3, <1>4, <1>5, <1>6, <1>7, <1>8, <1>10, Constants
<1>11. ASSUME NEW m \in Node PROVE \A i \in OwnRows(m) : log'[i] = log[i]
  BY <1>4, <1>6
<1>12. ASSUME n \in Node PROVE OwnRows(n)' = OwnRows(n) \union (k + 1..M)
  BY <1>3, <1>4, <1>5, <1>6, <1>7, <1>8, <1>9, <1>12, Constants
<1>13. ASSUME NEW m \in Node, OwnRows(m) # {}, HeaderRows' = {1} PROVE HeaderRows = {1}
  <2>1. L >= 1 /\ 1 \in 1..L
    BY <1>2, <1>6, <1>13
  <2>2. 1 \in HeaderRows
    BY <1>4, <1>6, <1>13, <2>1
  <2>3. HeaderRows \subseteq HeaderRows'
    BY <1>4, <1>6, <1>8
  <2> QED BY <1>13, <2>2, <2>3
<1> QED BY <1>2, <1>10, <1>11, <1>12, <1>13 DEF L, M

\* Headers alone say nothing of any node.
LEMMA HeadersWritten ==
    ASSUME WorkdirInv, Grown(Len(log'))
    PROVE  /\ Headers' /\ Walks' /\ Epochs'
           /\ \A m \in Node : /\ OwnRows(m)' = OwnRows(m)
                              /\ \A i \in OwnRows(m) : log'[i] = log[i]
                              /\ OwnRows(m) = {} \/ (HeaderRows' = {1} => HeaderRows = {1})
<1> DEFINE L == Len(log)
           M == Len(log')
<1>1. TypeOK /\ Headers /\ Walks /\ Epochs
  BY DEF WorkdirInv
<1>2. M \in Nat /\ M # M + 1
  BY DEF Grown
<1>3. /\ DOMAIN log = 1..L /\ DOMAIN log' = 1..M /\ L \in Nat
      /\ \A m \in Node : /\ m # Header => OwnRows(m)' = OwnRows(m)
                         /\ \A i \in OwnRows(m) : log'[i] = log[i]
      /\ \A m \in Node : OwnRows(m) # {} => (HeaderRows' = {1} => HeaderRows = {1})
  BY <1>1, <1>2, GrownRows
<1>4. \A m \in Node : OwnRows(m)' = OwnRows(m)
  BY <1>3, Constants
<1>5. Headers'
  <2>1. \A i \in 1..L : log'[i] = log[i]
    BY DEF Grown
  <2>2. \A i \in L + 1..M : log'[i] = HeaderLine
    BY DEF Grown
  <2> HIDE DEF L, M
  <2>3. \A i \in 1..M : i \in 1..L \/ i \in L + 1..M
    BY <1>2, <1>3
  <2> QED BY <1>1, <1>3, <2>1, <2>2, <2>3 DEF Headers, HeaderLine
<1>6. Epochs'
  BY <1>1, <1>3, <1>4 DEF Epochs
<1>7. Walks'
  BY <1>1, <1>3, <1>4, RowsType DEF Walks, Walk
<1> QED BY <1>3, <1>4, <1>5, <1>6, <1>7

\* A row of the round is one step on from the node's last.
LEMMA RowWritten ==
    ASSUME WorkdirInv, NEW n \in Node, NEW s \in 0..Size, pc[n] = "Training",
           s = (at[n] + 1) % (Size + 1), Flush(n, <<Row(n, s)>>)
    PROVE  /\ log' \in Seq(Lines) /\ unflushed' = unflushed \ {n}
           /\ Headers' /\ Walks' /\ Epochs'
           /\ LastSamples(n)' = s
           /\ \A i \in OwnRows(n)' :
                  /\ log'[i].of <= Now /\ log'[i].epoch <= epoch[n]
                  /\ log'[i].epoch = epoch[n] <=> log'[i].of = Now
           /\ \A m \in Node : /\ m # n => OwnRows(m)' = OwnRows(m)
                              /\ \A i \in OwnRows(m) : log'[i] = log[i]
                              /\ OwnRows(m) = {} \/ (HeaderRows' = {1} => HeaderRows = {1})
<1> DEFINE r == Row(n, s)
           L == Len(log)
           M == Len(log')
<1>1. TypeOK /\ Headers /\ Walks /\ Epochs /\ Local(n)
  BY DEF WorkdirInv
<1>2. /\ r \in Lines /\ r.node = n /\ r.samples = s /\ r.epoch = epoch[n] /\ r.of = Now
      /\ Now \in Nat /\ epoch[n] \in Nat /\ at[n] \in 0..Size
  BY <1>1, NowType DEF Row, Lines, TypeOK
<1>3. \E k \in Nat : Grown(k) /\ M = k + 1 /\ log'[k + 1] = r
      /\ unflushed' = unflushed \ {n}
  BY <1>1, <1>2, FlushRow
<1>4. PICK k \in Nat : Grown(k) /\ M = k + 1 /\ log'[k + 1] = r
  BY <1>3
<1>5. /\ DOMAIN log = 1..L /\ DOMAIN log' = 1..M /\ L \in Nat
      /\ \A m \in Node : /\ m # n => OwnRows(m)' = OwnRows(m)
                         /\ \A i \in OwnRows(m) : log'[i] = log[i]
      /\ OwnRows(n)' = OwnRows(n) \union (k + 1..M)
      /\ \A m \in Node : OwnRows(m) # {} => (HeaderRows' = {1} => HeaderRows = {1})
  BY <1>1, <1>2, <1>4, GrownRows
<1>6. L <= k /\ log' \in Seq(Lines) /\ (\A i \in 1..L : log'[i] = log[i])
      /\ \A i \in L + 1..k : log'[i] = HeaderLine
  BY <1>4 DEF Grown
<1> HIDE DEF r, L, M
<1>7. OwnRows(n)' = OwnRows(n) \union {k + 1}
  BY <1>4, <1>5
<1>8. /\ \A i \in OwnRows(n) : i \in Nat /\ i < k + 1 /\ log[i] \in Lines
      /\ OwnRows(n) \in SUBSET Int /\ IsFiniteSet(OwnRows(n)) /\ OwnRows(n) \in SUBSET Nat
  <2>1. OwnRows(n) \subseteq 1..L /\ OwnRows(n) \in SUBSET Int /\ IsFiniteSet(OwnRows(n))
        /\ OwnRows(n) \in SUBSET Nat /\ \A i \in OwnRows(n) : log[i] \in Lines
    BY <1>1, RowsType DEF L
  <2>2. \A i \in 1..L : i < k + 1
    BY <1>5, <1>6
  <2> QED BY <2>1, <2>2
<1>9. Headers'
  <2>1. \A i \in 1..M : i \in 1..L \/ i \in L + 1..k \/ i = k + 1
    BY <1>4, <1>5, <1>6
  <2>2. r.node # Header
    BY <1>2, Constants
  <2> QED BY <1>1, <1>4, <1>5, <1>6, <2>1, <2>2 DEF Headers, HeaderLine
<1>10. /\ \A i \in OwnRows(n) : log'[i] = log[i]
       /\ log'[k + 1].samples = s /\ log'[k + 1].epoch = epoch[n] /\ log'[k + 1].of = Now
  BY <1>2, <1>4, <1>5
<1>11. \A i \in OwnRows(n)' :
           /\ log'[i].of <= Now /\ log'[i].epoch <= epoch[n]
           /\ log'[i].epoch = epoch[n] <=> log'[i].of = Now
  <2>1. \A i \in OwnRows(n) :
            /\ log[i].of <= Now /\ log[i].epoch <= epoch[n]
            /\ log[i].epoch = epoch[n] <=> log[i].of = Now
    BY <1>1 DEF Local, Dated
  <2> QED BY <1>2, <1>7, <1>10, <2>1
<1>12. Max(OwnRows(n)') = k + 1
  <2> DEFINE S == OwnRows(n) \union {k + 1}
  <2>1. IsFiniteSet(S)
    BY <1>8, FS_AddElement
  <2>2. S \in SUBSET Int /\ S # {} /\ \A i \in S : i <= k + 1
    BY <1>8
  <2>3. k + 1 \in S
    OBVIOUS
  <2> HIDE DEF S
  <2>4. Max(S) \in S /\ \A y \in S : Max(S) >= y
    BY <2>1, <2>2, LargestNumber
  <2>5. Max(S) = k + 1
    <3>1. Max(S) <= k + 1 /\ Max(S) >= k + 1 /\ Max(S) \in Int
      BY <2>2, <2>3, <2>4
    <3> QED BY <3>1
  <2> QED BY <1>7, <2>5 DEF S
<1>13. LastSamples(n)' = s
  BY <1>7, <1>10, <1>12 DEF LastSamples
<1>14. Epochs'
  <2>1. \A i, j \in OwnRows(n) : log[i].epoch = log[j].epoch <=> log[i].of = log[j].of
    BY <1>1 DEF Epochs
  <2>2. \A i, j \in OwnRows(n)' :
            log'[i].epoch = log'[j].epoch <=> log'[i].of = log'[j].of
    BY <1>7, <1>10, <1>11, <2>1
  <2>3. ASSUME NEW m \in Node, m # n
        PROVE  \A i, j \in OwnRows(m)' :
                   log'[i].epoch = log'[j].epoch <=> log'[i].of = log'[j].of
    BY <1>1, <1>5, <2>3 DEF Epochs
  <2> QED BY <2>2, <2>3 DEF Epochs
<1>15. ASSUME NEW m \in Node, m # n PROVE Walk(m)'
  <2>1. Walk(m) /\ OwnRows(m)' = OwnRows(m) /\ \A i \in OwnRows(m) : log'[i] = log[i]
    BY <1>1, <1>5, <1>15 DEF Walks
  <2> QED BY <1>1, <2>1, RowsType DEF Walk
<1>16. Walk(n)'
  <2>1. Walk(n) /\ at[n] = LastSamples(n)
    BY <1>1 DEF Walks, Local, Positioned
  <2>2. OwnRows(n)' # {} => log'[Min(OwnRows(n)')].samples = 1
    <3> DEFINE S == OwnRows(n) \union {k + 1}
    <3>1. S \in SUBSET Nat /\ S # {}
      BY <1>8
    <3>2. Min(S) \in S /\ \A y \in S : Min(S) <= y
      <4> HIDE DEF S
      <4> QED BY <3>1, LeastNumber
    <3>3. CASE OwnRows(n) = {}
      <4>1. Min(S) = k + 1
        BY <3>2, <3>3
      <4>2. at[n] = 0
        BY <2>1, <3>3 DEF LastSamples
      <4>3. s = 1
        BY <4>2, Constants
      <4> HIDE DEF S
      <4> QED BY <1>7, <1>10, <4>1, <4>3 DEF S
    <3>4. CASE OwnRows(n) # {}
      <4>1. Min(OwnRows(n)) \in OwnRows(n) /\ \A y \in OwnRows(n) : Min(OwnRows(n)) <= y
        BY <1>1, <3>4, RowsType
      <4>2. Min(OwnRows(n)) \in S /\ Min(OwnRows(n)) \in Nat /\ Min(OwnRows(n)) < k + 1
        BY <1>8, <4>1
      <4>3. Min(S) \in OwnRows(n)
        <5>1. Min(S) <= Min(OwnRows(n)) /\ Min(S) \in Nat
          BY <3>1, <3>2, <4>2
        <5>2. Min(S) # k + 1
          BY <4>2, <5>1
        <5> QED BY <3>2, <5>2
      <4>4. Min(S) \in Nat /\ Min(S) <= Min(OwnRows(n)) /\ Min(OwnRows(n)) <= Min(S)
        BY <1>8, <3>2, <4>1, <4>2, <4>3
      <4>5. Min(S) = Min(OwnRows(n))
        <5> HIDE DEF S
        <5> QED BY <4>2, <4>4
      <4>6. log[Min(OwnRows(n))].samples = 1
        BY <2>1, <3>4 DEF Walk
      <4> HIDE DEF S
      <4> QED BY <1>7, <1>10, <4>1, <4>5, <4>6 DEF S
    <3> QED BY <3>3, <3>4
  <2>3. ASSUME NEW i \in OwnRows(n)', NEW j \in OwnRows(n)', i < j,
               \A l \in OwnRows(n)' : l <= i \/ j <= l
        PROVE  log'[j].samples = (log'[i].samples + 1) % (Size + 1)
    <3>1. CASE j = k + 1
      <4>1. i \in OwnRows(n)
        BY <1>7, <1>8, <2>3, <3>1
      <4>2. \A l \in OwnRows(n) : l <= i
        BY <1>7, <1>8, <2>3, <3>1
      <4>3. Max(OwnRows(n)) \in OwnRows(n) /\ Max(OwnRows(n)) >= i
        BY <1>1, <4>1, RowsType
      <4>4. Max(OwnRows(n)) = i
        BY <1>8, <4>1, <4>2, <4>3
      <4>5. log[i].samples = at[n]
        BY <2>1, <4>1, <4>4 DEF LastSamples
      <4> QED BY <1>10, <3>1, <4>1, <4>5
    <3>2. CASE j # k + 1
      <4>1. j \in OwnRows(n) /\ i \in OwnRows(n)
        BY <1>7, <1>8, <2>3, <3>2
      <4>2. \A l \in OwnRows(n) : l <= i \/ j <= l
        BY <1>7, <2>3
      <4> QED BY <1>10, <2>1, <2>3, <4>1, <4>2 DEF Walk
    <3> QED BY <3>1, <3>2
  <2> QED BY <2>2, <2>3 DEF Walk
<1> QED BY <1>3, <1>5, <1>6, <1>9, <1>11, <1>13, <1>14, <1>15, <1>16 DEF Walks

LEMMA WritingStep ==
    ASSUME WorkdirInv, NEW n \in Node, Step(n) \/ Exhausted(n)
    PROVE  WorkdirInv'
<1> USE DEF engine, disk, opening
<1>1. TypeOK /\ CacheKept /\ \A m \in Node : Local(m)
  BY DEF WorkdirInv
<1>2. /\ pc \in [Node -> Places] /\ at \in [Node -> 0..Size] /\ at[n] \in 0..Size
      /\ unflushed \subseteq Node
  BY <1>1 DEF TypeOK
<1>3. PICK s \in 0..Size : /\ s = (at[n] + 1) % (Size + 1) /\ Flush(n, <<Row(n, s)>>)
                           /\ Step(n) => s = at[n] + 1
  <2>1. CASE Step(n)
    <3>1. at[n] < Size /\ Flush(n, <<Row(n, at[n] + 1)>>)
      BY <2>1 DEF Step
    <3>2. at[n] + 1 \in 0..Size /\ at[n] + 1 = (at[n] + 1) % (Size + 1)
      BY <1>2, <3>1, Constants
    <3> QED BY <3>1, <3>2
  <2>2. CASE ~Step(n)
    <3>1. at[n] = Size /\ Flush(n, <<Row(n, 0)>>)
      BY <2>2 DEF Exhausted
    <3>2. 0 \in 0..Size /\ 0 = (at[n] + 1) % (Size + 1)
      BY <3>1, Constants
    <3> QED BY <2>2, <3>1, <3>2
  <2> QED BY <2>1, <2>2
<1>4. /\ pc[n] = "Training" /\ epoch' = epoch
      /\ UNCHANGED <<shared, sweep, cache, created, complete, adapter, torn, unheaded, epoch, from,
                     source, score, faults>>
      /\ \/ pc' = pc /\ at' = [at EXCEPT ![n] = s]
         \/ pc' = [pc EXCEPT ![n] = "Ended"] /\ at' = at
  BY <1>3 DEF Step, Exhausted, Goto
<1>5. /\ log' \in Seq(Lines) /\ unflushed' = unflushed \ {n}
      /\ Headers' /\ Walks' /\ Epochs'
      /\ LastSamples(n)' = s
      /\ \A i \in OwnRows(n)' :
             /\ log'[i].of <= Now /\ log'[i].epoch <= epoch[n]
             /\ log'[i].epoch = epoch[n] <=> log'[i].of = Now
      /\ \A m \in Node : /\ m # n => OwnRows(m)' = OwnRows(m)
                         /\ \A i \in OwnRows(m) : log'[i] = log[i]
                         /\ OwnRows(m) = {} \/ (HeaderRows' = {1} => HeaderRows = {1})
  BY <1>3, <1>4, RowWritten
<1>6. /\ pc' \in [Node -> Places] /\ at' \in [Node -> 0..Size]
      /\ (pc'[n] = "Training" /\ at'[n] = s) \/ pc'[n] = "Ended"
      /\ \A m \in Node : m # n => pc'[m] = pc[m] /\ at'[m] = at[m]
  BY <1>2, <1>3, <1>4 DEF Places
<1>7. TypeOK'
  <2>1. unflushed' \subseteq Node
    BY <1>2, <1>5
  <2> QED BY <1>1, <1>4, <1>5, <1>6, <2>1 DEF TypeOK
<1>8. CacheKept'
  <2>1. \A m \in Node : m # n => OwnRows(m)' = OwnRows(m)
    BY <1>5
  <2> QED BY <1>1, <1>4, <1>6, <2>1, CachesLeft DEF Checked
<1>9. ASSUME NEW m \in Node, m # n PROVE Local(m)'
  BY <1>1, <1>4, <1>5, <1>6, <1>9, Bystander
<1>10. Local(n)'
  <2>1. Now' = Now
    BY <1>4 DEF Now
  <2>2. Positioned(n)'
    BY <1>5, <1>6 DEF Positioned
  <2>3. Dated(n)'
    BY <1>4, <1>5, <1>6, <2>1 DEF Dated, Waiting
  <2>4. Marked(n)'
    BY <1>1, <1>4, <1>6, <2>1 DEF Marked, Local
  <2>5. Scored(n)'
    BY <1>6 DEF Scored
  <2> QED BY <2>2, <2>3, <2>4, <2>5 DEF Local
<1> QED BY <1>5, <1>7, <1>8, <1>9, <1>10 DEF WorkdirInv

LEMMA FailStep ==
    ASSUME WorkdirInv, NEW n \in Node, Fail(n)
    PROVE  WorkdirInv'
<1> USE DEF engine, disk, opening
<1>1. TypeOK /\ CacheKept /\ \A m \in Node : Local(m)
  BY DEF WorkdirInv
<1>2. /\ faults < MaxFaults /\ faults' = faults + 1
      /\ torn' = torn \ {n} /\ unheaded' = unheaded \ {n} /\ Forget(n)
      /\ UNCHANGED <<shared, sweep, cache, created, complete, adapter>>
      /\ Flush(n, <<>>) \/ (unflushed' = unflushed \ {n} /\ log' = log)
  BY DEF Fail
<1>3. /\ Headers' /\ Walks' /\ Epochs' /\ log' \in Seq(Lines) /\ unflushed' = unflushed \ {n}
      /\ \A m \in Node : /\ OwnRows(m)' = OwnRows(m)
                         /\ \A i \in OwnRows(m) : log'[i] = log[i]
                         /\ OwnRows(m) = {} \/ (HeaderRows' = {1} => HeaderRows = {1})
  <2>1. CASE Flush(n, <<>>)
    <3>1. Grown(Len(log')) /\ unflushed' = unflushed \ {n}
      BY <1>1, <2>1, FlushNothing
    <3>2. log' \in Seq(Lines)
      BY <3>1 DEF Grown
    <3> QED BY <3>1, <3>2, HeadersWritten
  <2>2. CASE unflushed' = unflushed \ {n} /\ log' = log
    <3>1. log' \in Seq(Lines)
      BY <1>1, <2>2 DEF TypeOK
    <3>2. Headers /\ Walks /\ Epochs
      BY DEF WorkdirInv
    <3> QED BY <2>2, <3>1, <3>2, SameLog
  <2> QED BY <1>2, <2>1, <2>2
<1>4. TypeOK'
  <2>1. faults' \in 0..MaxFaults
    BY <1>1, <1>2, Constants DEF TypeOK
  <2>2. torn' \subseteq Node /\ unheaded' \subseteq Node /\ unflushed' \subseteq Node
    BY <1>1, <1>2, <1>3 DEF TypeOK
  <2> QED BY <1>1, <1>2, <1>3, <2>1, <2>2, ForgetType DEF TypeOK
<1>5. CacheKept'
  <2>1. pc'[n] = "Exited" /\ \A m \in Node : m # n => pc'[m] = pc[m]
    BY <1>1, <1>2, ForgetType
  <2> QED BY <1>1, <1>2, <1>3, <2>1, CachesLeft DEF Checked
<1>6. ASSUME NEW m \in Node, m # n PROVE Local(m)'
  BY <1>1, <1>2, <1>3, <1>6, ForgetType, Bystander
<1>7. Local(n)'
  <2>1. pc'[n] = "Exited" /\ Now' = Now
    BY <1>1, <1>2, ForgetType DEF Now
  <2>2. Dated(n)'
    <3>1. Dated(n)
      BY <1>1 DEF Local
    <3> QED BY <1>3, <2>1, <3>1 DEF Dated, Waiting
  <2> QED BY <2>1, <2>2 DEF Local, Positioned, Marked, Scored
<1> QED BY <1>3, <1>4, <1>5, <1>6, <1>7 DEF WorkdirInv

-------------------------------------------------------------------------------
(* Theorems.                                                               *)

LEMMA InitWorkdir == Init => WorkdirInv
<1> SUFFICES ASSUME Init PROVE WorkdirInv
  OBVIOUS
<1>1. /\ log = <<>> /\ DOMAIN log = {} /\ \A n \in Node : pc[n] = "Exited"
  BY DEF Init
<1>2. TypeOK
  <2>1. 0 \in 0..Size /\ 0 \in 0..MaxFaults /\ 0 \in 0..Rounds /\ 1 \in 1..Experiments
    BY Constants
  <2>2. NoSource \in [kind : {"none", "checkpoint", "adapter", "dummy"}, of : Nat]
    BY DEF NoSource
  <2>3. log \in Seq(Lines)
    BY <1>1
  <2>4. sweep \in [experiment : 1..Experiments, round : 0..Rounds]
    BY <2>1 DEF Init
  <2> QED BY <2>1, <2>2, <2>3, <2>4 DEF Init, TypeOK, Places, Contents
<1>3. \A n : OwnRows(n) = {}
  BY <1>1 DEF OwnRows
<1>4. Headers /\ Walks /\ Epochs
  BY <1>1, <1>3 DEF Headers, Walks, Walk, Epochs
<1>5. CacheKept /\ \A n \in Node : Local(n)
  BY <1>1, <1>3 DEF CacheKept, Checked, Local, Positioned, Dated, Marked, Scored, Waiting
<1> QED BY <1>2, <1>4, <1>5 DEF WorkdirInv

LEMMA NextWorkdir == WorkdirInv /\ [Next]_vars => WorkdirInv'
<1> SUFFICES ASSUME WorkdirInv, [Next]_vars PROVE WorkdirInv'
  OBVIOUS
<1>1. CASE run_round \/ run_experiment
  BY <1>1, SweepStep
<1>2. ASSUME NEW n \in Node, Engine(n) PROVE WorkdirInv'
  BY <1>2, CacheStep, OpeningStep, WritingStep, EndingStep, FailStep DEF Engine
<1>3. CASE UNCHANGED vars
  <2>1. log' = log /\ UNCHANGED <<shared, sweep, pc, cache, torn, unheaded, unflushed, created,
                                  complete, adapter, epoch, from, at, source, score, faults>>
    BY <1>3 DEF vars, disk, opening, engine
  <2>2. TypeOK' /\ CacheKept'
    BY <2>1, SameLog, CachesLeft DEF WorkdirInv, TypeOK
  <2>3. Headers' /\ Walks' /\ Epochs'
    BY <2>1, SameLog DEF WorkdirInv
  <2>4. \A n \in Node : Local(n)'
    BY <2>1, SameLog, Bystander DEF WorkdirInv
  <2> QED BY <2>2, <2>3, <2>4 DEF WorkdirInv
<1> QED BY <1>1, <1>2, <1>3 DEF Next

LEMMA WorkdirInvHolds == Spec => []WorkdirInv
BY InitWorkdir, NextWorkdir, PTL DEF Spec

\* The type invariant.
THEOREM WorkdirTypeCorrect == Spec => []TypeOK
BY WorkdirInvHolds, PTL DEF WorkdirInv

\* However many processes write the loss file and die while they do, each node's rows are one
\* walk through its data after the other (ml_engine.py, get_last_sample_and_epoch).
THEOREM RowsAreOneWalk == Spec => []RowsWalkTheData
<1>1. WorkdirInv => RowsWalkTheData
  <2> SUFFICES ASSUME WorkdirInv PROVE RowsWalkTheData
    OBVIOUS
  <2>1. TypeOK /\ Walks
    BY DEF WorkdirInv
  <2>2. ASSUME NEW i \in DOMAIN log, NEW j \in DOMAIN log, NextOwnRow(i, j)
        PROVE  log[j].samples = (log[i].samples + 1) % (Size + 1)
    <3>1. i \in Nat /\ j \in Nat /\ i < j /\ log[i] \in Lines
      BY <2>1, <2>2 DEF TypeOK, NextOwnRow
    <3>2. PICK n \in Node : log[i].node = n
      BY <2>2, <3>1 DEF NextOwnRow, Lines
    <3>3. i \in OwnRows(n) /\ j \in OwnRows(n)
      BY <2>2, <3>2 DEF NextOwnRow, OwnRows
    <3>4. ASSUME NEW k \in OwnRows(n) PROVE k <= i \/ j <= k
      <4>1. k \in Nat /\ log[k].node = n
        BY <2>1, RowsType
      <4>2. k \notin i + 1..j - 1
        BY <2>2, <3>2, <4>1 DEF NextOwnRow
      <4> QED BY <3>1, <4>1, <4>2
    <3> QED BY <2>1, <3>1, <3>3, <3>4 DEF Walks, Walk
  <2> QED BY <2>1, <2>2 DEF RowsWalkTheData, Walks, Walk
<1> QED BY <1>1, WorkdirInvHolds, PTL

\* No two rounds of a node share an epoch number, and no round has two.
THEOREM EpochsAreRounds == Spec => []EpochPerRound
<1>1. WorkdirInv => EpochPerRound
  <2> SUFFICES ASSUME WorkdirInv, NEW i \in DOMAIN log, NEW j \in DOMAIN log,
                      log[i].node = log[j].node
               PROVE  log[i].epoch = log[j].epoch <=> log[i].of = log[j].of
    BY DEF EpochPerRound
  <2>1. TypeOK /\ Headers /\ Epochs
    BY DEF WorkdirInv
  <2>2. CASE log[i].node = Header
    BY <2>1, <2>2 DEF Headers
  <2>3. CASE log[i].node # Header
    <3>1. log[i] \in Lines
      BY <2>1 DEF TypeOK
    <3>2. log[i].node \in Node
      BY <2>3, <3>1 DEF Lines
    <3> QED BY <2>1, <3>2 DEF Epochs, OwnRows
  <2> QED BY <2>2, <2>3
<1> QED BY <1>1, WorkdirInvHolds, PTL

\* A cache of one's own that a node has trained on is never removed or written to again, so
\* that the samples it counts stay the same ones (ml_engine.py, prepare_bhaskera_config).
THEOREM OwnCachesStay == Spec => CacheStays
<1>1. ASSUME WorkdirInv, [Next]_vars
      PROVE  \A n \in Node : ~shared /\ OwnRows(n) # {} => cache'[n] = cache[n]
  <2> SUFFICES ASSUME NEW m \in Node, ~shared, OwnRows(m) # {}
               PROVE  cache'[m] = cache[m]
    OBVIOUS
  <2>1. cache \in [Node -> Contents] /\ cache[m] \notin {"none", "stub"} /\ pc[m] # "Tokenising"
    BY <1>1 DEF WorkdirInv, TypeOK, CacheKept
  <2>2. ASSUME NEW n \in Node, NEW content, SetCache(n, content), m # n
        PROVE  cache'[m] = cache[m]
    BY <2>2 DEF SetCache, Sharing
  <2>3. ASSUME NEW n \in Node, CheckCache(n) PROVE cache'[m] = cache[m]
    <3>1. cache' = cache \/ (cache[n] = "stub" /\ SetCache(n, "none"))
      BY <2>3 DEF CheckCache
    <3> QED BY <2>1, <2>2, <3>1
  <2>4. ASSUME NEW n \in Node, WriteCache(n) \/ CacheWritten(n) PROVE cache'[m] = cache[m]
    <3>1. pc[n] = "Tokenising" /\ \E content \in Contents : SetCache(n, content)
      BY <2>4 DEF WriteCache, CacheWritten, Contents
    <3> QED BY <2>1, <2>2, <3>1
  <2>5. ASSUME NEW n \in Node,
               \/ LookForLog(n) \/ Open(n) \/ Step(n) \/ Exhausted(n) \/ Saves(n)
               \/ TrainerStops(n) \/ Extract(n) \/ Finish(n) \/ Fail(n)
        PROVE  cache' = cache
    BY <2>5 DEF LookForLog, Open, Step, Exhausted, Saves, TrainerStops, Extract, Finish, Fail, disk
  <2>6. CASE run_round \/ run_experiment \/ UNCHANGED vars
    BY <2>6 DEF run_round, run_experiment, vars, disk
  <2> QED BY <1>1, <2>3, <2>4, <2>5, <2>6 DEF Next, Engine
<1>2. WorkdirInv /\ [Next]_vars =>
          [\A n \in Node : ~shared /\ OwnRows(n) # {} => cache'[n] = cache[n]]_vars
  BY <1>1
<1> QED BY <1>2, WorkdirInvHolds, PTL DEF Spec, CacheStays

\* A delta from a checkpoint is of this round's training, whatever earlier rounds left.
THEOREM CheckpointsAreOwn == Spec => []OwnCheckpoint
<1>1. WorkdirInv => OwnCheckpoint
  BY DEF WorkdirInv, Local, Marked, OwnCheckpoint
<1> QED BY <1>1, WorkdirInvHolds, PTL

\* The score is no older than the node's own last loss, with one header at the start.
THEOREM ScoresAreRecent == Spec => []ScoreNotStale
<1>1. WorkdirInv => ScoreNotStale
  BY DEF WorkdirInv, Local, Scored, ScoreNotStale, HeaderRows
<1> QED BY <1>1, WorkdirInvHolds, PTL
===============================================================================
