--------------------------- MODULE MLEngine_proofs ---------------------------
(***************************************************************************)
(* Theorems about MLEngine and the delta transport for every model size,   *)
(* every sparsity, quantisation and norm, all settings, and any number of  *)
(* rounds, peers and deaths: first the engine's files and numbers, then    *)
(* how close the transport comes to what was meant and what follows from   *)
(* this for the residual, what a lapse may cost, and what the loop sees    *)
(* of an engine.                                                           *)
(***************************************************************************)
EXTENDS MLEngine, FiniteLemmas

-------------------------------------------------------------------------------
(* Rounding.                                                               *)

LEMMA RoundedType ==
    ASSUME NEW a \in Int, NEW b \in Nat \ {0}
    PROVE  Rounded(a, b) \in Int
<1>1. a \div b \in Int
  OBVIOUS
<1> QED BY <1>1 DEF Rounded

\* A multiple is not changed.
LEMMA RoundedExact ==
    ASSUME NEW a \in Int, NEW b \in Nat \ {0}
    PROVE  Rounded(a * b, b) = a
<1>1. (a * b) % b = 0
  <2>1. (b * a) % b = 0
    OBVIOUS
  <2> QED BY <2>1
<1>2. (a * b) \div b = a
  OBVIOUS
<1>3. ~(2 * 0 > b) /\ ~(2 * 0 = b)
  OBVIOUS
<1> QED BY <1>1, <1>2, <1>3 DEF Rounded

LEMMA HalfType ==
    ASSUME NEW i \in Int
    PROVE  Half(i) \in Int
BY RoundedType DEF Half

-------------------------------------------------------------------------------
(* The square of a delta's length is a natural number.                     *)

Squares(d) == [c \in Coord |-> d.values[c] * d.values[c]]

LEMMA SquareType ==
    ASSUME NEW i \in Int
    PROVE  i * i \in Nat
OBVIOUS

LEMMA DotUnfolds ==
    ASSUME NEW d, NEW g, g = Squares(d), \E h : SumsUp(h, g, Coord)
    PROVE  \E h : SumsUp(h, g, Coord) /\ Dot(d, d) = Cardinality(d.tensors) * h[Coord]
<1> DEFINE U(h) == h = [s \in SUBSET Coord |->
                          IF s = {} THEN 0
                          ELSE d.values[CHOOSE x \in s : TRUE] * d.values[CHOOSE x \in s : TRUE]
                               + h[s \ {CHOOSE x \in s : TRUE}]]
<1>1. Dot(d, d) = Cardinality(d.tensors) * (CHOOSE h : U(h))[Coord]
  BY DEF Dot, MapThenSumSet, MapThenFoldSet
<1>2. ASSUME NEW h PROVE U(h) <=> SumsUp(h, g, Coord)
  <2>1. ASSUME NEW s \in SUBSET Coord, s # {}
        PROVE  g[Taken(s)] = d.values[CHOOSE x \in s : TRUE] * d.values[CHOOSE x \in s : TRUE]
    BY <2>1 DEF Taken, Squares
  <2> QED BY <2>1 DEF SumsUp, Taken
<1> HIDE DEF U
<1>3. U(CHOOSE h : U(h))
  BY <1>2
<1> QED BY <1>1, <1>2, <1>3

LEMMA DotType ==
    ASSUME NEW d, d.values \in Values, IsFiniteSet(d.tensors)
    PROVE  Dot(d, d) \in Nat
<1> DEFINE g == Squares(d)
<1>1. g \in [Coord -> Nat]
  BY SquareType DEF Squares, Values
<1>2. PICK h : SumsUp(h, g, Coord) /\ Dot(d, d) = Cardinality(d.tensors) * h[Coord]
  <2> HIDE DEF g
  <2>1. \E h : SumsUp(h, g, Coord)
    <3>1. g \in [Coord -> Int] /\ IsFiniteSet(Coord)
      BY <1>1, WireAssumption
    <3> QED BY <3>1, SumExists
  <2> QED BY <2>1, DotUnfolds DEF g
<1>3. Cardinality(d.tensors) \in Nat
  BY FS_CardinalityType
<1>4. h[Coord] \in Nat
  <2> HIDE DEF g
  <2>1. 0 \in Nat /\ \A x, y \in Nat : x + y \in Nat
    OBVIOUS
  <2>2. h \in [SUBSET Coord -> Nat]
    BY <1>1, <1>2, <2>1, SumType, WireAssumption
  <2> QED BY <2>2
<1> QED BY <1>2, <1>3, <1>4

-------------------------------------------------------------------------------
(* The delta transport: values stay integers.                              *)

\* The norm of a delta that is not zero can be divided by.
LEMMA NormType ==
    ASSUME NEW d, Dot(d, d) \in Nat \ {0}
    PROVE  Norm(d) \in Nat \ {0}
<1> DEFINE D == Dot(d, d)
           T == {n \in 0..D : n * n >= D}
<1> HIDE DEF D
<1>1. D \in Nat \ {0}
  BY DEF D
<1>2. D * D >= D
  BY <1>1
<1>3. T \in SUBSET Nat /\ T # {}
  <2>1. D \in 0..D
    BY <1>1
  <2>2. D \in T
    BY <1>2, <2>1
  <2>3. T \subseteq 0..D /\ 0..D \subseteq Nat
    BY <1>1
  <2> HIDE DEF T
  <2> QED BY <2>2, <2>3
<1>4. \E n \in T : \A m \in T : n <= m
  <2> HIDE DEF T
  <2> QED BY <1>3, SmallestNumber
<1>5. Norm(d) = Min(T)
  BY DEF Norm, D
<1>6. Min(T) \in T
  BY <1>4 DEF Min
<1>7. 0 \notin T
  BY <1>1
<1> HIDE DEF T
<1> QED BY <1>3, <1>5, <1>6, <1>7

\* Clipping gives a delta of the same tensors, finite or not as it was.
LEMMA ClippingType ==
    ASSUME NEW S, IsFiniteSet(S), NEW v \in Values
    PROVE  apply_clipping(Delta(S, v)) \in [tensors : {S}, values : Values, finite : {TRUE}]
<1> DEFINE d == Delta(S, v)
           w == [c \in Coord |-> Rounded(v[c] * MaxNorm, Norm(d))]
<1>1. /\ d.values = v /\ d.tensors = S
      /\ d \in [tensors : {S}, values : Values, finite : {TRUE}]
  BY DEF Delta
<1>2. Dot(d, d) \in Nat
  <2> HIDE DEF d
  <2> QED BY <1>1, DotType
<1>3. CASE Dot(d, d) <= MaxNorm * MaxNorm
  BY <1>1, <1>3 DEF apply_clipping
<1>4. CASE ~(Dot(d, d) <= MaxNorm * MaxNorm)
  <2>1. MaxNorm \in Nat /\ MaxNorm * MaxNorm \in Nat
    BY WireAssumption
  <2>2. Dot(d, d) \in Nat \ {0}
    <3> HIDE DEF d
    <3> QED BY <1>2, <1>4, <2>1
  <2>3. Norm(d) \in Nat \ {0}
    <3> HIDE DEF d
    <3> QED BY <2>2, NormType
  <2>4. ASSUME NEW c \in Coord PROVE Rounded(v[c] * MaxNorm, Norm(d)) \in Int
    <3> HIDE DEF d
    <3>1. v[c] * MaxNorm \in Int
      BY <2>1 DEF Values
    <3> QED BY <2>3, <3>1, RoundedType
  <2>5. w \in Values
    BY <2>4 DEF Values
  <2>6. apply_clipping(d) = [d EXCEPT !.values = w]
    BY <1>1, <1>4 DEF apply_clipping
  <2> HIDE DEF d, w
  <2>7. [d EXCEPT !.values = w] \in [tensors : {S}, values : Values, finite : {TRUE}]
    BY <1>1, <2>5
  <2> QED BY <2>6, <2>7 DEF d
<1> QED BY <1>3, <1>4

\* What the scale is the largest of.
Magnitude(v) == {0} \union {Abs(v[c]) : c \in topk_indices(v)}

LEMMA LargestMagnitude ==
    ASSUME NEW v \in Values
    PROVE  /\ Magnitude(v) \in SUBSET Nat
           /\ Max(Magnitude(v)) \in Magnitude(v)
           /\ \A m \in Magnitude(v) : Max(Magnitude(v)) >= m
<1> DEFINE I == topk_indices(v)
           A == {Abs(v[c]) : c \in I}
           M == A \union {0}
<1>1. I \subseteq Coord /\ IsFiniteSet(I)
  BY WireAssumption, FS_Subset DEF topk_indices
<1>2. \A c \in I : Abs(v[c]) \in Nat
  BY <1>1 DEF Values, Abs
<1> HIDE DEF I
<1>3. IsFiniteSet(A)
  <2>1. [c \in I |-> Abs(v[c])] \in Surjection(I, A)
    BY DEF Surjection
  <2> QED BY <1>1, <2>1, FS_Surjection
<1>4. M \in SUBSET Nat /\ M # {} /\ M \in SUBSET Int
  BY <1>2
<1>5. IsFiniteSet(M)
  <2> HIDE DEF A
  <2> QED BY <1>3, FS_AddElement
<1>6. Max(M) \in M /\ \A m \in M : Max(M) >= m
  <2> HIDE DEF M
  <2> QED BY <1>4, <1>5, LargestNumber
<1>7. Magnitude(v) = M
  BY DEF Magnitude, I
<1> HIDE DEF M
<1> QED BY <1>4, <1>6, <1>7

\* The scale is the magnitude of some coordinate, and never zero.
LEMMA ScaleType ==
    ASSUME NEW v \in Values
    PROVE  Scale(v) \in Nat \ {0}
<1>1. Max(Magnitude(v)) \in Nat /\ Level \in Nat \ {0}
  BY LargestMagnitude, WireAssumption
<1> QED BY <1>1 DEF Scale, Magnitude

LEMMA QuantizedType ==
    ASSUME NEW v \in Values
    PROVE  /\ DOMAIN Quantized(v) = topk_indices(v) /\ topk_indices(v) \subseteq Coord
           /\ \A c \in topk_indices(v) : Quantized(v)[c] \in Int
<1>1. topk_indices(v) \subseteq Coord
  BY DEF topk_indices
<1>2. ASSUME NEW c \in topk_indices(v) PROVE Rounded(v[c] * Level, Scale(v)) \in Int
  <2>1. c \in Coord
    BY <1>1, <1>2
  <2>2. v[c] \in Int
    BY <2>1 DEF Values
  <2>3. Level \in Int
    BY WireAssumption
  <2>4. v[c] * Level \in Int
    BY <2>2, <2>3
  <2> QED BY <2>4, ScaleType, RoundedType
<1> QED BY <1>1, <1>2 DEF Quantized

\* What is transmitted is integers again.
LEMMA ReconstructedType ==
    ASSUME NEW v \in Values, NEW compressed \in BOOLEAN
    PROVE  Reconstructed(v, compressed) \in Values
<1>1. CASE compressed
  <2>1. ASSUME NEW c \in topk_indices(v)
        PROVE  Rounded(Quantized(v)[c] * Scale(v), Level) \in Int
    <3>1. Quantized(v)[c] * Scale(v) \in Int
      BY ScaleType, QuantizedType
    <3> QED BY <3>1, RoundedType, WireAssumption
  <2>2. Scatter(Quantized(v), Scale(v)) \in Values
    BY <2>1, QuantizedType DEF Scatter, Values
  <2> QED BY <1>1, <2>2 DEF Reconstructed
<1>2. CASE ~compressed
  <2>1. ASSUME NEW c \in Coord PROVE Half(v[c]) \in Int
    BY HalfType DEF Values
  <2> QED BY <1>2, <2>1 DEF Reconstructed, Values
<1> QED BY <1>1, <1>2

\* What a peer decodes is what the sender takes to be transmitted.
LEMMA Transmitted ==
    ASSUME NEW d, d.values \in Values, NEW compressed \in BOOLEAN
    PROVE  /\ decode(Envelope(d, compressed)).values = Reconstructed(d.values, compressed)
           /\ decode(Envelope(d, compressed)).tensors = d.tensors
           /\ decode(Envelope(d, compressed)).finite = d.finite
<1> DEFINE p == Envelope(d, compressed)
           v == d.values
<1>1. /\ decode(p).values = Scatter(p.values, p.scale)
      /\ decode(p).tensors = d.tensors
      /\ decode(p).finite = d.finite
  BY DEF decode, Envelope
<1>2. CASE compressed
  BY <1>1, <1>2 DEF Envelope, Reconstructed
<1>3. CASE ~compressed
  <2>1. p.values = [c \in topk_indices(v) |-> Half(v[c])] /\ p.scale = Level
    BY <1>3 DEF Envelope
  <2>2. ASSUME NEW c \in topk_indices(v) PROVE Rounded(Half(v[c]) * Level, Level) = Half(v[c])
    <3>1. c \in Coord
      BY DEF topk_indices
    <3>2. Half(v[c]) \in Int
      BY <3>1, HalfType DEF Values
    <3> QED BY <3>2, RoundedExact, WireAssumption
  <2>3. Scatter(p.values, p.scale) = [c \in Coord |-> IF c \in topk_indices(v) THEN Half(v[c]) ELSE 0]
    <3> HIDE DEF p
    <3> QED BY <2>1, <2>2 DEF Scatter
  <2> QED BY <1>1, <1>3, <2>3 DEF Reconstructed
<1> QED BY <1>2, <1>3

-------------------------------------------------------------------------------
(* Trust scores.                                                           *)

LEMMA SignType == \A i : Sign(i) \in {-1, 0, 1}
BY DEF Sign

LEMMA ImprovementType ==
    ASSUME NEW j
    PROVE  /\ Improvement(j) \in {-1, 0, 1, NaN}
           /\ delta.finite => Improvement(j) \in {-1, 0, 1}
           /\ j # Self /\ ~Used(files[j]) => Improvement(j) = 0
<1>1. \A d : /\ Similarity(d) \in {-1, 0, 1, NaN}
             /\ delta.finite => Similarity(d) \in {-1, 0, 1}
  BY SignType DEF Similarity
<1> QED BY <1>1 DEF Improvement

LEMMA TrustStepType ==
    ASSUME NEW a \in Int \union {NaN}, NEW i \in {-1, 0, 1, NaN}
    PROVE  /\ TrustStep(a, i) \in Int \union {NaN}
           /\ a # NaN /\ i # NaN => TrustStep(a, i) \in Int
<1>1. CASE a \in Int /\ i \in {-1, 0, 1}
  <2>1. a # NaN /\ i # NaN
    BY <1>1, EngineAssumption
  <2>2. TrustStep(a, i) = (a + 3 * i) - Sign(a + 3 * i)
    BY <2>1 DEF TrustStep
  <2>3. a + 3 * i \in Int
    BY <1>1
  <2> QED BY <2>2, <2>3, SignType
<1>2. CASE a = NaN \/ i = NaN
  BY <1>2 DEF TrustStep
<1> QED BY <1>1, <1>2

\* Without an improvement a score decays.
LEMMA TrustDecays ==
    ASSUME NEW a \in Int \union {NaN}, TrustStep(a, 0) # NaN
    PROVE  Abs(TrustStep(a, 0)) <= Abs(a)
<1>1. a # NaN /\ 0 # NaN
  BY EngineAssumption DEF TrustStep
<1>2. a \in Int /\ TrustStep(a, 0) = (a + 3 * 0) - Sign(a + 3 * 0) /\ a + 3 * 0 = a
  BY <1>1 DEF TrustStep
<1> QED BY <1>2 DEF Sign, Abs

-------------------------------------------------------------------------------
(* Types.                                                                  *)

LEMMA SettingType ==
    ASSUME setting \in Setting
    PROVE  setting.compression \in BOOLEAN
BY EngineAssumption

LEMMA ZeroType == Zero \in Values
BY DEF Zero, Values

LEMMA PlusMinusType ==
    ASSUME NEW v \in Values, NEW w \in Values
    PROVE  Plus(v, w) \in Values /\ Minus(v, w) \in Values /\ Plus(v, w) = Plus(w, v)
BY DEF Plus, Minus, Values

LEMMA NoDeltaType == NoDelta \in DeltaType
BY ZeroType DEF NoDelta, Delta, DeltaType

LEMMA WithResidualType ==
    ASSUME NEW d \in DeltaType, error \in [values : Values, finite : BOOLEAN]
    PROVE  /\ WithResidual(d) \in DeltaType
           /\ WithResidual(d).tensors = d.tensors
           /\ WithResidual(d).finite = d.finite
           /\ WithResidual(d).values = IF d.tensors = Tensor /\ error.finite
                                      THEN Plus(d.values, error.values) ELSE d.values
<1>1. d.values \in Values /\ error.values \in Values
  BY DEF DeltaType
<1>2. Plus(d.values, error.values) \in Values
  BY <1>1, PlusMinusType
<1>3. CASE d.tensors = Tensor /\ error.finite
  <2>1. WithResidual(d) = [d EXCEPT !.values = Plus(@, error.values)]
    BY <1>3 DEF WithResidual, Resumes
  <2> QED BY <1>2, <1>3, <2>1 DEF DeltaType
<1>4. CASE ~(d.tensors = Tensor /\ error.finite)
  BY <1>4 DEF WithResidual, Resumes
<1> QED BY <1>3, <1>4

\* The three ways a round is trained give a delta of the base's tensors or of the dummy.
LEMMA TrainedType ==
    /\ \A move \in Move : apply_clipping(Delta(Tensor, move)) \in
           [tensors : {Tensor}, values : Values, finite : {TRUE}]
    /\ Diverged(Tensor) \in [tensors : {Tensor}, values : Values, finite : {FALSE}]
    /\ Delta({Dummy}, Zero) \in [tensors : {{Dummy}}, values : Values, finite : {TRUE}]
<1>1. ASSUME NEW move \in Move
      PROVE  apply_clipping(Delta(Tensor, move)) \in
                 [tensors : {Tensor}, values : Values, finite : {TRUE}]
  BY ClippingType, EngineAssumption
<1> QED BY <1>1, ZeroType DEF Diverged, Delta

-------------------------------------------------------------------------------
(* The invariant.                                                          *)

Before == {"Idle", "Started", "Loading", "Training"}
Computed == {"Trained", "SavingError"}
Aggregating == {"ErrorSaved", "SavingBase"}
Closing == {"BaseSaved", "Synced", "SavingState", "StateSaved"}

InRound == pc \in Computed \union Aggregating \union Closing

\* What is encoded has the tensors of the round's delta and diverged if it did.
Deltas ==
    InRound =>
        /\ dense.tensors = delta.tensors
        /\ dense.finite <=> delta.finite
        /\ lapses = 0 => delta.tensors = Tensor

\* A pretraining base is the whole model, once it is there.
Bases ==
    /\ pc = "Loading" => Pretraining /\ base.tensors = {}
    /\ Pretraining =>
        /\ base.tensors \in {{}, Tensor}
        /\ pc = "Training" => base.tensors # {} \/ "base" \in broken
        /\ InRound => base.tensors = Tensor

\* The round in work has a number above all that were announced.
Numbers ==
    resets = 0 =>
        /\ \A r \in announced : r <= state_round /\ (r % SyncInterval = 0 => r \in sync_rounds)
        /\ pc = "Training" \/ InRound => \A r \in announced : r < round
        /\ (pc = "Training" \/ InRound) /\ pc # "StateSaved" => round = state_round + 1
        /\ pc = "StateSaved" => round = state_round
        /\ pc \in Closing \ {"BaseSaved"} /\ round % SyncInterval = 0 => round \in sync_rounds

\* With compression a delta that diverged is not encoded.
Finite ==
    setting.compression =>
        /\ error.finite /\ base.finite /\ \A j \in DOMAIN alpha : alpha[j] # NaN
        /\ InRound /\ pc # "Trained" => dense.finite

\* What was learned and not transmitted is in the residual or in the delta in work.  A
\* residual that diverged stays so, since the base has diverged with it.
Balance ==
    lapses = 0 =>
        /\ pc \in Before =>
              /\ error.finite => owed = error.values
              /\ ~error.finite => ~base.finite /\ (Pretraining => base.tensors # {})
        /\ pc \in Computed =>
              /\ error.finite => owed = error.values
                                 /\ dense.values = Plus(delta.values, error.values)
              /\ ~error.finite => ~dense.finite
        /\ pc \in Aggregating \union Closing =>
              /\ error.finite <=> dense.finite
              /\ dense.finite => owed = dense.values /\ error.values = NewError
        /\ pc \in Closing => dense.finite \/ ~base.finite

EngineInv == TypeOK /\ Deltas /\ Bases /\ Numbers /\ Finite /\ Balance

LEMMA InitEngine == Init => EngineInv
<1> SUFFICES ASSUME Init PROVE EngineInv
  OBVIOUS
<1>1. TypeOK
  BY NoDeltaType, ZeroType DEF Init, TypeOK, NoFiles, NoPayload, FirstAlpha
<1>2. Deltas /\ Bases /\ Numbers /\ Balance
  BY DEF Init, Deltas, Bases, Numbers, Balance, InRound, Before, Computed, Aggregating, Closing
<1>3. Finite
  BY EngineAssumption DEF Init, Finite, FirstAlpha, InRound, Computed, Aggregating, Closing
<1> QED BY <1>1, <1>2, <1>3 DEF EngineInv

LEMMA StartingEngine ==
    ASSUME EngineInv, Begin \/ FetchModel \/ ModelFetched \/ ReadState
    PROVE  EngineInv'
<1> USE DEF Open, Before, Computed, Aggregating, Closing, InRound, memVars, stateVars, diskVars,
            auxVars, bounds
<1>1. TypeOK /\ Deltas /\ Bases /\ Numbers /\ Finite /\ Balance
  BY DEF EngineInv
<1>2. ASSUME Begin PROVE EngineInv'
  <2>1. /\ pc = "Idle" /\ pc' = "Started" /\ begun' = begun + 1
        /\ UNCHANGED <<setting, memVars, diskVars, announced, auxVars, deaths>>
    BY <1>2 DEF Begin
  <2>2. TypeOK'
    BY <1>1, <2>1 DEF TypeOK
  <2>3. Deltas' /\ Bases' /\ Numbers' /\ Finite' /\ Balance'
    BY <1>1, <2>1 DEF Deltas, Bases, Numbers, Finite, Balance, Pretraining
  <2> QED BY <2>2, <2>3 DEF EngineInv
<1>3. ASSUME FetchModel PROVE EngineInv'
  <2>1. /\ pc = "Started" /\ pc' = "Loading" /\ broken' = broken \union {"base"}
        /\ Pretraining /\ base.tensors = {}
        /\ UNCHANGED <<setting, memVars, error, base, sync_rounds, stateVars, announced, auxVars,
                       bounds>>
    BY <1>3 DEF FetchModel
  <2>2. TypeOK'
    BY <1>1, <2>1 DEF TypeOK
  <2>3. Deltas' /\ Bases' /\ Numbers' /\ Finite' /\ Balance'
    BY <1>1, <2>1 DEF Deltas, Bases, Numbers, Finite, Balance, Pretraining
  <2> QED BY <2>2, <2>3 DEF EngineInv
<1>4. ASSUME ModelFetched PROVE EngineInv'
  <2>1. /\ pc = "Loading" /\ pc' = "Started" /\ broken' = broken \ {"base"}
        /\ base' = [tensors |-> Tensor, finite |-> TRUE]
        /\ UNCHANGED <<setting, memVars, error, sync_rounds, stateVars, announced, auxVars,
                       bounds>>
    BY <1>4 DEF ModelFetched
  <2>2. TypeOK'
    BY <1>1, <2>1 DEF TypeOK
  <2>3. Pretraining /\ base.tensors = {} /\ (lapses = 0 => error.finite)
    BY <1>1, <2>1 DEF Bases, Balance
  <2>4. Deltas' /\ Bases' /\ Numbers' /\ Finite' /\ Balance'
    BY <1>1, <2>1, <2>3 DEF Deltas, Bases, Numbers, Finite, Balance, Pretraining
  <2> QED BY <2>2, <2>4 DEF EngineInv
<1>5. ASSUME ReadState PROVE EngineInv'
  <2>1. /\ pc = "Started" /\ pc' = "Training"
        /\ Pretraining => base.tensors # {} \/ "base" \in broken
        /\ \/ round' = 1 /\ alpha' = FirstAlpha /\ resets' = resets + 1
           \/ round' = state_round + 1 /\ UNCHANGED <<alpha, resets>>
        /\ UNCHANGED <<setting, delta, dense, files, error, base, sync_rounds, state_round, broken,
                       announced, owed, lost, lapses, bounds>>
    BY <1>5 DEF ReadState, NextRound
  <2>2. TypeOK'
    BY <1>1, <2>1 DEF TypeOK, FirstAlpha
  <2>3. Deltas' /\ Bases' /\ Balance'
    BY <1>1, <2>1 DEF Deltas, Bases, Balance, Pretraining
  <2>4. Numbers'
    BY <1>1, <2>1 DEF Numbers, TypeOK
  <2>5. Finite'
    BY <1>1, <2>1, EngineAssumption DEF Finite, FirstAlpha
  <2> QED BY <2>2, <2>3, <2>4, <2>5 DEF EngineInv
<1> QED BY <1>2, <1>3, <1>4, <1>5

LEMMA TrainingEngine ==
    ASSUME EngineInv, Train \/ TrainDiverging \/ TrainNoSteps
    PROVE  EngineInv'
<1> USE DEF Before, Computed, Aggregating, Closing, InRound, memVars, stateVars, diskVars,
            auxVars, bounds
<1>1. TypeOK /\ Deltas /\ Bases /\ Numbers /\ Finite /\ Balance
  BY DEF EngineInv
<1>2. ASSUME NEW d \in DeltaType, Trained(d), lapses' \in Nat,
             lapses' = 0 => lapses = 0 /\ d.tensors = Tensor /\ (base.finite \/ ~d.finite)
      PROVE  EngineInv'
  <2>1. /\ pc = "Training" /\ pc' = "Trained" /\ Readable
        /\ delta' = d /\ dense' = WithResidual(d)
        /\ UNCHANGED <<setting, round, files, diskVars, announced, owed, lost, resets,
                       bounds>>
    BY <1>2 DEF Trained
  <2>2. /\ WithResidual(d) \in DeltaType
        /\ WithResidual(d).tensors = d.tensors
        /\ WithResidual(d).finite = d.finite
        /\ WithResidual(d).values = IF d.tensors = Tensor /\ error.finite
                                   THEN Plus(d.values, error.values) ELSE d.values
    BY <1>1, WithResidualType DEF TypeOK
  <2>3. TypeOK'
    <3>1. delta' \in DeltaType /\ dense' \in DeltaType
      BY <2>1, <2>2
    <3> QED BY <1>1, <1>2, <2>1, <3>1 DEF TypeOK
  <2>4. Deltas'
    BY <1>2, <2>1, <2>2 DEF Deltas
  <2>5. Bases'
    BY <1>1, <2>1 DEF Bases, Pretraining, Readable
  <2>6. Numbers'
    BY <1>1, <2>1 DEF Numbers
  <2>7. Finite'
    BY <1>1, <2>1 DEF Finite
  <2>8. Balance'
    BY <1>1, <1>2, <2>1, <2>2 DEF Balance
  <2> QED BY <2>3, <2>4, <2>5, <2>6, <2>7, <2>8 DEF EngineInv
<1>3. \A S \in {Tensor, {Dummy}} :
          [tensors : {S}, values : Values, finite : BOOLEAN] \subseteq DeltaType
  BY DEF DeltaType
<1>4. lapses \in Nat
  BY <1>1 DEF TypeOK
<1>5. CASE Train
  <2>1. PICK move \in Move : Trained(apply_clipping(Delta(Tensor, move)))
    BY <1>5 DEF Train
  <2>2. base.finite /\ lapses' = lapses
    BY <1>5 DEF Train
  <2>3. apply_clipping(Delta(Tensor, move)) \in [tensors : {Tensor}, values : Values,
                                                 finite : {TRUE}]
    BY TrainedType
  <2> QED BY <1>2, <1>3, <1>4, <2>1, <2>2, <2>3
<1>6. CASE TrainDiverging
  <2>1. Trained(Diverged(Tensor)) /\ lapses' = lapses
    BY <1>6 DEF TrainDiverging
  <2> QED BY <1>2, <1>3, <1>4, <2>1, TrainedType
<1>7. CASE TrainNoSteps
  <2>1. Trained(Delta({Dummy}, Zero)) /\ lapses' = lapses + 1
    BY <1>7 DEF TrainNoSteps
  <2>2. Delta({Dummy}, Zero) \in DeltaType
    BY <1>3, TrainedType
  <2>3. lapses' \in Nat /\ lapses' # 0
    BY <1>4, <2>1
  <2> QED BY <1>2, <2>1, <2>2, <2>3
<1> QED BY <1>5, <1>6, <1>7

\* The residual is what the delta with the residual before exceeds the transmitted by.
LEMMA ResidualEngine ==
    ASSUME EngineInv, OpenError \/ SaveError
    PROVE  EngineInv'
<1> USE DEF Open, Before, Computed, Aggregating, Closing, InRound, memVars, stateVars, diskVars,
            auxVars, bounds
<1>1. TypeOK /\ Deltas /\ Bases /\ Numbers /\ Finite /\ Balance
  BY DEF EngineInv
<1>2. ASSUME OpenError PROVE EngineInv'
  <2>1. /\ pc = "Trained" /\ pc' = "SavingError" /\ broken' = broken \union {"error"}
        /\ setting.compression => dense.finite
        /\ UNCHANGED <<setting, memVars, error, base, sync_rounds, stateVars, announced, auxVars,
                       bounds>>
    BY <1>2 DEF OpenError, Encodable
  <2>2. TypeOK'
    BY <1>1, <2>1 DEF TypeOK
  <2>3. Deltas' /\ Bases' /\ Numbers' /\ Finite' /\ Balance'
    BY <1>1, <2>1 DEF Deltas, Bases, Numbers, Finite, Balance, Pretraining
  <2> QED BY <2>2, <2>3 DEF EngineInv
<1>3. ASSUME SaveError PROVE EngineInv'
  <2>1. /\ pc = "SavingError" /\ pc' = "ErrorSaved" /\ broken' = broken \ {"error"}
        /\ error' = [values |-> NewError, finite |-> dense.finite]
        /\ owed' = Plus(owed, delta.values)
        /\ lost' \in {lost, Plus(lost, error.values)}
        /\ UNCHANGED <<setting, memVars, base, sync_rounds, stateVars, announced, lapses, resets,
                       bounds>>
    BY <1>3 DEF SaveError
  <2>2. delta.values \in Values /\ dense.values \in Values /\ owed \in Values
        /\ lost \in Values /\ error.values \in Values /\ dense.finite \in BOOLEAN
    BY <1>1 DEF TypeOK, DeltaType
  <2>3. NewError \in Values
    BY <1>1, <2>2, SettingType, ReconstructedType, PlusMinusType DEF NewError,
       Transmission, TypeOK
  <2>4. Plus(owed, delta.values) \in Values /\ Plus(lost, error.values) \in Values
    BY <2>2, PlusMinusType
  <2>5. TypeOK'
    <3>1. error' \in [values : Values, finite : BOOLEAN] /\ owed' \in Values /\ lost' \in Values
      BY <2>1, <2>2, <2>3, <2>4
    <3> QED BY <1>1, <2>1, <3>1 DEF TypeOK
  <2>6. Deltas' /\ Bases' /\ Numbers'
    BY <1>1, <2>1 DEF Deltas, Bases, Numbers, Pretraining
  <2>7. Finite'
    BY <1>1, <2>1 DEF Finite
  <2>8. Balance'
    <3>1. NewError' = NewError
      BY <2>1 DEF NewError, Transmission
    <3>2. dense.finite /\ lapses = 0 => error.finite
      BY <1>1, <2>1 DEF Balance
    <3>3. dense.finite /\ lapses = 0 => owed' = dense.values
      BY <1>1, <2>1, <2>2, <3>2, PlusMinusType DEF Balance
    <3>4. /\ error'.finite = dense'.finite /\ error'.values = NewError'
          /\ dense' = dense /\ lapses' = lapses
      BY <2>1, <3>1
    <3> QED BY <2>1, <3>3, <3>4 DEF Balance
  <2> QED BY <2>5, <2>6, <2>7, <2>8 DEF EngineInv
<1> QED BY <1>2, <1>3

\* The aggregate has the tensors of the own delta and diverged if it did.
LEMMA AggregatingEngine ==
    ASSUME EngineInv, OpenBase \/ SaveBase
    PROVE  EngineInv'
<1> USE DEF Open, Before, Computed, Aggregating, Closing, InRound, memVars, stateVars, diskVars,
            auxVars, bounds
<1>1. TypeOK /\ Deltas /\ Bases /\ Numbers /\ Finite /\ Balance
  BY DEF EngineInv
<1>2. ASSUME OpenBase PROVE EngineInv'
  <2>1. /\ pc = "ErrorSaved" /\ pc' = "SavingBase" /\ broken' = broken \union {"base"}
        /\ UNCHANGED <<setting, memVars, error, base, sync_rounds, stateVars, announced, auxVars,
                       bounds>>
    BY <1>2 DEF OpenBase
  <2>2. TypeOK'
    BY <1>1, <2>1 DEF TypeOK
  <2>3. Deltas' /\ Bases' /\ Numbers' /\ Finite'
    BY <1>1, <2>1 DEF Deltas, Bases, Numbers, Finite, Pretraining
  <2>4. Balance'
    BY <1>1, <2>1 DEF Balance, NewError, Transmission
  <2> QED BY <2>2, <2>3, <2>4 DEF EngineInv
<1>3. ASSUME SaveBase PROVE EngineInv'
  <2> DEFINE peers == {decode(files'[j]) : j \in {i \in Peer : Used(files'[i])}}
             own == decode(payload)
             all == peers \union {own}
             G == aggregate_deltas(all)
  <2>1. /\ pc = "SavingBase" /\ pc' = "BaseSaved" /\ broken' = broken \ {"base"}
        /\ files' \in [Peer -> PeerFile] /\ base' = Applied(G)
        /\ UNCHANGED <<setting, round, delta, dense, error, sync_rounds, stateVars, announced,
                       auxVars, bounds>>
    BY <1>3 DEF SaveBase
  <2>2. own.tensors = dense.tensors /\ own.finite = dense.finite
    BY <1>1, SettingType, Transmitted DEF payload, TypeOK, DeltaType
  <2>3. /\ dense.tensors \subseteq Tensor \union {Dummy} /\ dense.finite \in BOOLEAN
        /\ base.tensors \subseteq Tensor \union {Dummy} /\ base.finite \in BOOLEAN
    BY <1>1 DEF TypeOK, DeltaType
  <2>4. ASSUME NEW d \in peers PROVE d.tensors \subseteq Tensor \union {Dummy} /\ d.finite
    <3>1. PICK j \in Peer : Used(files'[j]) /\ d = decode(files'[j])
      OBVIOUS
    <3>2. d.finite
      BY <3>1 DEF Used, validate_peer_delta
    <3>3. d.tensors = files'[j].tensors /\ files'[j] \in PeerFile
      BY <2>1, <3>1 DEF decode
    <3> QED BY <3>2, <3>3, EngineAssumption
  <2>5. \A d \in all : d.tensors \subseteq Tensor \union {Dummy}
    BY <2>2, <2>3, <2>4
  <2>6. G.tensors = UNION {d.tensors : d \in all}
    BY DEF aggregate_deltas
  <2>7. G.finite <=> (\A d \in all : d.finite) /\ \A j \in DOMAIN alpha : alpha[j] # NaN
    BY DEF aggregate_deltas
  <2>8. G.finite \in BOOLEAN
    BY DEF aggregate_deltas
  <2>9. own \in all
    OBVIOUS
  <2>10. \A d \in all : d = own \/ d.finite
    BY <2>4
  <2> HIDE DEF all, own, peers, G
  <2>11. G.tensors \subseteq Tensor \union {Dummy} /\ dense.tensors \subseteq G.tensors
    BY <2>2, <2>5, <2>6, <2>9
  <2>12. G.finite => dense.finite
    BY <2>2, <2>7, <2>9
  <2>13. dense.finite /\ (\A j \in DOMAIN alpha : alpha[j] # NaN) => G.finite
    BY <2>2, <2>7, <2>10
  <2>14. /\ base'.tensors = IF Pretraining THEN base.tensors ELSE G.tensors
         /\ base'.finite = IF G.tensors \intersect base.tensors = {}
                           THEN IF Pretraining THEN base.finite ELSE G.finite
                           ELSE base.finite /\ G.finite
         /\ base' \in [tensors : {Applied(G).tensors}, finite : {Applied(G).finite}]
    BY <2>1 DEF Applied
  <2>15. base' \in [tensors : SUBSET (Tensor \union {Dummy}), finite : BOOLEAN]
    <3>1. base'.tensors \subseteq Tensor \union {Dummy}
      BY <2>3, <2>11, <2>14
    <3>2. base'.finite \in BOOLEAN
      BY <2>3, <2>8, <2>14, Zenon
    <3> QED BY <2>14, <3>1, <3>2
  <2>16. TypeOK'
    <3>1. \A j \in Peer : files'[j].format \in {"v1", "legacy", "unreadable"}
      BY <2>1, EngineAssumption
    <3> QED BY <1>1, <2>1, <2>15, <3>1 DEF TypeOK
  <2>17. Deltas' /\ Numbers'
    BY <1>1, <2>1 DEF Deltas, Numbers
  <2>18. Bases'
    BY <1>1, <2>1, <2>14 DEF Bases, Pretraining
  <2>19. Finite'
    <3>1. setting.compression => G.finite /\ base.finite
      BY <1>1, <2>1, <2>13 DEF Finite
    <3>2. setting.compression => base'.finite
      BY <2>14, <3>1
    <3> QED BY <1>1, <2>1, <3>2 DEF Finite
  <2>20. ASSUME lapses = 0, ~dense.finite PROVE ~base'.finite
    <3>1. dense.tensors = Tensor /\ ~G.finite
      BY <1>1, <2>1, <2>12, <2>20 DEF Deltas
    <3>2. Pretraining => base.tensors = Tensor
      BY <1>1, <2>1 DEF Bases
    <3>3. Pretraining => G.tensors \intersect base.tensors # {}
      BY <2>11, <3>1, <3>2, EngineAssumption
    <3> QED BY <2>14, <3>1, <3>3
  <2>21. Balance'
    <3>1. NewError' = NewError
      BY <2>1 DEF NewError, Transmission
    <3> QED BY <1>1, <2>1, <2>20, <3>1 DEF Balance
  <2> QED BY <2>16, <2>17, <2>18, <2>19, <2>21 DEF EngineInv
<1> QED BY <1>2, <1>3

LEMMA ClosingEngine ==
    ASSUME EngineInv, SaveSync \/ OpenState \/ SaveState \/ Output
    PROVE  EngineInv'
<1> USE DEF Open, Before, Computed, Aggregating, Closing, InRound, memVars, stateVars, diskVars,
            auxVars, bounds
<1>1. TypeOK /\ Deltas /\ Bases /\ Numbers /\ Finite /\ Balance
  BY DEF EngineInv
<1>2. ASSUME SaveSync PROVE EngineInv'
  <2>1. /\ pc = "BaseSaved" /\ pc' = "Synced"
        /\ sync_rounds' = IF round % SyncInterval = 0 THEN sync_rounds \union {round}
                                                      ELSE sync_rounds
        /\ UNCHANGED <<setting, memVars, error, base, stateVars, broken, announced, auxVars,
                       bounds>>
    BY <1>2 DEF SaveSync
  <2>2. TypeOK'
    <3>1. sync_rounds' \subseteq Nat
      BY <1>1, <2>1 DEF TypeOK
    <3> QED BY <1>1, <2>1, <3>1 DEF TypeOK
  <2>3. Deltas' /\ Bases' /\ Numbers' /\ Finite'
    BY <1>1, <2>1 DEF Deltas, Bases, Numbers, Finite, Pretraining
  <2>4. Balance'
    BY <1>1, <2>1 DEF Balance, NewError, Transmission
  <2> QED BY <2>2, <2>3, <2>4 DEF EngineInv
<1>3. ASSUME OpenState PROVE EngineInv'
  <2>1. /\ pc = "Synced" /\ pc' = "SavingState" /\ broken' = broken \union {"state"}
        /\ UNCHANGED <<setting, memVars, error, base, sync_rounds, stateVars, announced, auxVars,
                       bounds>>
    BY <1>3 DEF OpenState
  <2>2. TypeOK'
    BY <1>1, <2>1 DEF TypeOK
  <2>3. Deltas' /\ Bases' /\ Numbers' /\ Finite'
    BY <1>1, <2>1 DEF Deltas, Bases, Numbers, Finite, Pretraining
  <2>4. Balance'
    BY <1>1, <2>1 DEF Balance, NewError, Transmission
  <2> QED BY <2>2, <2>3, <2>4 DEF EngineInv
<1>4. ASSUME SaveState PROVE EngineInv'
  <2>1. /\ pc = "SavingState" /\ pc' = "StateSaved" /\ broken' = broken \ {"state"}
        /\ state_round' = round
        /\ alpha' = [j \in DOMAIN alpha |-> TrustStep(alpha[j], Improvement(j))]
        /\ UNCHANGED <<setting, memVars, error, base, sync_rounds, announced, auxVars, bounds>>
    BY <1>4 DEF SaveState
  <2>2. DOMAIN alpha = Peer \union {Self} /\ \A j \in DOMAIN alpha : alpha[j] \in Int \union {NaN}
    BY <1>1 DEF TypeOK
  <2>3. ASSUME NEW j \in DOMAIN alpha
        PROVE  /\ TrustStep(alpha[j], Improvement(j)) \in Int \union {NaN}
               /\ alpha[j] # NaN /\ Improvement(j) # NaN =>
                      TrustStep(alpha[j], Improvement(j)) \in Int
    <3>1. Improvement(j) \in {-1, 0, 1, NaN}
      BY ImprovementType
    <3> QED BY <2>2, <3>1, TrustStepType
  <2>4. TypeOK'
    <3>1. alpha' \in [Peer \union {Self} -> Int \union {NaN}]
      BY <2>1, <2>2, <2>3
    <3>2. state_round' \in Nat
      BY <1>1, <2>1 DEF TypeOK
    <3> QED BY <1>1, <2>1, <3>1, <3>2 DEF TypeOK
  <2>5. Deltas' /\ Bases'
    BY <1>1, <2>1 DEF Deltas, Bases, Pretraining
  <2>6. Numbers'
    <3>1. /\ \A r \in announced : r \in Nat
          /\ round \in Nat
      BY <1>1 DEF TypeOK
    <3> QED BY <1>1, <2>1, <3>1 DEF Numbers
  <2>7. Finite'
    <3>1. ASSUME setting.compression, NEW j \in DOMAIN alpha' PROVE alpha'[j] # NaN
      <4>1. j \in DOMAIN alpha /\ alpha[j] # NaN /\ dense.finite
        BY <1>1, <2>1, <3>1 DEF Finite
      <4>2. delta.finite
        BY <1>1, <2>1, <4>1 DEF Deltas
      <4>3. Improvement(j) # NaN
        BY <4>2, ImprovementType, EngineAssumption
      <4> QED BY <2>1, <2>3, <4>1, <4>3, EngineAssumption
    <3> QED BY <1>1, <2>1, <3>1 DEF Finite
  <2>8. Balance'
    BY <1>1, <2>1 DEF Balance, NewError, Transmission
  <2> QED BY <2>4, <2>5, <2>6, <2>7, <2>8 DEF EngineInv
<1>5. ASSUME Output PROVE EngineInv'
  <2> DEFINE sent == decode(payload).values
  <2>1. /\ pc = "StateSaved" /\ pc' = "Idle"
        /\ announced' = announced \union {round} /\ owed' = Minus(owed, sent)
        /\ round' = 0 /\ delta' = NoDelta /\ dense' = NoDelta /\ files' = NoFiles
        /\ UNCHANGED <<setting, diskVars, lost, lapses, resets, bounds>>
    BY <1>5 DEF Output, Forget
  <2>2. dense.values \in Values /\ setting.compression \in BOOLEAN /\ owed \in Values
    BY <1>1, SettingType DEF TypeOK, DeltaType
  <2>3. sent = Reconstructed(dense.values, setting.compression)
    BY <2>2, Transmitted DEF payload
  <2> HIDE DEF sent
  <2>4. Minus(owed, sent) \in Values
    BY <2>2, <2>3, ReconstructedType, PlusMinusType
  <2>5. TypeOK'
    <3>1. owed' \in Values /\ delta' \in DeltaType /\ dense' \in DeltaType /\ round' \in Nat
      BY <2>1, <2>4, NoDeltaType
    <3>2. announced' \subseteq Nat
      BY <1>1, <2>1 DEF TypeOK
    <3>3. \A j \in Peer : files'[j].format \in {"v1", "legacy", "unreadable"}
      BY <2>1 DEF NoFiles, NoPayload
    <3> QED BY <1>1, <2>1, <3>1, <3>2, <3>3 DEF TypeOK
  <2>6. Deltas' /\ Bases' /\ Finite'
    BY <1>1, <2>1 DEF Deltas, Bases, Finite, Pretraining
  <2>7. Numbers'
    BY <1>1, <2>1 DEF Numbers, TypeOK
  <2>8. Balance'
    <3>1. lapses = 0 /\ error.finite => owed' = error.values
      BY <1>1, <2>1, <2>3 DEF Balance, NewError, Transmission
    <3>2. lapses = 0 /\ ~error.finite => ~base.finite
      BY <1>1, <2>1 DEF Balance
    <3>3. Pretraining => base.tensors = Tensor /\ Tensor # {}
      BY <1>1, <2>1, EngineAssumption DEF Bases
    <3> QED BY <2>1, <3>1, <3>2, <3>3 DEF Balance, Pretraining
  <2> QED BY <2>5, <2>6, <2>7, <2>8 DEF EngineInv
<1> QED BY <1>2, <1>3, <1>4, <1>5

LEMMA StoppingEngine ==
    ASSUME EngineInv, Die \/ FailToLoad \/ FailToEncode \/ FailToDecode
    PROVE  EngineInv'
<1> USE DEF Before, Computed, Aggregating, Closing, InRound, memVars, stateVars, diskVars,
            auxVars, bounds
<1>1. TypeOK /\ Deltas /\ Bases /\ Numbers /\ Finite /\ Balance
  BY DEF EngineInv
<1>2. Stop /\ (deaths' = deaths \/ deaths' = deaths + 1)
  BY DEF Die, FailToLoad, FailToEncode, FailToDecode
<1>3. /\ pc' = "Idle" /\ lapses' = lapses + 1
      /\ round' = 0 /\ delta' = NoDelta /\ dense' = NoDelta /\ files' = NoFiles
      /\ UNCHANGED <<setting, diskVars, announced, owed, resets, begun>>
  BY <1>2 DEF Stop, Forget
<1>4. TypeOK'
  <2>1. deaths' \in Nat /\ lapses' \in Nat /\ round' \in Nat
    BY <1>1, <1>2, <1>3 DEF TypeOK
  <2>2. delta' \in DeltaType /\ dense' \in DeltaType
    BY <1>3, NoDeltaType
  <2>3. \A j \in Peer : files'[j].format \in {"v1", "legacy", "unreadable"}
    BY <1>3 DEF NoFiles, NoPayload
  <2>4. lost' \in Values
    <3>1. lost \in Values /\ dense.values \in Values /\ setting.compression \in BOOLEAN
      BY <1>1, SettingType DEF TypeOK, DeltaType
    <3>2. Plus(lost, Transmission) \in Values
      BY <3>1, ReconstructedType, PlusMinusType DEF Transmission
    <3> QED BY <1>2, <3>1, <3>2 DEF Stop
  <2> QED BY <1>1, <1>3, <2>1, <2>2, <2>3, <2>4 DEF TypeOK
<1>5. Deltas' /\ Bases' /\ Numbers' /\ Finite'
  BY <1>1, <1>3 DEF Deltas, Bases, Numbers, Finite, Pretraining
<1>6. Balance'
  <2>1. lapses' # 0
    BY <1>1, <1>3 DEF TypeOK
  <2> QED BY <2>1 DEF Balance
<1> QED BY <1>4, <1>5, <1>6 DEF EngineInv

LEMMA NextEngine == EngineInv /\ [Next]_vars => EngineInv'
<1> SUFFICES ASSUME EngineInv, [Next]_vars PROVE EngineInv'
  OBVIOUS
<1>1. CASE Next
  BY <1>1, StartingEngine, TrainingEngine, ResidualEngine, AggregatingEngine, ClosingEngine,
     StoppingEngine DEF Next
<1>2. CASE UNCHANGED vars
  BY <1>2 DEF vars, memVars, stateVars, diskVars, auxVars, bounds, EngineInv, TypeOK, Deltas,
     Bases, Numbers, Finite, Balance, InRound, Pretraining, NewError, Transmission
<1> QED BY <1>1, <1>2

LEMMA EngineInvHolds == Spec => []EngineInv
BY InitEngine, NextEngine, PTL DEF Spec

-------------------------------------------------------------------------------
(* Theorems.                                                               *)

\* The type invariant.  Clipping, quantising, pruning and half precision keep values integers:
\* the scale a tensor is divided by is never zero (ml_engine.py, quantization.py).
THEOREM EngineTypeCorrect == Spec => []TypeOK
BY EngineInvHolds, PTL DEF EngineInv

\* A round the loop was told of is on disk, its checkpoint included, and its number is not
\* given to another round, whenever the process dies, unless state.json was cut off
\* (ml_engine.py).
THEOREM AnnouncedRoundsSurvive == Spec => []AnnouncedRoundsAreOnDisk
<1>1. EngineInv => AnnouncedRoundsAreOnDisk
  <2> SUFFICES ASSUME EngineInv, resets = 0 PROVE AnnouncedRoundsAreOnDisk
    BY DEF AnnouncedRoundsAreOnDisk
  <2> USE DEF InRound, Computed, Aggregating, Closing
  <2>1. /\ TypeOK
        /\ \A r \in announced : r <= state_round /\ (r % SyncInterval = 0 => r \in sync_rounds)
        /\ pc = "Training" \/ InRound => \A r \in announced : r < round
    BY DEF EngineInv, Numbers
  <2>2. pc \notin {"Idle", "Started", "Loading"} => pc = "Training" \/ InRound
    BY <2>1 DEF TypeOK
  <2>3. pc \notin {"Idle", "Started", "Loading"} => round \notin announced
    <3>1. round \in Nat
      BY <2>1 DEF TypeOK
    <3> QED BY <2>1, <2>2, <3>1
  <2> QED BY <2>1, <2>3 DEF AnnouncedRoundsAreOnDisk
<1> QED BY <1>1, EngineInvHolds, PTL

\* With compression no NaN ever reaches the residual, the base or a trust score, whatever the
\* peers send and whenever training diverges (ml_engine.py, delta_codec.py).
THEOREM DivergenceIsContained == Spec => []DivergenceContained
<1>1. EngineInv => DivergenceContained
  BY DEF EngineInv, Finite, DivergenceContained
<1> QED BY <1>1, EngineInvHolds, PTL

\* Between rounds that all ended well, what was learned is what was transmitted and what the
\* residual keeps, coordinate by coordinate, for every sparsity and quantisation (error
\* feedback, ml_engine.py).
THEOREM NothingIsLost == Spec => []Conserved
<1>1. EngineInv => Conserved
  BY DEF EngineInv, Balance, Before, Conserved
<1> QED BY <1>1, EngineInvHolds, PTL

\* A step in which trust in a peer grows saves the state of a round that used a delta of it.
THEOREM TrustGrowsFromDeltas == Spec => TrustNeedsDelta
<1> DEFINE Grows(j) == pc = "SavingState" /\ alpha'[j] # NaN /\ Abs(alpha'[j]) > Abs(alpha[j])
           Bounded(j) == /\ files[j].format = "v1" \/ setting.allow_legacy
                         /\ Dot(decode(files[j]), decode(files[j])) <= MaxPeerNorm * MaxPeerNorm
<1>1. ASSUME EngineInv, [Next]_vars, NEW j \in Peer, Grows(j)
      PROVE  Bounded(j)
  <2>1. alpha \in [Peer \union {Self} -> Int \union {NaN}] /\ j # Self
        /\ files[j].format \in {"v1", "legacy", "unreadable"}
    BY <1>1, EngineAssumption DEF EngineInv, TypeOK
  <2>2. CASE SaveState
    <3>1. alpha'[j] = TrustStep(alpha[j], Improvement(j))
      BY <2>1, <2>2 DEF SaveState
    <3>2. CASE Used(files[j])
      BY <2>1, <3>2 DEF Used, Decodes, validate_peer_delta
    <3>3. CASE ~Used(files[j])
      <4>1. Improvement(j) = 0
        BY <2>1, <3>3, ImprovementType
      <4>2. Abs(alpha'[j]) <= Abs(alpha[j])
        BY <1>1, <2>1, <3>1, <4>1, TrustDecays
      <4>3. alpha[j] \in Int /\ alpha'[j] \in Int
        <5>1. alpha[j] # NaN
          BY <1>1, <3>1 DEF TrustStep
        <5>2. TrustStep(alpha[j], 0) \in Int
          BY <2>1, <5>1, TrustStepType, EngineAssumption
        <5> QED BY <2>1, <3>1, <4>1, <5>1, <5>2
      <4> QED BY <1>1, <4>2, <4>3 DEF Abs
    <3> QED BY <3>2, <3>3
  <2>3. CASE ~SaveState
    <3>1. alpha' = alpha
      BY <1>1, <2>3 DEF Next, Begin, FetchModel, ModelFetched, ReadState, Train, TrainDiverging,
         TrainNoSteps, Trained, OpenError, SaveError, OpenBase, SaveBase, SaveSync, OpenState,
         Output, Die, FailToLoad, FailToEncode, FailToDecode, Stop, Open, Forget, vars, stateVars,
         diskVars, memVars
    <3>2. CASE alpha[j] \in Int
      BY <1>1, <3>1, <3>2 DEF Abs
    <3>3. CASE alpha[j] = NaN
      BY <1>1, <3>1, <3>3
    <3> QED BY <2>1, <3>2, <3>3
  <2> QED BY <2>2, <2>3
<1>2. EngineInv /\ [Next]_vars => [\A j \in Peer : Grows(j) => Bounded(j)]_alpha
  BY <1>1
<1> QED BY <1>2, EngineInvHolds, PTL DEF Spec, TrustNeedsDelta

-------------------------------------------------------------------------------
(* The books: owed = residual + lost, exactly, whatever dies when.         *)

\* The residual on disk is that of the round before until it is replaced, and the delta enters
\* the books at that moment; from then on what is transmitted is still in them.
Books ==
    /\ pc \in Before \union Computed => owed = Plus(error.values, lost)
    /\ pc \in Computed =>
           dense.values = IF Resumes(delta) THEN Plus(delta.values, error.values)
                                            ELSE delta.values
    /\ pc \in Aggregating \union Closing =>
           error.values = NewError /\ owed = Plus(dense.values, lost)

LEMMA BookTypes ==
    ASSUME EngineInv
    PROVE  /\ owed \in Values /\ lost \in Values /\ error.values \in Values
           /\ delta.values \in Values /\ dense.values \in Values /\ Transmission \in Values
           /\ pc \in Before \union Computed \union Aggregating \union Closing
<1>1. /\ owed \in Values /\ lost \in Values /\ error.values \in Values
      /\ delta.values \in Values /\ dense.values \in Values /\ setting.compression \in BOOLEAN
      /\ pc \in Before \union Computed \union Aggregating \union Closing
  BY SettingType DEF EngineInv, TypeOK, DeltaType, Before, Computed, Aggregating, Closing
<1> QED BY <1>1, ReconstructedType DEF Transmission

\* Sums and differences are those of the coordinates.
LEMMA PlusIs ==
    ASSUME NEW u \in Values, NEW v \in Values, NEW w \in Values,
           \A c \in Coord : u[c] = v[c] + w[c]
    PROVE  u = Plus(v, w)
BY DEF Values, Plus

LEMMA InitBooks == Init => Books
<1> SUFFICES ASSUME Init PROVE Books
  OBVIOUS
<1>1. owed = Zero /\ error.values = Zero /\ lost = Zero /\ pc = "Idle"
  BY DEF Init
<1>2. Zero = Plus(Zero, Zero)
  BY ZeroType, PlusIs DEF Zero
<1> QED BY <1>1, <1>2 DEF Books, Computed, Aggregating, Closing

\* The delta enters the books, and a residual that it does not resume is lost.
LEMMA SavingBooks ==
    ASSUME EngineInv, Books, SaveError
    PROVE  Books'
<1> USE DEF Before, Computed, Aggregating, Closing
<1>1. /\ pc = "SavingError" /\ pc' = "ErrorSaved"
      /\ error'.values = NewError /\ owed' = Plus(owed, delta.values)
      /\ lost' = IF Resumes(delta) THEN lost ELSE Plus(lost, error.values)
      /\ UNCHANGED <<setting, dense>>
  BY DEF SaveError, memVars
<1>2. /\ owed \in Values /\ lost \in Values /\ error.values \in Values
      /\ delta.values \in Values /\ dense.values \in Values
  BY BookTypes
<1>3. owed = Plus(error.values, lost)
  BY <1>1 DEF Books
<1>4. dense.values = IF Resumes(delta) THEN Plus(delta.values, error.values) ELSE delta.values
  BY <1>1 DEF Books
<1>5. owed' \in Values /\ lost' \in Values
  BY <1>1, <1>2, PlusMinusType
<1>6. \A c \in Coord : owed'[c] = dense.values[c] + lost'[c]
  <2> SUFFICES ASSUME NEW c \in Coord PROVE owed'[c] = dense.values[c] + lost'[c]
    OBVIOUS
  <2>1. /\ lost[c] \in Int /\ error.values[c] \in Int /\ delta.values[c] \in Int
        /\ owed[c] = error.values[c] + lost[c] /\ owed'[c] = owed[c] + delta.values[c]
    BY <1>1, <1>2, <1>3 DEF Values, Plus
  <2>2. CASE Resumes(delta)
    BY <1>1, <1>4, <2>1, <2>2 DEF Plus
  <2>3. CASE ~Resumes(delta)
    BY <1>1, <1>4, <2>1, <2>3 DEF Plus
  <2> QED BY <2>2, <2>3
<1>7. owed' = Plus(dense.values, lost')
  BY <1>2, <1>5, <1>6, PlusIs
<1>8. NewError' = NewError
  BY <1>1 DEF NewError, Transmission
<1> QED BY <1>1, <1>7, <1>8 DEF Books

\* What is transmitted leaves the books, and what the residual keeps is what is left.
LEMMA OutputBooks ==
    ASSUME EngineInv, Books, Output
    PROVE  Books'
<1> USE DEF Before, Computed, Aggregating, Closing
<1>1. /\ pc = "StateSaved" /\ pc' = "Idle" /\ error' = error /\ lost' = lost
      /\ owed' = Minus(owed, decode(payload).values)
  BY DEF Output, Forget, diskVars
<1>2. /\ owed \in Values /\ lost \in Values /\ error.values \in Values
      /\ dense.values \in Values /\ Transmission \in Values
  BY BookTypes
<1>3. decode(payload).values = Transmission
  BY <1>2, SettingType, Transmitted DEF payload, Transmission, EngineInv, TypeOK
<1>4. error.values = Minus(dense.values, Transmission) /\ owed = Plus(dense.values, lost)
  BY <1>1 DEF Books, NewError
<1>5. owed' \in Values
  BY <1>1, <1>2, <1>3, PlusMinusType
<1>6. \A c \in Coord : owed'[c] = error.values[c] + lost[c]
  BY <1>1, <1>2, <1>3, <1>4 DEF Values, Plus, Minus
<1>7. owed' = Plus(error.values, lost)
  BY <1>2, <1>5, <1>6, PlusIs
<1> QED BY <1>1, <1>7 DEF Books

\* A round that ends without output loses its transmission if the residual is without it already,
\* and nothing if it is not: the next round finds the residual as this one did.
LEMMA StoppingBooks ==
    ASSUME EngineInv, Books, Die \/ FailToLoad \/ FailToEncode \/ FailToDecode
    PROVE  Books'
<1> USE DEF Before, Computed, Aggregating, Closing
<1>1. /\ pc' = "Idle" /\ error' = error /\ owed' = owed
      /\ lost' = IF ErrorReplaced THEN Plus(lost, Transmission) ELSE lost
  BY DEF Die, FailToLoad, FailToEncode, FailToDecode, Stop, Forget, diskVars
<1>2. /\ owed \in Values /\ lost \in Values /\ error.values \in Values
      /\ dense.values \in Values /\ Transmission \in Values
      /\ pc \in Before \union Computed \union Aggregating \union Closing
  BY BookTypes
<1>3. CASE ErrorReplaced
  <2>1. error.values = Minus(dense.values, Transmission) /\ owed = Plus(dense.values, lost)
    BY <1>3 DEF Books, NewError, ErrorReplaced
  <2>2. lost' = Plus(lost, Transmission) /\ lost' \in Values
    BY <1>1, <1>2, <1>3, PlusMinusType
  <2>3. \A c \in Coord : owed[c] = error.values[c] + lost'[c]
    BY <1>2, <2>1, <2>2 DEF Values, Plus, Minus
  <2>4. owed = Plus(error.values, lost')
    BY <1>2, <2>2, <2>3, PlusIs
  <2> QED BY <1>1, <2>4 DEF Books
<1>4. CASE ~ErrorReplaced
  <2>1. owed = Plus(error.values, lost)
    BY <1>2, <1>4 DEF Books, ErrorReplaced
  <2> QED BY <1>1, <1>4, <2>1 DEF Books
<1> QED BY <1>3, <1>4

LEMMA NextBooks == EngineInv /\ Books /\ [Next]_vars => Books'
<1> SUFFICES ASSUME EngineInv, Books, [Next]_vars PROVE Books'
  OBVIOUS
<1> USE DEF Before, Computed, Aggregating, Closing, memVars, stateVars, diskVars, auxVars, bounds
<1>1. CASE Begin \/ FetchModel \/ ModelFetched \/ ReadState
  <2>1. /\ pc \in Before /\ pc' \in Before
        /\ UNCHANGED <<owed, error, lost>>
    BY <1>1 DEF Begin, FetchModel, ModelFetched, ReadState, Open
  <2> QED BY <2>1 DEF Books
<1>2. ASSUME NEW d \in DeltaType, Trained(d) PROVE Books'
  <2>1. /\ pc = "Training" /\ pc' = "Trained" /\ delta' = d /\ dense' = WithResidual(d)
        /\ UNCHANGED <<owed, error, lost>>
    BY <1>2 DEF Trained
  <2>2. WithResidual(d).values = IF Resumes(d) THEN Plus(d.values, error.values) ELSE d.values
    BY WithResidualType DEF EngineInv, TypeOK, Resumes
  <2>3. Resumes(delta)' <=> Resumes(d)
    BY <2>1 DEF Resumes
  <2> QED BY <2>1, <2>2, <2>3 DEF Books
<1>3. CASE Train \/ TrainDiverging \/ TrainNoSteps
  <2>1. PICK d \in DeltaType : Trained(d)
    BY <1>3, TrainedType DEF Train, TrainDiverging, TrainNoSteps, DeltaType
  <2> QED BY <1>2, <2>1
<1>4. CASE \/ OpenError \/ OpenBase \/ SaveBase \/ SaveSync \/ OpenState \/ SaveState
           \/ UNCHANGED vars
  <2>1. pc \in Before \union Computed \union Aggregating \union Closing
    BY BookTypes
  <2>2. /\ UNCHANGED <<setting, delta, dense, owed, error, lost>>
        /\ \/ pc \in Before /\ pc' \in Before
           \/ pc \in Computed /\ pc' \in Computed
           \/ pc \in Aggregating \union Closing /\ pc' \in Aggregating \union Closing
    BY <1>4, <2>1 DEF OpenError, OpenBase, SaveBase, SaveSync, OpenState, SaveState, Open, vars
  <2>3. NewError' = NewError /\ (Resumes(delta)' <=> Resumes(delta))
    BY <2>2 DEF NewError, Transmission, Resumes
  <2> QED BY <2>2, <2>3 DEF Books
<1> QED BY <1>1, <1>3, <1>4, SavingBooks, OutputBooks, StoppingBooks DEF Next

LEMMA BooksHold == Spec => []Books
<1>1. EngineInv /\ Books /\ [Next]_vars => Books'
  BY NextBooks
<1> QED BY <1>1, InitBooks, EngineInvHolds, PTL DEF Spec

\* For every setting, and whichever rounds fail or diverge or take no steps: between the rounds
\* what was learned and not transmitted is, coordinate by coordinate, what the residual holds and
\* what was lost with a round that failed.  Nothing is lost otherwise, and nothing is sent twice,
\* because the residual is replaced before the delta leaves (ml_engine.py).
THEOREM LearnedOnce == Spec => []NothingSentTwice
<1>1. Books => NothingSentTwice
  BY DEF Books, Before, NothingSentTwice
<1> QED BY <1>1, BooksHold, PTL

-------------------------------------------------------------------------------
(* The delta transport: what is transmitted is close to what was meant.    *)

\* Rounding is off by half a unit at most.
LEMMA RoundedNear ==
    ASSUME NEW a \in Int, NEW b \in Nat \ {0}
    PROVE  /\ 2 * (Rounded(a, b) * b) <= 2 * a + b
           /\ 2 * a <= 2 * (Rounded(a, b) * b) + b
<1> DEFINE q == a \div b
           r == a % b
<1>1. q \in Int /\ r \in 0..(b - 1)
  OBVIOUS
<1>2. a = b * q + r
  OBVIOUS
<1>3. (q + 1) * b = b * q + b /\ q * b = b * q /\ b * q \in Int
  BY <1>1
<1>4. CASE 2 * r > b \/ (2 * r = b /\ q % 2 = 1)
  <2>1. Rounded(a, b) = q + 1
    BY <1>4 DEF Rounded
  <2>2. 2 * r >= b
    BY <1>1, <1>4
  <2> HIDE DEF q, r
  <2> QED BY <1>1, <1>2, <1>3, <2>1, <2>2
<1>5. CASE ~(2 * r > b \/ (2 * r = b /\ q % 2 = 1))
  <2>1. Rounded(a, b) = q
    BY <1>5 DEF Rounded
  <2>2. 2 * r <= b
    <3>1. q % 2 \in {0, 1}
      BY <1>1
    <3>2. ~(2 * r > b)
      BY <1>5
    <3> HIDE DEF q, r
    <3> QED BY <1>1, <3>2
  <2> HIDE DEF q, r
  <2> QED BY <1>1, <1>2, <1>3, <2>1, <2>2
<1> QED BY <1>4, <1>5

\* No chosen value exceeds the scale.
LEMMA ScaleBounds ==
    ASSUME NEW v \in Values, NEW c \in topk_indices(v)
    PROVE  Abs(v[c]) <= Scale(v)
<1>1. Abs(v[c]) \in Magnitude(v)
  BY DEF Magnitude
<1>2. /\ Max(Magnitude(v)) \in Nat /\ Abs(v[c]) \in Nat /\ Level \in Nat
      /\ Abs(v[c]) <= Max(Magnitude(v))
  BY <1>1, LargestMagnitude, WireAssumption
<1>3. Scale(v) = IF Max(Magnitude(v)) = 0 THEN Level ELSE Max(Magnitude(v))
  BY DEF Scale, Magnitude
<1> QED BY <1>2, <1>3

\* A product of two numbers grows with the first.
LEMMA ProductGrows ==
    ASSUME NEW x \in Int, NEW y \in Int, NEW s \in Nat, x <= y
    PROVE  x * s <= y * s
<1>1. (y - x) * s >= 0
  OBVIOUS
<1> QED BY <1>1

LEMMA QuantizedNear ==
    ASSUME NEW v \in Values, NEW c \in topk_indices(v)
    PROVE  /\ Quantized(v)[c] \in Int /\ Quantized(v)[c] * Scale(v) \in Int
           /\ v[c] * Level \in Int
           /\ 2 * (Quantized(v)[c] * Scale(v)) <= 2 * (v[c] * Level) + Scale(v)
           /\ 2 * (v[c] * Level) <= 2 * (Quantized(v)[c] * Scale(v)) + Scale(v)
<1>1. v[c] \in Int /\ Level \in Nat
  BY WireAssumption DEF topk_indices, Values
<1>2. v[c] * Level \in Int
  BY <1>1
<1>3. Quantized(v)[c] = Rounded(v[c] * Level, Scale(v))
  BY DEF Quantized
<1>4. Quantized(v)[c] \in Int /\ Quantized(v)[c] * Scale(v) \in Int
  <2>1. Quantized(v)[c] \in Int
    BY QuantizedType
  <2> QED BY <2>1, ScaleType
<1> QED BY <1>2, <1>3, <1>4, RoundedNear, ScaleType

\* The part i of s, in units of 1/m, is at most the whole.
LEMMA RoundedFits ==
    ASSUME NEW i \in Int, NEW s \in Nat \ {0}, NEW m \in Nat, Abs(i) <= s
    PROVE  Rounded(i * m, s) \in (-m)..m
<1> DEFINE x == Rounded(i * m, s)
<1>1. i * m \in Int /\ x \in Int
  <2>1. i * m \in Int
    OBVIOUS
  <2> QED BY <2>1, RoundedType
<1>2. /\ x * s \in Int
      /\ 2 * (x * s) <= 2 * (i * m) + s
      /\ 2 * (i * m) <= 2 * (x * s) + s
  <2>1. x * s \in Int
    <3> HIDE DEF x
    <3> QED BY <1>1
  <2> QED BY <1>1, <2>1, RoundedNear
<1>3. i <= s /\ -s <= i
  BY DEF Abs
<1> HIDE DEF x
<1>4. i * m <= s * m /\ (-s) * m <= i * m
  BY <1>3, ProductGrows
<1>5. s * m \in Int /\ (-s) * m = -(s * m) /\ (m + 1) * s = s * m + s
      /\ (-(m + 1)) * s = -(s * m + s)
  OBVIOUS
<1>6. x * s < s * m + s /\ -(s * m + s) < x * s
  <2> DEFINE X == x * s
             V == i * m
             P == s * m
  <2>1. X \in Int /\ V \in Int /\ P \in Int
    BY <1>1, <1>2, <1>5
  <2>2. 2 * X <= 2 * V + s /\ 2 * V <= 2 * X + s
    BY <1>2
  <2>3. V <= P /\ -P <= V
    BY <1>4, <1>5
  <2> HIDE DEF X, V, P
  <2>4. X < P + s /\ -(P + s) < X
    BY <2>1, <2>2, <2>3
  <2> QED BY <2>4 DEF X, P
<1>7. ~(m + 1 <= x)
  <2>1. m + 1 <= x => s * m + s <= x * s
    <3>1. m + 1 <= x => (m + 1) * s <= x * s
      BY <1>1, ProductGrows
    <3> QED BY <1>5, <3>1
  <2>2. ~(s * m + s <= x * s)
    <3> DEFINE X == x * s
               P == s * m + s
    <3>1. X \in Int /\ P \in Int /\ X < P
      BY <1>2, <1>5, <1>6
    <3> HIDE DEF X, P
    <3>2. ~(P <= X)
      BY <3>1
    <3> QED BY <3>2 DEF X, P
  <2> QED BY <2>1, <2>2
<1>8. ~(x <= -(m + 1))
  <2>1. x <= -(m + 1) => x * s <= -(s * m + s)
    <3>1. x <= -(m + 1) => x * s <= (-(m + 1)) * s
      BY <1>1, ProductGrows
    <3> QED BY <1>5, <3>1
  <2>2. ~(x * s <= -(s * m + s))
    <3> DEFINE X == x * s
               P == s * m + s
    <3>1. X \in Int /\ P \in Int /\ -P < X
      BY <1>2, <1>5, <1>6
    <3> HIDE DEF X, P
    <3>2. ~(X <= -P)
      BY <3>1
    <3> QED BY <3>2 DEF X, P
  <2> QED BY <2>1, <2>2
<1>9. x \in (-m)..m
  BY <1>1, <1>7, <1>8
<1> QED BY <1>9 DEF x

\* What the encoder sends fits in its eight bits: the clamp after the rounding
\* (quantization.py:9) never changes a value, so that no error hides behind it.
THEOREM QuantizedFits ==
    ASSUME NEW v \in Values, NEW c \in topk_indices(v)
    PROVE  Quantized(v)[c] \in (-Level)..Level
<1>1. v[c] \in Int /\ Scale(v) \in Nat \ {0} /\ Level \in Nat
  BY ScaleType, WireAssumption DEF topk_indices, Values
<1>2. Abs(v[c]) <= Scale(v)
  BY ScaleBounds
<1>3. Quantized(v)[c] = Rounded(v[c] * Level, Scale(v))
  BY DEF Quantized
<1> QED BY <1>1, <1>2, <1>3, RoundedFits

\* What a peer decodes of a chosen value is off by half a step of the scale, and half a unit
\* for the integer it is rounded to; of any other value nothing is sent and all of it waits in
\* the residual (sparsification.py:44-55).
THEOREM TransmittedNear ==
    ASSUME NEW v \in Values, NEW c \in Coord
    PROVE  IF c \in topk_indices(v)
           THEN 2 * Level * Abs(v[c] - Reconstructed(v, TRUE)[c]) <= Scale(v) + Level
           ELSE Reconstructed(v, TRUE)[c] = 0
<1>1. DOMAIN Quantized(v) = topk_indices(v)
  BY QuantizedType
<1>2. CASE c \notin topk_indices(v)
  BY <1>1, <1>2 DEF Reconstructed, Scatter
<1>3. CASE c \in topk_indices(v)
  <2> DEFINE x == Quantized(v)[c]
             s == Scale(v)
             y == Rounded(x * s, Level)
             e == v[c] - y
  <2>1. Reconstructed(v, TRUE)[c] = y
    BY <1>1, <1>3 DEF Reconstructed, Scatter
  <2>2. x \in Int /\ s \in Nat \ {0} /\ Level \in Nat \ {0} /\ v[c] \in Int
    BY <1>3, QuantizedType, ScaleType, WireAssumption DEF Values
  <2>3. /\ x * s \in Int /\ v[c] * Level \in Int
        /\ 2 * (x * s) <= 2 * (v[c] * Level) + s
        /\ 2 * (v[c] * Level) <= 2 * (x * s) + s
    BY <1>3, QuantizedNear
  <2>4. /\ y \in Int
        /\ 2 * (y * Level) <= 2 * (x * s) + Level
        /\ 2 * (x * s) <= 2 * (y * Level) + Level
    <3> HIDE DEF x, s
    <3> QED BY <2>2, <2>3, RoundedType, RoundedNear
  <2> HIDE DEF x, s, y
  <2>5. e \in Int /\ e * Level = v[c] * Level - y * Level /\ y * Level \in Int
    BY <2>2, <2>4
  <2> HIDE DEF e
  <2>6. 2 * (e * Level) <= s + Level /\ -(2 * (e * Level)) <= s + Level
    BY <2>2, <2>3, <2>4, <2>5
  <2>7. e * Level \in Int /\ 2 * Level * e = 2 * (e * Level) /\ 2 * Level * (-e) = -(2 * (e * Level))
    BY <2>2, <2>5
  <2>8. 2 * Level * Abs(e) <= s + Level
    BY <2>5, <2>6, <2>7 DEF Abs
  <2> QED BY <1>3, <2>1, <2>8 DEF e, s
<1> QED BY <1>2, <1>3

-------------------------------------------------------------------------------
(* The choice of what is transmitted.                                      *)

Precedence(v) == {p \in Coord \X Coord : Precedes(v, p[1], p[2])}
Rank(v) == [c \in Coord |-> RankIn(Coord, Precedence(v), c)]

LEMMA PrecedesOrders ==
    ASSUME NEW v \in Values
    PROVE  /\ IsOrder(Coord, Precedence(v))
           /\ \A c, d \in Coord : <<c, d>> \in Precedence(v) <=> Precedes(v, c, d)
           /\ \A c \in Coord :
                 AheadOf(Coord, Precedence(v), c) = {d \in Coord : Precedes(v, d, c)}
<1>1. ASSUME NEW x \in Coord PROVE Abs(v[x]) \in Nat /\ x \in Nat
  <2>1. v[x] \in Int
    BY DEF Values
  <2> QED BY <2>1, WireAssumption DEF Abs
<1>2. \A c, d \in Coord : <<c, d>> \in Precedence(v) <=> Precedes(v, c, d)
  BY DEF Precedence
<1>3. \A c \in Coord : ~Precedes(v, c, c)
  BY <1>1 DEF Precedes
<1>4. \A c, d \in Coord : c # d => Precedes(v, c, d) \/ Precedes(v, d, c)
  BY <1>1 DEF Precedes
<1>5. \A c, d, e \in Coord : Precedes(v, c, d) /\ Precedes(v, d, e) => Precedes(v, c, e)
  BY <1>1 DEF Precedes
<1>6. IsOrder(Coord, Precedence(v))
  BY <1>2, <1>3, <1>4, <1>5 DEF IsOrder
<1>7. ASSUME NEW c \in Coord
      PROVE  AheadOf(Coord, Precedence(v), c) = {d \in Coord : Precedes(v, d, c)}
  BY <1>2 DEF AheadOf
<1> QED BY <1>2, <1>6, <1>7

\* The ranks are the numbers from zero, each taken once, and later is higher.
LEMMA RanksOrder ==
    ASSUME NEW v \in Values
    PROVE  /\ \A c \in Coord : Rank(v)[c] \in Nat /\ Rank(v)[c] < Cardinality(Coord)
           /\ \A c, d \in Coord : Rank(v)[c] < Rank(v)[d] <=> Precedes(v, c, d)
           /\ \A c, d \in Coord : Rank(v)[c] = Rank(v)[d] => c = d
           /\ \A n \in 0..(Cardinality(Coord) - 1) : \E c \in Coord : Rank(v)[c] = n
<1> DEFINE B == Precedence(v)
<1>1. /\ IsOrder(Coord, B) /\ IsFiniteSet(Coord)
      /\ \A c, d \in Coord : <<c, d>> \in B <=> Precedes(v, c, d)
  BY PrecedesOrders, WireAssumption
<1>2. \A c \in Coord : Rank(v)[c] = RankIn(Coord, B, c)
  BY DEF Rank
<1> HIDE DEF B
<1>3. \A c \in Coord : RankIn(Coord, B, c) \in Nat /\ RankIn(Coord, B, c) < Cardinality(Coord)
  BY <1>1, RankInType
<1>4. ASSUME NEW c \in Coord, NEW d \in Coord
      PROVE  /\ RankIn(Coord, B, c) < RankIn(Coord, B, d) <=> <<c, d>> \in B
             /\ RankIn(Coord, B, c) = RankIn(Coord, B, d) => c = d
  BY <1>1, RankInOrders
<1>5. \A n \in 0..(Cardinality(Coord) - 1) : \E c \in Coord : RankIn(Coord, B, c) = n
  BY <1>1, RanksInTaken
<1>6. \A n \in 0..(Cardinality(Coord) - 1) : \E c \in Coord : Rank(v)[c] = n
  BY <1>2, <1>5
<1>7. ASSUME NEW c \in Coord, NEW d \in Coord
      PROVE  /\ Rank(v)[c] < Rank(v)[d] <=> Precedes(v, c, d)
             /\ Rank(v)[c] = Rank(v)[d] => c = d
  BY <1>1, <1>2, <1>4
<1>8. \A c \in Coord : Rank(v)[c] \in Nat /\ Rank(v)[c] < Cardinality(Coord)
  BY <1>2, <1>3
<1> QED BY <1>6, <1>7, <1>8

\* The coordinates chosen are those of the lowest ranks.
LEMMA TopRanks ==
    ASSUME NEW v \in Values
    PROVE  topk_indices(v) = {c \in Coord : Rank(v)[c] < TopK}
<1>1. \A c \in Coord : Rank(v)[c] = Cardinality({d \in Coord : Precedes(v, d, c)})
  BY PrecedesOrders DEF Rank, RankIn
<1> QED BY <1>1 DEF topk_indices

\* The encoder sends as many coordinates as it may, all of them if there are fewer, and what
\* it sends comes before what it keeps: by magnitude, then by index
\* (sparsification.py:23-26), so that every node chooses the same of equal values.
THEOREM LargestAreSent ==
    ASSUME NEW v \in Values
    PROVE  /\ topk_indices(v) = Coord \/ Cardinality(topk_indices(v)) = TopK
           /\ Cardinality(topk_indices(v)) <= TopK
           /\ \A c \in topk_indices(v), d \in Coord \ topk_indices(v) : Precedes(v, c, d)
<1> DEFINE I == topk_indices(v)
           N == Cardinality(Coord)
<1>1. I = {c \in Coord : Rank(v)[c] < TopK}
  BY TopRanks
<1>2. N \in Nat /\ TopK \in Nat \ {0}
  BY FS_CardinalityType, WireAssumption
<1>3. \A c \in Coord : Rank(v)[c] \in Nat /\ Rank(v)[c] < N
  BY RanksOrder
<1>4. ASSUME NEW c \in I, NEW d \in Coord \ I PROVE Precedes(v, c, d)
  <2>1. c \in Coord /\ d \in Coord /\ ~(Rank(v)[d] < Rank(v)[c])
    BY <1>1, <1>2, <1>3
  <2>2. c # d
    OBVIOUS
  <2>3. Rank(v)[c] < Rank(v)[d]
    BY <1>3, <2>1, <2>2, RanksOrder
  <2> QED BY <2>1, <2>3, RanksOrder
<1>5. CASE N <= TopK
  <2>1. I = Coord
    BY <1>1, <1>2, <1>3, <1>5
  <2> QED BY <1>2, <1>4, <1>5, <2>1
<1>6. CASE ~(N <= TopK)
  <2> DEFINE F == [c \in I |-> Rank(v)[c]]
             T == 0..(TopK - 1)
  <2>1. IsFiniteSet(T) /\ Cardinality(T) = TopK
    BY <1>2, FS_Interval
  <2>2. \A c, d \in Coord : Rank(v)[c] = Rank(v)[d] => c = d
    BY RanksOrder
  <2>3. \A n \in 0..(N - 1) : \E c \in Coord : Rank(v)[c] = n
    BY RanksOrder
  <2>4. \A n \in T : \E c \in I : Rank(v)[c] = n
    <3>1. \A n \in T : n \in 0..(N - 1) /\ n < TopK
      BY <1>2, <1>6
    <3> HIDE DEF T
    <3> QED BY <1>1, <2>3, <3>1
  <2>5. \A c \in I : c \in Coord /\ Rank(v)[c] \in T
    BY <1>1, <1>2, <1>3
  <2> HIDE DEF I, T
  <2>6. F \in Injection(I, T) /\ F \in Surjection(I, T)
    BY <2>2, <2>4, <2>5 DEF Injection, IsInjective, Surjection
  <2> HIDE DEF F
  <2>7. Cardinality(I) = Cardinality(T)
    BY <2>1, <2>6, FS_Injection
  <2>8. Cardinality(I) = TopK
    BY <2>1, <2>7
  <2>9. \A c \in I, d \in Coord \ I : Precedes(v, c, d)
    BY <1>4
  <2> QED BY <1>2, <2>8, <2>9 DEF I
<1> QED BY <1>5, <1>6

-------------------------------------------------------------------------------
(* The weight of values: the sum of their magnitudes.                      *)

Magnitudes(v) == [c \in Coord |-> Abs(v[c])]
PartWeight(v) == CHOOSE h : SumsUp(h, Magnitudes(v), Coord)
Weight(v) == PartWeight(v)[Coord]
Coordinates == Cardinality(Coord)

LEMMA MagnitudeType ==
    ASSUME NEW i \in Int
    PROVE  Abs(i) \in Nat
BY DEF Abs

LEMMA WeightSums ==
    ASSUME NEW v \in Values
    PROVE  /\ SumOfIntegers(PartWeight(v), Magnitudes(v), Coord)
           /\ PartWeight(v) \in [SUBSET Coord -> Nat]
           /\ Splits(PartWeight(v), Magnitudes(v), Coord)
           /\ Weight(v) \in Nat
<1> DEFINE g == Magnitudes(v)
           h == PartWeight(v)
<1>1. g \in [Coord -> Nat] /\ g \in [Coord -> Int] /\ IsFiniteSet(Coord)
  BY MagnitudeType, WireAssumption DEF Magnitudes, Values
<1> HIDE DEF g
<1>2. \E k : SumsUp(k, g, Coord)
  BY <1>1, SumExists
<1>3. SumsUp(h, g, Coord)
  BY <1>2 DEF PartWeight, g
<1> HIDE DEF h
<1>4. h \in [SUBSET Coord -> Nat]
  <2>1. 0 \in Nat /\ \A x, y \in Nat : x + y \in Nat
    OBVIOUS
  <2> QED BY <1>1, <1>3, <2>1, SumType
<1>5. h \in [SUBSET Coord -> Int]
  BY <1>4
<1>6. SumOfIntegers(h, g, Coord)
  BY <1>1, <1>3, <1>5 DEF SumOfIntegers
<1>7. Splits(h, g, Coord)
  BY <1>1, <1>3, <1>5, SumSplits
<1>8. h[Coord] \in Nat
  BY <1>4
<1> QED BY <1>4, <1>6, <1>7, <1>8 DEF g, h, Weight

LEMMA WeightSplits ==
    ASSUME NEW v \in Values, NEW c \in Coord
    PROVE  /\ Weight(v) = Abs(v[c]) + PartWeight(v)[Coord \ {c}]
           /\ Abs(v[c]) \in Nat /\ PartWeight(v)[Coord \ {c}] \in Nat
<1>1. Weight(v) = Magnitudes(v)[c] + PartWeight(v)[Coord \ {c}]
  BY WeightSums DEF Weight, Splits
<1>2. PartWeight(v)[Coord \ {c}] \in Nat
  BY WeightSums
<1> QED BY <1>1, <1>2, MagnitudeType DEF Magnitudes, Values

LEMMA PartsGrow ==
    ASSUME NEW v \in Values, NEW w \in Values, NEW n \in Nat,
           \A c \in Coord : Abs(w[c]) <= Abs(v[c]) + n
    PROVE  \A s \in SUBSET Coord : PartWeight(w)[s] <= PartWeight(v)[s] + Cardinality(s) * n
<1>1. n \in Int /\ \A c \in Coord : Magnitudes(w)[c] <= Magnitudes(v)[c] + n
  BY DEF Magnitudes
<1>2. /\ SumOfIntegers(PartWeight(w), Magnitudes(w), Coord)
      /\ SumOfIntegers(PartWeight(v), Magnitudes(v), Coord)
  BY WeightSums
<1> QED BY <1>1, <1>2, SumShifts

LEMMA WeightGrows ==
    ASSUME NEW v \in Values, NEW w \in Values, NEW n \in Nat,
           \A c \in Coord : Abs(w[c]) <= Abs(v[c]) + n
    PROVE  Weight(w) <= Weight(v) + Coordinates * n
<1>1. \A s \in SUBSET Coord : PartWeight(w)[s] <= PartWeight(v)[s] + Cardinality(s) * n
  BY PartsGrow
<1> QED BY <1>1 DEF Weight, Coordinates

\* Where nothing grows and all but one unit of a coordinate goes, the weight loses that much.
LEMMA WeightDrops ==
    ASSUME NEW v \in Values, NEW w \in Values, NEW t \in Coord,
           \A c \in Coord : Abs(w[c]) <= Abs(v[c]), Abs(w[t]) <= 1
    PROVE  Weight(w) + Abs(v[t]) <= Weight(v) + 1
<1> DEFINE s == Coord \ {t}
<1>1. \A c \in Coord : Abs(w[c]) <= Abs(v[c]) + 0
  <2>1. \A c \in Coord : Abs(v[c]) \in Nat
    BY MagnitudeType DEF Values
  <2> QED BY <2>1
<1>2. PartWeight(w)[s] <= PartWeight(v)[s] + Cardinality(s) * 0
  BY <1>1, PartsGrow
<1>3. Cardinality(s) \in Nat
  BY FS_RemoveElement, FS_CardinalityType, WireAssumption
<1>4. /\ Weight(w) = Abs(w[t]) + PartWeight(w)[s] /\ PartWeight(w)[s] \in Nat /\ Abs(w[t]) \in Nat
      /\ Weight(v) = Abs(v[t]) + PartWeight(v)[s] /\ PartWeight(v)[s] \in Nat /\ Abs(v[t]) \in Nat
  BY WeightSplits
<1> HIDE DEF s
<1> QED BY <1>2, <1>3, <1>4

LEMMA WeightOfZero == Zero \in Values /\ Weight(Zero) = 0
<1>1. Zero \in Values
  BY DEF Zero, Values
<1>2. Magnitudes(Zero) \in [Coord -> {0}]
  BY DEF Magnitudes, Zero, Abs
<1>3. SumsUp(PartWeight(Zero), Magnitudes(Zero), Coord)
  BY <1>1, WeightSums DEF SumOfIntegers
<1>4. PartWeight(Zero) \in [SUBSET Coord -> {0}]
  <2>1. 0 \in {0} /\ \A x, y \in {0} : x + y \in {0}
    OBVIOUS
  <2> QED BY <1>2, <1>3, <2>1, SumType, WireAssumption
<1> QED BY <1>1, <1>4 DEF Weight

\* The largest magnitude is at least the average.
LEMMA LargestWeighs ==
    ASSUME NEW v \in Values, NEW t \in Coord, \A c \in Coord : Abs(v[c]) <= Abs(v[t])
    PROVE  Weight(v) <= Coordinates * Abs(v[t])
<1> DEFINE n == Abs(v[t])
<1>1. n \in Nat /\ Coordinates \in Nat
  BY MagnitudeType, FS_CardinalityType, WireAssumption DEF Values, Coordinates
<1>2. \A c \in Coord : Abs(v[c]) <= Abs(Zero[c]) + n
  <2>1. \A c \in Coord : Abs(Zero[c]) = 0 /\ Abs(v[c]) \in Nat
    BY MagnitudeType DEF Zero, Abs, Values
  <2> QED BY <1>1, <2>1
<1> HIDE DEF n
<1>3. Weight(v) <= Weight(Zero) + Coordinates * n
  BY <1>1, <1>2, WeightGrows, WeightOfZero
<1>4. Coordinates * n \in Nat
  BY <1>1
<1> QED BY <1>3, <1>4, WeightOfZero DEF n

-------------------------------------------------------------------------------
(* What a transmission leaves to the residual.                             *)

\* A coordinate with the largest magnitude of all is transmitted.
LEMMA LargestIsSent ==
    ASSUME NEW v \in Values, Coord # {}
    PROVE  \E t \in topk_indices(v) : \A c \in Coord : Abs(v[c]) <= Abs(v[t])
<1>1. Cardinality(Coord) \in Nat /\ Cardinality(Coord) # 0
  BY FS_CardinalityType, FS_EmptySet, WireAssumption
<1>2. 0 \in 0..(Cardinality(Coord) - 1)
  BY <1>1
<1>3. PICK t \in Coord : Rank(v)[t] = 0
  BY <1>2, RanksOrder
<1>4. t \in topk_indices(v)
  BY <1>3, TopRanks, WireAssumption
<1>5. \A c \in Coord : Rank(v)[c] \in Nat
  BY RanksOrder
<1>6. ASSUME NEW c \in Coord PROVE ~Precedes(v, c, t)
  <2>1. ~(Rank(v)[c] < Rank(v)[t])
    BY <1>3, <1>5
  <2> QED BY <2>1, RanksOrder
<1>7. \A c \in Coord : Abs(v[c]) \in Nat
  BY MagnitudeType DEF Values
<1>8. \A c \in Coord : Abs(v[c]) <= Abs(v[t])
  BY <1>6, <1>7 DEF Precedes
<1> QED BY <1>4, <1>8

\* The scale is the magnitude of a value that is sent, unless all of these are zero.
LEMMA ScaleReached ==
    ASSUME NEW v \in Values
    PROVE  \/ \E c \in topk_indices(v) : Scale(v) = Abs(v[c])
           \/ \A c \in topk_indices(v) : Abs(v[c]) = 0
<1>1. Scale(v) = IF Max(Magnitude(v)) = 0 THEN Level ELSE Max(Magnitude(v))
  BY DEF Scale, Magnitude
<1>2. CASE Max(Magnitude(v)) = 0
  <2>1. ASSUME NEW c \in topk_indices(v) PROVE Abs(v[c]) = 0
    <3>1. Abs(v[c]) \in Magnitude(v)
      BY DEF Magnitude
    <3> QED BY <1>2, <3>1, LargestMagnitude
  <2> QED BY <2>1
<1>3. CASE Max(Magnitude(v)) # 0
  <2>1. \E c \in topk_indices(v) : Max(Magnitude(v)) = Abs(v[c])
    BY <1>3, LargestMagnitude DEF Magnitude
  <2> QED BY <1>1, <1>3, <2>1
<1> QED BY <1>2, <1>3

Left(v, compressed) == Minus(v, Reconstructed(v, compressed))

LEMMA LeftType ==
    ASSUME NEW v \in Values, NEW compressed \in BOOLEAN
    PROVE  Left(v, compressed) \in Values
BY ReconstructedType, PlusMinusType DEF Left

\* Half precision is off by one at most, and never by more than the value.
LEMMA HalfNear ==
    ASSUME NEW i \in Int
    PROVE  Abs(i - Half(i)) <= 1 /\ Abs(i - Half(i)) <= Abs(i)
<1>1. CASE Abs(i) <= HalfExact
  BY <1>1 DEF Half, Abs
<1>2. CASE ~(Abs(i) <= HalfExact)
  <2> DEFINE r == Rounded(i, 2)
  <2>1. r \in Int /\ 2 * (r * 2) <= 2 * i + 2 /\ 2 * i <= 2 * (r * 2) + 2
    BY RoundedType, RoundedNear
  <2>2. Half(i) = 2 * r
    BY <1>2 DEF Half
  <2> HIDE DEF r
  <2>3. i - 2 * r <= 1 /\ 2 * r - i <= 1
    BY <2>1
  <2>4. Abs(i - 2 * r) <= 1
    BY <2>1, <2>3 DEF Abs
  <2>5. 1 <= Abs(i) /\ Abs(i) \in Nat /\ Abs(i - 2 * r) \in Nat
    BY <1>2, <2>1, WireAssumption, MagnitudeType
  <2> QED BY <2>2, <2>4, <2>5
<1> QED BY <1>1, <1>2

\* No coordinate is left with more than it had.
LEMMA LeavesNoMore ==
    ASSUME NEW v \in Values, NEW compressed \in BOOLEAN, NEW c \in Coord
    PROVE  Abs(Left(v, compressed)[c]) <= Abs(v[c])
<1>1. v[c] \in Int /\ Abs(v[c]) \in Nat
  BY MagnitudeType DEF Values
<1>2. Left(v, compressed)[c] = v[c] - Reconstructed(v, compressed)[c]
  BY DEF Left, Minus
<1>3. CASE Reconstructed(v, compressed)[c] = 0
  BY <1>1, <1>2, <1>3
<1>4. CASE ~compressed /\ c \in topk_indices(v)
  <2>1. Reconstructed(v, compressed)[c] = Half(v[c])
    BY <1>4 DEF Reconstructed
  <2> QED BY <1>1, <1>2, <2>1, HalfNear
<1>5. CASE ~compressed /\ c \notin topk_indices(v)
  BY <1>3, <1>5 DEF Reconstructed
<1>6. CASE compressed /\ c \notin topk_indices(v)
  BY <1>3, <1>6, TransmittedNear
<1>7. CASE compressed /\ c \in topk_indices(v)
  <2> DEFINE x == Quantized(v)[c]
             s == Scale(v)
             e == Left(v, TRUE)[c]
             V == v[c] * Level
             X == x * s
  <2>1. x \in Int /\ s \in Nat \ {0} /\ Level \in Nat \ {0} /\ e \in Int
    BY <1>7, QuantizedType, ScaleType, WireAssumption, LeftType DEF Values
  <2>2. X \in Int /\ V \in Int /\ 2 * X <= 2 * V + s /\ 2 * V <= 2 * X + s
    BY <1>7, QuantizedNear
  <2>3. 2 * Level * Abs(e) <= s + Level
    BY <1>2, <1>7, TransmittedNear
  <2>4. CASE x = 0
    <3>1. Reconstructed(v, compressed)[c] = Rounded(x * s, Level)
      BY <1>7, QuantizedType DEF Reconstructed, Scatter
    <3>2. Rounded(0 * Level, Level) = 0
      BY RoundedExact, WireAssumption
    <3>3. x * s = 0 * Level
      <4> HIDE DEF x, s
      <4> QED BY <2>1, <2>4
    <3>4. Reconstructed(v, compressed)[c] = 0
      BY <3>1, <3>2, <3>3
    <3> QED BY <1>3, <3>4
  <2>5. CASE x # 0
    <3>1. s <= 2 * (Abs(v[c]) * Level)
      <4>1. CASE 1 <= x
        <5>1. 1 * s <= X
          <6> HIDE DEF x, s
          <6> QED BY <2>1, <4>1, ProductGrows
        <5> HIDE DEF x, s, V, X
        <5>2. s <= 2 * V /\ 0 < V
          BY <2>1, <2>2, <5>1
        <5>3. 0 < v[c]
          <6>1. v[c] <= 0 => v[c] * Level <= 0 * Level
            BY <1>1, <2>1, ProductGrows
          <6> QED BY <1>1, <2>1, <2>2, <5>2, <6>1 DEF V
        <5>4. Abs(v[c]) = v[c]
          BY <1>1, <5>3 DEF Abs
        <5> QED BY <5>2, <5>4 DEF V
      <4>2. CASE x <= -1
        <5>1. X <= (-1) * s
          <6> HIDE DEF x, s
          <6> QED BY <2>1, <4>2, ProductGrows
        <5> HIDE DEF x, s, V, X
        <5>2. s <= -(2 * V) /\ V < 0
          BY <2>1, <2>2, <5>1
        <5>3. v[c] < 0
          <6>1. 0 <= v[c] => 0 * Level <= v[c] * Level
            BY <1>1, <2>1, ProductGrows
          <6> QED BY <1>1, <2>1, <2>2, <5>2, <6>1 DEF V
        <5>4. Abs(v[c]) = -v[c]
          BY <1>1, <5>3 DEF Abs
        <5>5. (-v[c]) * Level = -(v[c] * Level)
          BY <1>1, <2>1
        <5>6. -(2 * V) = 2 * (-V)
          BY <2>2
        <5> QED BY <5>2, <5>4, <5>5, <5>6 DEF V
      <4> HIDE DEF x
      <4> QED BY <2>1, <2>5, <4>1, <4>2
    <3>2. ~(Abs(v[c]) + 1 <= Abs(e))
      <4> DEFINE m == Abs(v[c])
                 n == Abs(e)
                 P == m * Level
                 Q == n * Level
      <4>1. m \in Nat /\ n \in Nat
        <5> HIDE DEF e
        <5> QED BY <1>1, <2>1, MagnitudeType
      <4>2. s <= 2 * P /\ 2 * Level * n <= s + Level
        BY <2>3, <3>1
      <4> HIDE DEF s, m, n
      <4>3. P \in Nat /\ Q \in Nat /\ 2 * Level * n = 2 * Q /\ (m + 1) * Level = P + Level
        BY <2>1, <4>1
      <4>4. m + 1 <= n => (m + 1) * Level <= n * Level
        BY <2>1, <4>1, ProductGrows
      <4>5. 2 * Q <= 2 * P + Level
        <5> HIDE DEF P, Q
        <5> QED BY <2>1, <4>2, <4>3
      <4>6. ~(P + Level <= Q)
        <5> HIDE DEF P, Q
        <5> QED BY <2>1, <4>3, <4>5
      <4>7. ~(m + 1 <= n)
        BY <4>3, <4>4, <4>6
      <4> QED BY <4>7 DEF m, n
    <3>3. Abs(e) \in Nat
      <4> HIDE DEF e
      <4> QED BY <2>1, MagnitudeType
    <3>4. Abs(e) <= Abs(v[c])
      <4> HIDE DEF e
      <4> QED BY <1>1, <3>2, <3>3
    <3> QED BY <1>7, <3>4
  <2> QED BY <2>4, <2>5
<1> QED BY <1>4, <1>5, <1>6, <1>7

\* Of the largest magnitude at most one unit is left.
LEMMA LargestGoes ==
    ASSUME NEW v \in Values, NEW compressed \in BOOLEAN, NEW t \in topk_indices(v),
           \A c \in Coord : Abs(v[c]) <= Abs(v[t])
    PROVE  Abs(Left(v, compressed)[t]) <= 1
<1>1. t \in Coord /\ v[t] \in Int /\ Abs(v[t]) \in Nat
  BY MagnitudeType DEF topk_indices, Values
<1>2. Left(v, compressed)[t] = v[t] - Reconstructed(v, compressed)[t]
  BY <1>1 DEF Left, Minus
<1>3. CASE ~compressed
  <2>1. Reconstructed(v, compressed)[t] = Half(v[t])
    BY <1>1, <1>3 DEF Reconstructed
  <2> QED BY <1>1, <1>2, <2>1, HalfNear
<1>4. CASE v[t] = 0
  <2>1. Abs(Left(v, compressed)[t]) <= Abs(v[t])
    BY <1>1, LeavesNoMore
  <2>2. Abs(v[t]) = 0
    BY <1>4 DEF Abs
  <2>3. Left(v, compressed)[t] \in Int
    BY <1>1, LeftType DEF Values
  <2> HIDE DEF Left
  <2> QED BY <2>1, <2>2, <2>3, MagnitudeType
<1>5. CASE compressed /\ v[t] # 0
  <2> DEFINE s == Scale(v)
  <2>1. s \in Nat \ {0} /\ Level \in Nat \ {0}
    BY ScaleType, WireAssumption
  <2>2. s = Abs(v[t])
    <3>1. Abs(v[t]) # 0
      BY <1>1, <1>5 DEF Abs
    <3>2. PICK c \in topk_indices(v) : s = Abs(v[c])
      BY <3>1, ScaleReached
    <3>3. s <= Abs(v[t])
      BY <3>2 DEF topk_indices
    <3>4. Abs(v[t]) <= s
      BY ScaleBounds
    <3> HIDE DEF s
    <3> QED BY <1>1, <2>1, <3>3, <3>4
  <2>3. Reconstructed(v, compressed)[t] = Rounded(Rounded(v[t] * Level, s) * s, Level)
    BY <1>1, <1>5, QuantizedType DEF Reconstructed, Scatter, Quantized
  <2> HIDE DEF s
  <2>4. PICK k \in {1, -1} : v[t] = k * s
    BY <1>1, <2>1, <2>2 DEF Abs
  <2>5. k * Level \in Int /\ k * s \in Int /\ v[t] * Level = (k * Level) * s
        /\ (k * Level) * s = (k * s) * Level
    BY <2>1, <2>4
  <2>6. Rounded(v[t] * Level, s) = k * Level
    BY <2>1, <2>5, RoundedExact
  <2>7. Reconstructed(v, compressed)[t] = Rounded((k * s) * Level, Level)
    BY <2>3, <2>5, <2>6
  <2>8. Reconstructed(v, compressed)[t] = v[t]
    BY <2>1, <2>4, <2>5, <2>7, RoundedExact
  <2> QED BY <1>1, <1>2, <2>8 DEF Abs
<1> QED BY <1>3, <1>4, <1>5

Contracted(w, v) == Coordinates * Weight(w) <= (Coordinates - 1) * Weight(v) + Coordinates

\* A transmission takes its share of the weight, up to the rounding of one coordinate.
LEMMA Contracts ==
    ASSUME NEW v \in Values, NEW compressed \in BOOLEAN, Coord # {}
    PROVE  Contracted(Left(v, compressed), v)
<1> DEFINE w == Left(v, compressed)
<1>1. w \in Values
  BY LeftType
<1>2. PICK t \in topk_indices(v) : \A c \in Coord : Abs(v[c]) <= Abs(v[t])
  BY LargestIsSent
<1>3. t \in Coord
  BY DEF topk_indices
<1>4. \A c \in Coord : Abs(w[c]) <= Abs(v[c])
  BY LeavesNoMore
<1>5. Abs(w[t]) <= 1
  BY <1>2, LargestGoes
<1> HIDE DEF w
<1>6. Weight(w) + Abs(v[t]) <= Weight(v) + 1
  BY <1>1, <1>3, <1>4, <1>5, WeightDrops
<1>7. Weight(v) <= Coordinates * Abs(v[t])
  BY <1>2, <1>3, LargestWeighs
<1>8. Weight(w) \in Nat /\ Weight(v) \in Nat /\ Abs(v[t]) \in Nat /\ Coordinates \in Nat
  BY <1>1, <1>3, WeightSums, WeightSplits, FS_CardinalityType, WireAssumption DEF Coordinates
<1> DEFINE N == Coordinates
           W == Weight(w)
           T == Weight(v)
           m == Abs(v[t])
<1> HIDE DEF N, W, T, m
<1>9. N \in Nat /\ W \in Nat /\ T \in Nat /\ m \in Nat /\ W + m <= T + 1 /\ T <= N * m
  BY <1>6, <1>7, <1>8 DEF N, W, T, m
<1>10. (W + m) * N <= (T + 1) * N
  BY <1>9, ProductGrows
<1>11. /\ (W + m) * N = N * W + N * m /\ (T + 1) * N = N * T + N
       /\ (N - 1) * T = N * T - T
       /\ N * W \in Int /\ N * m \in Int /\ N * T \in Int
  BY <1>9
<1>12. N * W <= (N - 1) * T + N
  BY <1>9, <1>10, <1>11
<1> QED BY <1>12 DEF Contracted, N, W, T, w

\* Squares are ordered as their roots.
LEMMA SquaresGrow ==
    ASSUME NEW a \in Nat, NEW b \in Nat, a * a <= b * b
    PROVE  a <= b
<1>1. b + 1 <= a => (b + 1) * a <= a * a /\ (b + 1) * (b + 1) <= a * (b + 1)
  BY ProductGrows
<1>2. (b + 1) * a = a * (b + 1) /\ (b + 1) * (b + 1) = b * b + 2 * b + 1
      /\ a * a \in Int /\ b * b \in Int /\ a * (b + 1) \in Int
  OBVIOUS
<1>3. ~(b + 1 <= a)
  <2> SUFFICES ASSUME b + 1 <= a PROVE FALSE
    OBVIOUS
  <2> DEFINE A == a * a
             B == b * b
             C == a * (b + 1)
  <2>1. A \in Int /\ B \in Int /\ C \in Int /\ A <= B /\ C <= A /\ B + 2 * b + 1 <= C
    BY <1>1, <1>2
  <2> HIDE DEF A, B, C
  <2> QED BY <2>1
<1> QED BY <1>3

\* No coordinate of a delta exceeds its length.
LEMMA BelowLength ==
    ASSUME NEW d, d.values \in Values, IsFiniteSet(d.tensors), d.tensors # {}, NEW c \in Coord
    PROVE  d.values[c] * d.values[c] <= Dot(d, d) /\ Dot(d, d) \in Nat
<1> DEFINE g == Squares(d)
           k == Cardinality(d.tensors)
<1>1. g \in [Coord -> Nat] /\ g \in [Coord -> Int] /\ g[c] = d.values[c] * d.values[c]
  BY SquareType DEF Squares, Values
<1>2. k \in Nat /\ 1 <= k
  BY FS_CardinalityType, FS_EmptySet
<1>3. PICK h : SumsUp(h, g, Coord) /\ Dot(d, d) = Cardinality(d.tensors) * h[Coord]
  <2> HIDE DEF g
  <2>1. \E h : SumsUp(h, g, Coord)
    BY <1>1, SumExists, WireAssumption
  <2> QED BY <2>1, DotUnfolds DEF g
<1> HIDE DEF g, k
<1>4. h \in [SUBSET Coord -> Nat]
  <2>1. 0 \in Nat /\ \A x, y \in Nat : x + y \in Nat
    OBVIOUS
  <2> QED BY <1>1, <1>3, <2>1, SumType, WireAssumption
<1>5. h \in [SUBSET Coord -> Int]
  BY <1>4
<1>6. h[Coord] = g[c] + h[Coord \ {c}] /\ h[Coord] \in Nat /\ h[Coord \ {c}] \in Nat
  <2>1. Splits(h, g, Coord)
    BY <1>1, <1>3, <1>5, SumSplits, WireAssumption
  <2>2. h[Coord] \in Nat /\ h[Coord \ {c}] \in Nat
    BY <1>4
  <2> QED BY <2>1, <2>2 DEF Splits
<1>7. g[c] <= h[Coord]
  BY <1>1, <1>6
<1>8. 1 * h[Coord] <= k * h[Coord] /\ k * h[Coord] \in Nat /\ 1 * h[Coord] = h[Coord]
  BY <1>2, <1>6, ProductGrows
<1>9. Dot(d, d) = k * h[Coord]
  BY <1>3 DEF k
<1> QED BY <1>1, <1>6, <1>7, <1>8, <1>9

\* No coordinate of a clipped delta exceeds the norm it is clipped to.
LEMMA ClippingBounds ==
    ASSUME NEW S, IsFiniteSet(S), S # {}, NEW v \in Values, NEW c \in Coord
    PROVE  Abs(apply_clipping(Delta(S, v)).values[c]) <= MaxNorm
<1> DEFINE d == Delta(S, v)
           m == Abs(v[c])
<1>1. d.values = v /\ d.tensors = S /\ DOMAIN d = {"tensors", "values", "finite"}
  BY DEF Delta
<1>2. v[c] * v[c] <= Dot(d, d) /\ Dot(d, d) \in Nat
  <2> HIDE DEF d
  <2> QED BY <1>1, BelowLength
<1>3. v[c] \in Int /\ m \in Nat /\ m * m = v[c] * v[c] /\ MaxNorm \in Nat \ {0}
  BY WireAssumption DEF Values, Abs
<1>4. m * m <= Dot(d, d) /\ m * m \in Nat
  BY <1>2, <1>3
<1>5. CASE Dot(d, d) <= MaxNorm * MaxNorm
  <2>1. apply_clipping(d) = d
    BY <1>5 DEF apply_clipping
  <2>2. m <= MaxNorm
    <3> HIDE DEF d, m
    <3>1. MaxNorm * MaxNorm \in Nat
      BY <1>3
    <3>2. m * m <= MaxNorm * MaxNorm
      BY <1>2, <1>4, <1>5, <3>1
    <3> QED BY <1>3, <3>2, SquaresGrow
  <2> QED BY <1>1, <2>1, <2>2
<1>6. CASE ~(Dot(d, d) <= MaxNorm * MaxNorm)
  <2> DEFINE n == Norm(d)
             w == [x \in Coord |-> Rounded(v[x] * MaxNorm, n)]
  <2>1. Dot(d, d) \in Nat \ {0}
    <3>1. MaxNorm * MaxNorm \in Nat
      BY <1>3
    <3> HIDE DEF d
    <3> QED BY <1>2, <1>6, <3>1
  <2>2. n \in Nat \ {0}
    <3> HIDE DEF d
    <3> QED BY <2>1, NormType
  <2>3. Dot(d, d) <= n * n /\ n * n \in Nat
    <3> HIDE DEF d
    <3> DEFINE D == Dot(d, d)
               T == {i \in 0..D : i * i >= D}
    <3>1. D * D >= D /\ D \in 0..D
      <4> HIDE DEF D
      <4>1. D \in Nat \ {0}
        BY <2>1 DEF D
      <4> QED BY <4>1
    <3>2. T \in SUBSET Nat /\ T # {}
      <4>1. D \in T /\ 0..D \subseteq Nat
        BY <3>1
      <4> QED BY <4>1
    <3>3. Min(T) \in T
      <4> HIDE DEF T
      <4> QED BY <3>2, LeastNumber
    <3>4. n = Min(T)
      BY DEF Norm
    <3> HIDE DEF n
    <3> QED BY <2>2, <3>3, <3>4
  <2>4. m <= n
    <3> HIDE DEF d, m, n
    <3>1. m * m <= n * n
      BY <1>2, <1>4, <2>3
    <3> QED BY <1>3, <2>2, <3>1, SquaresGrow
  <2>5. Rounded(v[c] * MaxNorm, n) \in (-MaxNorm)..MaxNorm
    <3> HIDE DEF d, n
    <3> QED BY <1>3, <2>2, <2>4, RoundedFits DEF m
  <2>6. apply_clipping(d) = [d EXCEPT !.values = w]
    BY <1>1, <1>6 DEF apply_clipping
  <2> HIDE DEF d
  <2>7. apply_clipping(d).values = w
    BY <1>1, <2>6
  <2>8. w[c] \in (-MaxNorm)..MaxNorm
    BY <2>5
  <2>9. Abs(w[c]) <= MaxNorm
    <3> HIDE DEF w
    <3> QED BY <1>3, <2>8 DEF Abs
  <2> QED BY <2>7, <2>9 DEF d
<1> QED BY <1>5, <1>6

-------------------------------------------------------------------------------
(* The residual stays bounded.                                             *)

\* What the residual weighs at most: each round adds MaxNorm to a coordinate at most, and the
\* largest one goes.
ResidualBound == Coordinates * ((Coordinates - 1) * MaxNorm + 1)

LEMMA BoundType ==
    /\ Coordinates \in Nat /\ MaxNorm \in Nat \ {0}
    /\ ResidualBound \in Nat
    /\ Coordinates = 0 <=> Coord = {}
<1>1. /\ Coordinates \in Nat /\ MaxNorm \in Nat \ {0}
      /\ Coordinates = 0 <=> Coord = {}
  BY FS_CardinalityType, FS_EmptySet, WireAssumption DEF Coordinates
<1>2. CASE Coordinates = 0
  BY <1>1, <1>2 DEF ResidualBound
<1>3. CASE Coordinates # 0
  <2>1. Coordinates - 1 \in Nat
    BY <1>1, <1>3
  <2>2. (Coordinates - 1) * MaxNorm + 1 \in Nat
    BY <1>1, <2>1
  <2> QED BY <1>1, <2>2 DEF ResidualBound
<1> QED BY <1>1, <1>2, <1>3

\* The bound is where a round takes as much as it adds.
LEMMA BoundIsKept ==
    ASSUME NEW v \in Values, NEW compressed \in BOOLEAN,
           Weight(v) <= ResidualBound + Coordinates * MaxNorm
    PROVE  Weight(Left(v, compressed)) <= ResidualBound
<1> DEFINE N == Coordinates
           W == Weight(Left(v, compressed))
           T == Weight(v)
           B == ResidualBound
           M == MaxNorm
           K == (N - 1) * M
<1>1. W \in Nat /\ T \in Nat /\ N \in Nat /\ B \in Nat /\ M \in Nat
  BY WeightSums, LeftType, BoundType
<1>2. T <= B + N * M
  OBVIOUS
<1>3. CASE Coord = {}
  <2>1. N = 0
    BY <1>3, BoundType
  <2>2. Left(v, compressed) \in Values /\ \A c \in Coord : Abs(Left(v, compressed)[c]) <= Abs(Zero[c]) + 0
    BY <1>3, LeftType
  <2>3. W <= Weight(Zero) + N * 0
    BY <2>2, WeightGrows, WeightOfZero
  <2> HIDE DEF N, W, T, B, M
  <2>4. W <= B
    BY <1>1, <2>1, <2>3, WeightOfZero
  <2> QED BY <2>4 DEF W, B
<1>4. CASE Coord # {}
  <2>1. N * W <= (N - 1) * T + N
    BY <1>4, Contracts DEF Contracted
  <2>2. N # 0 /\ B = N * (K + 1)
    BY <1>4, BoundType DEF ResidualBound
  <2> HIDE DEF N, W, T, B, M
  <2>3. N - 1 \in Nat /\ K \in Int /\ N * M \in Nat
    BY <1>1, <2>2
  <2>4. T * (N - 1) <= (B + N * M) * (N - 1)
    BY <1>1, <1>2, <2>3, ProductGrows
  <2>5. (N - 1) * T = T * (N - 1)
    BY <1>1, <2>3
  <2>6. (B + N * M) * (N - 1) = N * B - B + N * K
    <3>1. (B + N * M) * (N - 1) = B * (N - 1) + (N * M) * (N - 1)
      BY <1>1, <2>3
    <3>2. B * (N - 1) = N * B - B
      BY <1>1
    <3>3. (N * M) * (N - 1) = N * ((N - 1) * M)
      BY <1>1
    <3>4. (N * M) * (N - 1) = N * K
      BY <3>3
    <3> HIDE DEF K
    <3> QED BY <3>1, <3>2, <3>4
  <2> HIDE DEF K
  <2>7. N * (K + 1) = N * K + N /\ N * K \in Int /\ N * B \in Int /\ N * W \in Int
        /\ (N - 1) * T \in Int
    BY <1>1, <2>3
  <2>8. N * W <= N * B
    <3> DEFINE NK == N * K
               NB == N * B
               NW == N * W
               NT == (N - 1) * T
    <3>1. NK \in Int /\ NB \in Int /\ NW \in Int /\ NT \in Int
      BY <2>7
    <3>2. NW <= NT + N /\ NT <= NB - B + NK /\ B = NK + N
      BY <2>1, <2>2, <2>4, <2>5, <2>6, <2>7
    <3> HIDE DEF NK, NB, NW, NT
    <3>3. NW <= NB
      BY <1>1, <3>1, <3>2
    <3> QED BY <3>3 DEF NW, NB
  <2>9. ~(B + 1 <= W)
    <3>1. B + 1 <= W => (B + 1) * N <= W * N
      BY <1>1, ProductGrows
    <3>2. (B + 1) * N = N * B + N /\ W * N = N * W
      BY <1>1
    <3>3. N * B \in Int /\ N * W \in Int
      BY <2>7
    <3> DEFINE NB == N * B
               NW == N * W
    <3>4. NB \in Int /\ NW \in Int /\ NW <= NB /\ (B + 1 <= W => NB + N <= NW)
      BY <2>8, <3>1, <3>2, <3>3
    <3> HIDE DEF NB, NW
    <3> QED BY <1>1, <2>2, <3>4
  <2>10. W <= B
    BY <1>1, <2>9
  <2> QED BY <2>10 DEF W, B
<1> QED BY <1>3, <1>4

\* A round adds what it learned, clipped, to a residual within the bound.
Light ==
    /\ Weight(error.values) <= ResidualBound
    /\ InRound => Weight(dense.values) <= ResidualBound + Coordinates * MaxNorm

LEMMA InitLight == Init => Light
<1>1. 0 <= ResidualBound
  BY BoundType
<1> QED BY <1>1, WeightOfZero DEF Init, Light, InRound, Computed, Aggregating, Closing

LEMMA TrainedLight ==
    ASSUME EngineInv, Light, NEW d \in DeltaType, Trained(d),
           \A c \in Coord : Abs(d.values[c]) <= MaxNorm
    PROVE  Light'
<1>1. d.values \in Values /\ error.values \in Values
  BY DEF EngineInv, TypeOK, DeltaType
<1>2. error' = error /\ dense' = WithResidual(d)
  BY DEF Trained, diskVars
<1>3. /\ Coordinates \in Nat /\ MaxNorm \in Nat /\ ResidualBound \in Nat
      /\ Coordinates * MaxNorm \in Nat
  <2>1. Coordinates \in Nat /\ MaxNorm \in Nat /\ ResidualBound \in Nat
    BY BoundType
  <2> QED BY <2>1
<1>4. Weight(error.values) <= ResidualBound /\ Weight(error.values) \in Nat
  BY <1>1, WeightSums DEF Light
<1>5. CASE dense'.values = d.values
  <2>1. \A c \in Coord : Abs(d.values[c]) <= Abs(Zero[c]) + MaxNorm
    <3>1. \A c \in Coord : Abs(Zero[c]) = 0 /\ Abs(d.values[c]) \in Nat
      BY <1>1, MagnitudeType DEF Zero, Abs, Values
    <3> QED BY <1>3, <3>1
  <2>2. Weight(d.values) <= Weight(Zero) + Coordinates * MaxNorm
    BY <1>1, <1>3, <2>1, WeightGrows, WeightOfZero
  <2>3. Weight(d.values) <= ResidualBound + Coordinates * MaxNorm
    BY <1>1, <1>3, <2>2, WeightOfZero, WeightSums
  <2> QED BY <1>2, <1>4, <1>5, <2>3 DEF Light
<1>6. CASE dense'.values = Plus(d.values, error.values)
  <2> DEFINE w == Plus(d.values, error.values)
  <2>1. w \in Values
    BY <1>1, PlusMinusType
  <2>2. \A c \in Coord : Abs(w[c]) <= Abs(error.values[c]) + MaxNorm
    BY <1>1, <1>3 DEF Plus, Values, Abs
  <2> HIDE DEF w
  <2>3. Weight(w) <= Weight(error.values) + Coordinates * MaxNorm /\ Weight(w) \in Nat
    BY <1>1, <1>3, <2>1, <2>2, WeightGrows, WeightSums
  <2>4. Weight(w) <= ResidualBound + Coordinates * MaxNorm
    BY <1>3, <1>4, <2>3
  <2> QED BY <1>2, <1>4, <1>6, <2>4 DEF Light, w
<1>7. dense'.values \in {d.values, Plus(d.values, error.values)}
  BY <1>1, <1>2 DEF WithResidual, Resumes, DeltaType
<1> QED BY <1>5, <1>6, <1>7

LEMMA NextLight == EngineInv /\ Light /\ [Next]_vars => Light'
<1> SUFFICES ASSUME EngineInv, Light, [Next]_vars PROVE Light'
  OBVIOUS
<1> USE DEF InRound, Computed, Aggregating, Closing, memVars, stateVars, diskVars, auxVars, bounds
<1>1. \A c \in Coord : Abs(Zero[c]) <= MaxNorm
  <2>1. 0 <= MaxNorm
    BY BoundType
  <2> QED BY <2>1 DEF Zero, Abs
<1>2. CASE Train
  <2>1. PICK move \in Move : Trained(apply_clipping(Delta(Tensor, move)))
    BY <1>2 DEF Train
  <2>2. move \in Values /\ IsFiniteSet(Tensor) /\ Tensor # {}
    BY EngineAssumption
  <2>3. apply_clipping(Delta(Tensor, move)) \in DeltaType
    BY <2>2, ClippingType DEF DeltaType
  <2>4. \A c \in Coord : Abs(apply_clipping(Delta(Tensor, move)).values[c]) <= MaxNorm
    BY <2>2, ClippingBounds
  <2> QED BY <2>1, <2>3, <2>4, TrainedLight
<1>3. CASE TrainDiverging \/ TrainNoSteps
  <2>1. PICK d \in {Diverged(Tensor), Delta({Dummy}, Zero)} : Trained(d)
    BY <1>3 DEF TrainDiverging, TrainNoSteps
  <2>2. d.values = Zero
    BY <2>1 DEF Diverged, Delta
  <2>3. \/ d \in [tensors : {Tensor}, values : Values, finite : {FALSE}]
        \/ d \in [tensors : {{Dummy}}, values : Values, finite : {TRUE}]
    BY <2>1, TrainedType
  <2>4. d \in DeltaType
    BY <2>3 DEF DeltaType
  <2>5. \A c \in Coord : Abs(d.values[c]) <= MaxNorm
    BY <1>1, <2>2
  <2> QED BY <2>1, <2>4, <2>5, TrainedLight
<1>4. CASE SaveError
  <2>1. pc = "SavingError" /\ pc' = "ErrorSaved" /\ error'.values = NewError /\ dense' = dense
    BY <1>4 DEF SaveError
  <2>2. dense.values \in Values /\ setting.compression \in BOOLEAN
    BY SettingType DEF EngineInv, TypeOK, DeltaType
  <2>3. Weight(dense.values) <= ResidualBound + Coordinates * MaxNorm
    BY <2>1 DEF Light
  <2>4. NewError = Left(dense.values, setting.compression)
    BY DEF NewError, Transmission, Left
  <2>5. Weight(error'.values) <= ResidualBound
    BY <2>1, <2>2, <2>3, <2>4, BoundIsKept
  <2> QED BY <2>1, <2>3, <2>5 DEF Light
<1>5. CASE OpenError \/ OpenBase \/ SaveBase \/ SaveSync \/ OpenState \/ SaveState
  <2>1. InRound /\ error' = error /\ dense' = dense
    BY <1>5 DEF OpenError, OpenBase, SaveBase, SaveSync, OpenState, SaveState, Open
  <2> QED BY <2>1 DEF Light
<1>6. CASE \/ Begin \/ FetchModel \/ ModelFetched \/ ReadState \/ Output
           \/ Die \/ FailToLoad \/ FailToEncode \/ FailToDecode
  <2>1. error' = error /\ ~InRound'
    BY <1>6 DEF Begin, FetchModel, ModelFetched, ReadState, Output, Die, FailToLoad, FailToEncode,
       FailToDecode, Open, Stop, Forget
  <2> QED BY <2>1 DEF Light
<1>7. CASE UNCHANGED vars
  BY <1>7 DEF vars, Light
<1> QED BY <1>2, <1>3, <1>4, <1>5, <1>6, <1>7 DEF Next

\* However many rounds there are, and whichever of them fail, what waits in the residual stays
\* below one bound, which sparsity, quantisation and the number of rounds are not in: error
\* feedback cannot pile up values without end, since each transmission takes the largest of them
\* and leaves no other larger than it was.  The bound needs both the clipping of the own delta
\* (privacy.py, ml_engine.py) and the choice by magnitude.
THEOREM ResidualStaysBounded == Spec => [](\A c \in Coord : Abs(error.values[c]) <= ResidualBound)
<1>1. EngineInv /\ Light => \A c \in Coord : Abs(error.values[c]) <= ResidualBound
  <2> SUFFICES ASSUME EngineInv, Light, NEW c \in Coord
               PROVE  Abs(error.values[c]) <= ResidualBound
    OBVIOUS
  <2>1. error.values \in Values
    BY DEF EngineInv, TypeOK
  <2>2. /\ Weight(error.values) = Abs(error.values[c]) + PartWeight(error.values)[Coord \ {c}]
        /\ Abs(error.values[c]) \in Nat /\ PartWeight(error.values)[Coord \ {c}] \in Nat
    BY <2>1, WeightSplits
  <2>3. Weight(error.values) <= ResidualBound
    BY DEF Light
  <2> QED BY <2>2, <2>3, BoundType
<1>2. Init => EngineInv /\ Light
  BY InitEngine, InitLight
<1>3. EngineInv /\ Light /\ [Next]_vars => (EngineInv /\ Light)'
  BY NextEngine, NextLight
<1> QED BY <1>1, <1>2, <1>3, PTL DEF Spec

-------------------------------------------------------------------------------
(* What a failed round costs.                                              *)

\* What a transmission may hold at most.
LapseCost == ResidualBound + Coordinates * MaxNorm

Within(v, n) == \A c \in Coord : Abs(v[c]) <= n

\* The lapse of a round without steps has been counted before its residual is lost.
Losses ==
    setting.compression =>
        /\ Within(lost, lapses * LapseCost)
        /\ pc \in Computed /\ ~Resumes(delta) =>
               lapses # 0 /\ Within(lost, (lapses - 1) * LapseCost)

LEMMA CostType == LapseCost \in Nat /\ ResidualBound \in Nat /\ ResidualBound <= LapseCost
<1>1. Coordinates \in Nat /\ MaxNorm \in Nat /\ ResidualBound \in Nat
  BY BoundType
<1>2. Coordinates * MaxNorm \in Nat
  BY <1>1
<1> QED BY <1>1, <1>2 DEF LapseCost

\* The bounds of n lapses and of one more.
LEMMA CostAdds ==
    ASSUME NEW n \in Nat
    PROVE  /\ n * LapseCost \in Nat
           /\ (n + 1) * LapseCost = n * LapseCost + LapseCost
           /\ n # 0 => (n - 1) * LapseCost \in Nat
                       /\ n * LapseCost = (n - 1) * LapseCost + LapseCost
<1>1. LapseCost \in Nat
  BY CostType
<1>2. n * LapseCost \in Nat /\ (n + 1) * LapseCost = n * LapseCost + LapseCost
  BY <1>1
<1>3. CASE n # 0
  <2>1. n - 1 \in Nat
    BY <1>3
  <2>2. (n - 1) * LapseCost \in Nat /\ n * LapseCost = (n - 1) * LapseCost + LapseCost
    BY <1>1, <2>1
  <2> QED BY <1>2, <2>2
<1> QED BY <1>2, <1>3

LEMMA WithinGrows ==
    ASSUME NEW v \in Values, NEW m \in Nat, NEW n \in Nat, Within(v, m), m <= n
    PROVE  Within(v, n)
<1>1. \A c \in Coord : Abs(v[c]) \in Nat /\ Abs(v[c]) <= m
  BY MagnitudeType DEF Within, Values
<1> QED BY <1>1 DEF Within

LEMMA WithinAdds ==
    ASSUME NEW v \in Values, NEW w \in Values, NEW m \in Nat, NEW n \in Nat,
           Within(v, m), Within(w, n)
    PROVE  Within(Plus(v, w), m + n)
<1>1. ASSUME NEW c \in Coord PROVE Abs(Plus(v, w)[c]) <= m + n
  <2>1. /\ v[c] \in Int /\ w[c] \in Int /\ Plus(v, w)[c] = v[c] + w[c]
        /\ Abs(v[c]) <= m /\ Abs(w[c]) <= n
    BY DEF Values, Plus, Within
  <2> QED BY <2>1 DEF Abs
<1> QED BY <1>1 DEF Within

\* No value of light values is large.
LEMMA LightValues ==
    ASSUME NEW v \in Values, NEW n \in Nat, Weight(v) <= n
    PROVE  Within(v, n)
<1>1. ASSUME NEW c \in Coord PROVE Abs(v[c]) <= n
  <2>1. /\ Weight(v) = Abs(v[c]) + PartWeight(v)[Coord \ {c}]
        /\ Abs(v[c]) \in Nat /\ PartWeight(v)[Coord \ {c}] \in Nat
    BY WeightSplits
  <2> QED BY <2>1
<1> QED BY <1>1 DEF Within

\* Quantising makes nothing larger than the largest value (quantization.py): what a peer decodes
\* is within the bound the encoded values are within.
THEOREM QuantisedWithin ==
    ASSUME NEW v \in Values, NEW n \in Nat, Within(v, n)
    PROVE  Within(Reconstructed(v, TRUE), n)
<1>1. \A c \in Coord : Abs(v[c]) <= n
  BY DEF Within
<1>2. DOMAIN Quantized(v) = topk_indices(v) /\ topk_indices(v) \subseteq Coord
  BY QuantizedType
<1>3. ASSUME NEW c \in Coord PROVE Abs(Reconstructed(v, TRUE)[c]) <= n
  <2> DEFINE y == Reconstructed(v, TRUE)[c]
  <2>1. CASE c \notin topk_indices(v)
    <3>1. y = 0
      BY <1>2, <2>1 DEF Reconstructed, Scatter
    <3> HIDE DEF y
    <3>2. Abs(y) <= n
      BY <3>1 DEF Abs
    <3> QED BY <3>2 DEF y
  <2>2. CASE c \in topk_indices(v)
    <3> DEFINE x == Quantized(v)[c]
               s == Scale(v)
    <3>1. y = Rounded(x * s, Level)
      BY <1>2, <2>2 DEF Reconstructed, Scatter
    <3>2. x \in (-Level)..Level /\ s \in Nat /\ Level \in Nat \ {0}
      BY <2>2, QuantizedFits, ScaleType, WireAssumption
    <3>3. CASE Max(Magnitude(v)) # 0
      <4>1. s = Max(Magnitude(v)) /\ Max(Magnitude(v)) \in Magnitude(v)
        BY <3>3, LargestMagnitude DEF Scale, Magnitude
      <4>2. s <= n
        BY <1>1, <1>2, <3>3, <4>1 DEF Magnitude
      <4> HIDE DEF x, s, y
      <4>3. Abs(x) <= Level
        BY <3>2 DEF Abs
      <4>4. Rounded(x * s, Level) \in (-s)..s
        BY <3>2, <4>3, RoundedFits
      <4>5. Abs(y) <= n
        BY <3>1, <3>2, <4>2, <4>4 DEF Abs
      <4> QED BY <4>5 DEF y
    <3>4. CASE Max(Magnitude(v)) = 0
      <4>1. Abs(v[c]) <= 0 /\ v[c] \in Int
        BY <1>2, <2>2, <3>4, LargestMagnitude DEF Magnitude, Values
      <4>2. v[c] = 0
        BY <4>1 DEF Abs
      <4>3. Rounded(0, s) = 0 /\ Rounded(0, Level) = 0
        <5>1. s \in Nat \ {0} /\ Level \in Nat \ {0} /\ 0 * s = 0 /\ 0 * Level = 0
          BY ScaleType, WireAssumption
        <5> HIDE DEF s
        <5>2. Rounded(0 * s, s) = 0 /\ Rounded(0 * Level, Level) = 0
          BY <5>1, RoundedExact
        <5> QED BY <5>1, <5>2
      <4>4. x = 0
        <5>1. x = Rounded(0 * Level, s) /\ 0 * Level = 0
          BY <2>2, <3>2, <4>2 DEF Quantized
        <5> QED BY <4>3, <5>1
      <4> HIDE DEF x, s, y
      <4>5. y = 0
        BY <3>1, <3>2, <4>3, <4>4
      <4>6. Abs(y) <= n
        BY <4>5 DEF Abs
      <4> QED BY <4>6 DEF y
    <3> QED BY <3>3, <3>4
  <2> QED BY <2>1, <2>2
<1> QED BY <1>3 DEF Within

LEMMA InitLosses == Init => Losses
<1> SUFFICES ASSUME Init PROVE Losses
  OBVIOUS
<1>1. lost = Zero /\ lapses = 0 /\ pc = "Idle" /\ 0 * LapseCost \in Nat
  BY CostAdds DEF Init
<1>2. Within(lost, lapses * LapseCost)
  BY <1>1 DEF Within, Zero, Abs
<1> QED BY <1>1, <1>2 DEF Losses, Computed

\* Only a round without steps does not resume the residual, and it has counted a lapse.
LEMMA TrainingLosses ==
    ASSUME EngineInv, Losses, Train \/ TrainDiverging \/ TrainNoSteps
    PROVE  Losses'
<1> SUFFICES ASSUME setting'.compression PROVE Losses'
  BY DEF Losses
<1>1. /\ pc' = "Trained" /\ setting' = setting /\ lost' = lost /\ error' = error
      /\ \/ delta'.tensors = Tensor /\ lapses' = lapses
         \/ lapses' = lapses + 1
  <2>1. \A move \in Move : apply_clipping(Delta(Tensor, move)).tensors = Tensor
    BY TrainedType
  <2> QED BY <2>1 DEF Train, TrainDiverging, TrainNoSteps, Trained, Diverged, diskVars
<1>2. Within(lost, lapses * LapseCost) /\ lapses \in Nat /\ lost \in Values
  BY <1>1 DEF Losses, EngineInv, TypeOK
<1>3. CASE delta'.tensors = Tensor /\ lapses' = lapses
  <2>1. error.finite
    BY <1>1 DEF EngineInv, Finite
  <2>2. Resumes(delta)'
    BY <1>1, <1>3, <2>1 DEF Resumes
  <2> QED BY <1>1, <1>2, <1>3, <2>2 DEF Losses
<1>4. CASE lapses' = lapses + 1
  <2> DEFINE n == lapses * LapseCost
             m == (lapses + 1) * LapseCost
  <2>1. n \in Nat /\ m = n + LapseCost /\ LapseCost \in Nat
    BY <1>2, CostAdds, CostType
  <2>2. Within(lost, n)
    BY <1>2
  <2> HIDE DEF n, m
  <2>3. m \in Nat /\ n <= m
    BY <2>1
  <2>4. Within(lost, m)
    BY <1>2, <2>1, <2>2, <2>3, WithinGrows
  <2>5. lapses' # 0 /\ lapses' - 1 = lapses
    BY <1>2, <1>4
  <2> QED BY <1>1, <1>2, <1>4, <2>4, <2>5 DEF Losses, m
<1> QED BY <1>1, <1>3, <1>4

LEMMA SavingLosses ==
    ASSUME EngineInv, Light, Losses, SaveError
    PROVE  Losses'
<1> SUFFICES ASSUME setting'.compression PROVE Losses'
  BY DEF Losses
<1> USE DEF Computed
<1>1. /\ pc = "SavingError" /\ pc' = "ErrorSaved" /\ setting' = setting /\ lapses' = lapses
      /\ lost' = IF Resumes(delta) THEN lost ELSE Plus(lost, error.values)
  BY DEF SaveError
<1>2. lost \in Values /\ error.values \in Values /\ lapses \in Nat
  BY DEF EngineInv, TypeOK
<1>3. CASE Resumes(delta)
  BY <1>1, <1>3 DEF Losses
<1>4. CASE ~Resumes(delta)
  <2> DEFINE m == (lapses - 1) * LapseCost
             n == lapses * LapseCost
  <2>1. lapses # 0 /\ Within(lost, m)
    BY <1>1, <1>4 DEF Losses
  <2>2. m \in Nat /\ n = m + LapseCost
    BY <1>2, <2>1, CostAdds
  <2>3. Within(error.values, ResidualBound)
    BY <1>2, CostType, LightValues DEF Light
  <2>4. Within(error.values, LapseCost)
    BY <1>2, <2>3, CostType, WithinGrows
  <2> HIDE DEF m, n
  <2>5. Within(Plus(lost, error.values), m + LapseCost)
    BY <1>2, <2>1, <2>2, <2>4, CostType, WithinAdds
  <2>6. Within(lost', n)
    BY <1>1, <1>4, <2>2, <2>5
  <2> QED BY <1>1, <2>6 DEF Losses, n
<1> QED BY <1>3, <1>4

\* A round that fails after the residual was replaced has cost a transmission.
LEMMA StoppingLosses ==
    ASSUME EngineInv, Light, Losses, Die \/ FailToLoad \/ FailToEncode \/ FailToDecode
    PROVE  Losses'
<1> SUFFICES ASSUME setting'.compression PROVE Losses'
  BY DEF Losses
<1>1. /\ pc' = "Idle" /\ setting' = setting /\ lapses' = lapses + 1
      /\ lost' = IF ErrorReplaced THEN Plus(lost, Transmission) ELSE lost
  BY DEF Die, FailToLoad, FailToEncode, FailToDecode, Stop, Forget
<1>2. /\ lost \in Values /\ dense.values \in Values /\ Transmission \in Values
      /\ lapses \in Nat /\ setting.compression = TRUE
  BY <1>1, BookTypes, SettingType DEF EngineInv, TypeOK
<1> DEFINE n == lapses * LapseCost
           m == (lapses + 1) * LapseCost
<1>3. n \in Nat /\ m = n + LapseCost /\ LapseCost \in Nat
  BY <1>2, CostAdds, CostType
<1>4. Within(lost, n)
  BY <1>1 DEF Losses
<1>5. ErrorReplaced => Within(Transmission, LapseCost)
  <2> SUFFICES ASSUME ErrorReplaced PROVE Within(Transmission, LapseCost)
    OBVIOUS
  <2>1. Weight(dense.values) <= LapseCost
    BY DEF Light, LapseCost, ErrorReplaced, InRound, Aggregating, Closing
  <2>2. Within(dense.values, LapseCost)
    BY <1>2, <1>3, <2>1, LightValues
  <2> QED BY <1>2, <1>3, <2>2, QuantisedWithin DEF Transmission
<1> HIDE DEF n, m
<1>6. Within(lost', m)
  <2>1. CASE ErrorReplaced
    BY <1>1, <1>2, <1>3, <1>4, <1>5, <2>1, WithinAdds
  <2>2. CASE ~ErrorReplaced
    <3>1. m \in Nat /\ n <= m
      BY <1>3
    <3> QED BY <1>1, <1>2, <1>3, <1>4, <2>2, <3>1, WithinGrows
  <2> QED BY <2>1, <2>2
<1> QED BY <1>1, <1>6 DEF Losses, Computed, m

LEMMA NextLosses == EngineInv /\ Light /\ Losses /\ [Next]_vars => Losses'
<1> SUFFICES ASSUME EngineInv, Light, Losses, [Next]_vars PROVE Losses'
  OBVIOUS
<1> USE DEF Computed, memVars, stateVars, diskVars, auxVars, bounds
<1>1. CASE \/ Begin \/ FetchModel \/ ModelFetched \/ ReadState \/ Output
           \/ OpenError \/ OpenBase \/ SaveBase \/ SaveSync \/ OpenState \/ SaveState
           \/ UNCHANGED vars
  <2>1. /\ UNCHANGED <<setting, lapses, lost>>
        /\ pc' \in Computed => pc \in Computed /\ UNCHANGED <<delta, error>>
    BY <1>1 DEF Begin, FetchModel, ModelFetched, ReadState, Output, OpenError, OpenBase, SaveBase,
       SaveSync, OpenState, SaveState, Open, Forget, vars
  <2> QED BY <2>1 DEF Losses, Resumes
<1> QED BY <1>1, TrainingLosses, SavingLosses, StoppingLosses DEF Next

\* Whatever dies when, and however many rounds there are: with compression, what was learned is
\* what was transmitted and what the residual keeps, but for at most one transmission for each
\* round that failed or took no steps, and the bound of one is that of any other (ml_engine.py:
\* the residual is replaced before the delta leaves).
THEOREM LapsesCostARound ==
    Spec => [](setting.compression /\ pc = "Idle" =>
                   \A c \in Coord : Abs(owed[c] - error.values[c]) <= lapses * LapseCost)
<1>1. EngineInv /\ Books /\ Losses =>
          (setting.compression /\ pc = "Idle" =>
               \A c \in Coord : Abs(owed[c] - error.values[c]) <= lapses * LapseCost)
  <2> SUFFICES ASSUME EngineInv, Books, Losses, setting.compression, pc = "Idle", NEW c \in Coord
               PROVE  Abs(owed[c] - error.values[c]) <= lapses * LapseCost
    OBVIOUS
  <2>1. owed = Plus(error.values, lost) /\ Within(lost, lapses * LapseCost)
    BY DEF Books, Before, Losses
  <2>2. error.values[c] \in Int /\ lost[c] \in Int
    BY BookTypes DEF Values
  <2>3. owed[c] - error.values[c] = lost[c]
    BY <2>1, <2>2 DEF Plus
  <2> QED BY <2>1, <2>3 DEF Within
<1>2. Init => EngineInv /\ Light /\ Losses
  BY InitEngine, InitLight, InitLosses
<1>3. EngineInv /\ Light /\ Losses /\ [Next]_vars => (EngineInv /\ Light /\ Losses)'
  BY NextEngine, NextLight, NextLosses
<1> QED BY <1>1, <1>2, <1>3, BooksHold, PTL DEF Spec

-------------------------------------------------------------------------------
(* What the encoder accepts and the decoder refuses.                       *)

Encoded ==
    pc \in {"SavingError", "ErrorSaved"} =>
        Encodable(dense, setting.compression, setting.max_payload)

LEMMA EncodedHolds == Spec => []Encoded
<1>1. Init => Encoded
  BY DEF Init, Encoded
<1>2. Encoded /\ [Next]_vars => Encoded'
  <2> SUFFICES ASSUME Encoded, [Next]_vars PROVE Encoded'
    OBVIOUS
  <2>1. CASE OpenError
    BY <2>1 DEF OpenError, Open, Encoded, memVars
  <2>2. CASE SaveError
    BY <2>2 DEF SaveError, Encoded, memVars
  <2>3. CASE UNCHANGED vars
    BY <2>3 DEF vars, memVars, Encoded
  <2>4. CASE \/ Begin \/ FetchModel \/ ModelFetched \/ ReadState
             \/ Train \/ TrainDiverging \/ TrainNoSteps
             \/ OpenBase \/ SaveBase \/ SaveSync \/ OpenState \/ SaveState \/ Output
             \/ Die \/ FailToLoad \/ FailToEncode \/ FailToDecode
    <3>1. pc' \notin {"SavingError", "ErrorSaved"}
      BY <2>4 DEF Begin, FetchModel, ModelFetched, ReadState, Train, TrainDiverging, TrainNoSteps,
         Trained, OpenBase, SaveBase, SaveSync, OpenState, SaveState, Output, Die, FailToLoad,
         FailToEncode, FailToDecode, Open, Stop, Forget
    <3> QED BY <3>1 DEF Encoded
  <2> QED BY <2>1, <2>2, <2>3, <2>4 DEF Next
<1> QED BY <1>1, <1>2, PTL DEF Spec

\* What the decoder asks of a payload the encoder has let pass.
WithinLimits ==
    IF setting.compression
    THEN /\ Cardinality(dense.tensors) <= setting.max_tensors
         /\ Cardinality(dense.tensors) * Cardinality(Coord) <= setting.max_elements
    ELSE Size(payload) <= setting.max_payload

\* After the residual was replaced the own payload is refused for its size only: with compression
\* it has more tensors or more elements than the decoder allows, and the encoder does not look at
\* either; without compression it is too large (sparsification.py:70, 87, 99, 113-117).  Format,
\* scale and indices of an own payload are never refused.
THEOREM OwnPayloadDecodes == Spec => [](pc = "ErrorSaved" => (OwnDecodes <=> WithinLimits))
<1>1. EngineInv /\ Encoded => (pc = "ErrorSaved" => (OwnDecodes <=> WithinLimits))
  <2> SUFFICES ASSUME EngineInv, Encoded, pc = "ErrorSaved" PROVE OwnDecodes <=> WithinLimits
    OBVIOUS
  <2> DEFINE limits == [setting EXCEPT !.allow_legacy = TRUE]
  <2>1. /\ limits.allow_legacy /\ limits.max_payload = setting.max_payload
        /\ limits.max_tensors = setting.max_tensors
        /\ limits.max_elements = setting.max_elements /\ setting.compression \in BOOLEAN
    BY EngineAssumption DEF EngineInv, TypeOK
  <2>2. dense.values \in Values
    BY DEF EngineInv, TypeOK, DeltaType
  <2>3. OwnDecodes <=> Decodes(payload, limits)
    BY DEF OwnDecodes
  <2> HIDE DEF limits
  <2>4. CASE setting.compression
    <3>1. /\ payload.format = "v1" /\ payload.tensors = dense.tensors
          /\ payload.scale = Scale(dense.values) /\ payload.values = Quantized(dense.values)
          /\ payload = Envelope(dense, TRUE)
      BY <2>4 DEF payload, Envelope
    <3>2. Size(payload) <= setting.max_payload
      BY <2>4, <3>1 DEF Encoded, Encodable
    <3>3. payload.scale > 0 /\ DOMAIN payload.values \subseteq Coord
      BY <2>2, <3>1, ScaleType, QuantizedType
    <3> HIDE DEF payload
    <3> QED BY <2>1, <2>3, <2>4, <3>1, <3>2, <3>3 DEF Decodes, WithinLimits
  <2>5. CASE ~setting.compression
    <3>1. payload.format = "legacy"
      BY <2>5 DEF payload, Envelope
    <3> HIDE DEF payload
    <3> QED BY <2>1, <2>3, <2>5, <3>1 DEF Decodes, WithinLimits
  <2> QED BY <2>4, <2>5
<1> QED BY <1>1, EngineInvHolds, EncodedHolds, PTL

-------------------------------------------------------------------------------
(* The engine as the loop sees it.                                         *)

\* A run that has read state.json leaves it, empties it, or counts.
Counting ==
    pc \notin {"Idle", "Started", "Loading"} =>
        /\ round \in Nat \ {0}
        /\ IF pc = "StateSaved" THEN Kept = round ELSE Kept \in {0, round - 1}

LEMMA InitCounting == Init => Counting /\ Contract!Init
BY DEF Init, Counting, Kept, Found, Contract!Init

LEMMA NextCounting ==
    ASSUME TypeOK, Counting, [Next]_vars
    PROVE  /\ Counting'
           /\ [Contract!Next]_<<pc # "Idle", Found, announced>>
<1> DEFINE seen == <<pc # "Idle", Found, announced>>
<1>0. Kept \in Nat /\ round \in Nat
  BY DEF TypeOK, Kept
<1>1. CASE Begin
  <2>1. /\ pc = "Idle" /\ pc' = "Started"
        /\ UNCHANGED <<announced, round, state_round, broken>>
    BY <1>1 DEF Begin, memVars, diskVars, stateVars
  <2>2. UNCHANGED Found
    BY <2>1 DEF Found, Kept
  <2> QED BY <2>1, <2>2 DEF Counting, Contract!Next, Contract!Start
<1>2. CASE FetchModel \/ ModelFetched
  <2>1. /\ pc \in {"Started", "Loading"} /\ pc' \in {"Started", "Loading"}
        /\ UNCHANGED <<announced, round, state_round>>
        /\ "state" \in broken' <=> "state" \in broken
    BY <1>2 DEF FetchModel, ModelFetched, Open, memVars, stateVars
  <2> QED BY <2>1 DEF Counting, Found, Kept
<1>3. CASE ReadState
  <2>1. /\ pc = "Started" /\ pc' = "Training"
        /\ UNCHANGED <<announced, state_round, broken>>
        /\ round' = Kept + 1
    BY <1>3 DEF ReadState, NextRound, Kept
  <2>2. Kept' = Kept
    BY <2>1 DEF Kept
  <2>3. round' \in Nat \ {0} /\ round' - 1 = Kept
    BY <1>0, <2>1
  <2>4. Found' = Found
    BY <2>1, <2>3 DEF Found
  <2> QED BY <2>1, <2>2, <2>3, <2>4 DEF Counting
<1>4. CASE \/ Train \/ TrainDiverging \/ TrainNoSteps \/ OpenError \/ SaveError
           \/ OpenBase \/ SaveBase \/ SaveSync
  <2>1. /\ pc \notin {"Idle", "Started", "Loading", "StateSaved"}
        /\ pc' \notin {"Idle", "Started", "Loading", "StateSaved"}
        /\ UNCHANGED <<announced, round, state_round>>
        /\ "state" \in broken' <=> "state" \in broken
    BY <1>4 DEF Train, TrainDiverging, TrainNoSteps, Trained, OpenError, SaveError, OpenBase,
       SaveBase, SaveSync, Open, memVars, stateVars, diskVars
  <2> QED BY <2>1 DEF Counting, Found, Kept
<1>5. CASE OpenState
  <2>1. /\ pc = "Synced" /\ pc' = "SavingState" /\ "state" \in broken'
        /\ UNCHANGED <<announced, round>>
    BY <1>5 DEF OpenState, Open, memVars
  <2> QED BY <2>1 DEF Counting, Found, Kept
<1>6. CASE SaveState
  <2>1. /\ pc = "SavingState" /\ pc' = "StateSaved" /\ "state" \notin broken'
        /\ state_round' = round /\ UNCHANGED <<announced, round>>
    BY <1>6 DEF SaveState, memVars
  <2> QED BY <2>1 DEF Counting, Found, Kept
<1>7. CASE Output
  <2>1. /\ pc = "StateSaved" /\ pc' = "Idle" /\ announced' = announced \union {round}
        /\ UNCHANGED <<state_round, broken>>
    BY <1>7 DEF Output, Forget, diskVars, stateVars
  <2>2. Found = round - 1 /\ Found' = Kept /\ Kept = round
    BY <2>1 DEF Found, Kept, Counting
  <2>3. Found' = Found + 1
    BY <1>0, <2>2
  <2>4. Counting'
    BY <2>1 DEF Counting
  <2> QED BY <2>1, <2>2, <2>3, <2>4 DEF Contract!Next, Contract!Answer
<1>8. CASE Die \/ FailToLoad \/ FailToEncode \/ FailToDecode
  <2>1. /\ pc # "Idle" /\ pc' = "Idle"
        /\ UNCHANGED <<announced, state_round, broken>>
    BY <1>8 DEF Die, FailToLoad, FailToEncode, FailToDecode, Stop, Forget, diskVars, stateVars
  <2>2. Found' = Kept
    BY <2>1 DEF Found, Kept
  <2>3. Kept \in {Found, Found + 1, 0}
    <3>1. CASE pc \in {"Started", "Loading"}
      BY <3>1 DEF Found
    <3>2. CASE pc \notin {"Idle", "Started", "Loading"}
      <4>1. Found = round - 1 /\ Found + 1 = round
        BY <1>0, <3>2 DEF Found
      <4> QED BY <3>2, <4>1 DEF Counting
    <3> QED BY <2>1, <3>1, <3>2
  <2>4. Counting'
    BY <2>1 DEF Counting
  <2> QED BY <2>1, <2>2, <2>3, <2>4 DEF Contract!Next, Contract!Fail
<1>9. CASE UNCHANGED vars
  BY <1>9 DEF vars, memVars, diskVars, stateVars, Counting, Found, Kept
<1> QED BY <1>1, <1>2, <1>3, <1>4, <1>5, <1>6, <1>7, <1>8, <1>9 DEF Next

\* Whatever dies when, the loop finds the engine as Federation assumes it: a round announced is
\* the one after the one that the last run left, and a run that fails leaves that, its own, or
\* nothing.
THEOREM EngineKeepsContract == Spec => ImplementsContract
<1>1. Init => Counting /\ Contract!Init
  BY InitCounting
<1>2. TypeOK /\ Counting /\ [Next]_vars
          => Counting' /\ [Contract!Next]_<<pc # "Idle", Found, announced>>
  BY NextCounting
<1> QED BY <1>1, <1>2, EngineTypeCorrect, PTL DEF Spec, Contract!Spec, ImplementsContract
===============================================================================
