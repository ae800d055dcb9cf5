------------------------------ MODULE DeltaWire ------------------------------
(***************************************************************************)
(* The delta transport (federated_communication/): clipping, sparse int8   *)
(* encoding, decoding with its checks, validation of a peer's delta.  Pure *)
(* operators; MLEngine applies them to its own delta and to its peers'.    *)
(*                                                                         *)
(* A delta is a set of tensor names, the values of each of them (all of    *)
(* them have the same) and whether these are finite.  A float32 is an      *)
(* integer here, and a product that is not one is rounded, as it is there. *)
(***************************************************************************)
EXTENDS Integers, FiniteSets, FiniteSetsExt

CONSTANTS
    Coord,          \* coordinates of a tensor, integers ordered as indices
    TopK,           \* how many coordinates are transmitted (DELTA_SPARSITY)
    Level,          \* the largest quantised value, 127 in the code
    HalfExact,      \* integers up to here are exact in half precision
    MaxNorm,        \* the norm a node clips its own delta to
    MaxPeerNorm     \* the norm up to which a peer's delta is used

ASSUME WireAssumption ==
    /\ Coord \subseteq Nat /\ IsFiniteSet(Coord)
    /\ {TopK, Level, HalfExact, MaxNorm, MaxPeerNorm} \subseteq Nat \ {0}

Values == [Coord -> Int]
Zero == [c \in Coord |-> 0]
Plus(v, w) == [c \in Coord |-> v[c] + w[c]]
Minus(v, w) == [c \in Coord |-> v[c] - w[c]]
Abs(i) == IF i < 0 THEN -i ELSE i

Delta(tensors, values) == [tensors |-> tensors, values |-> values, finite |-> TRUE]
Diverged(tensors) == [tensors |-> tensors, values |-> Zero, finite |-> FALSE]

\* The quotient to the nearest integer, of two the even one.
Rounded(a, b) ==
    LET q == a \div b
        r == a % b
    IN  IF 2 * r > b \/ (2 * r = b /\ q % 2 = 1) THEN q + 1 ELSE q

-------------------------------------------------------------------------------
(* Norms (privacy.py).                                                     *)

Dot(d, e) == Cardinality(d.tensors) * MapThenSumSet(LAMBDA c : d.values[c] * e.values[c], Coord)

\* The norm, rounded up.
Norm(d) == Min({n \in 0..Dot(d, d) : n * n >= Dot(d, d)})

apply_clipping(d) ==
    IF Dot(d, d) <= MaxNorm * MaxNorm THEN d
    ELSE [d EXCEPT !.values = [c \in Coord |-> Rounded(@[c] * MaxNorm, Norm(d))]]

\* Mutation of validate_peer_delta: the limit of the own delta.
validate_as_own(d) == d.finite /\ Dot(d, d) <= MaxNorm * MaxNorm

validate_peer_delta(d) == d.finite /\ Dot(d, d) <= MaxPeerNorm * MaxPeerNorm

-------------------------------------------------------------------------------
(* Encoding (sparsification.py, quantization.py).                          *)

\* By magnitude, and of equal magnitudes the lower index.
Precedes(v, c, d) == Abs(v[c]) > Abs(v[d]) \/ (Abs(v[c]) = Abs(v[d]) /\ c < d)

topk_indices(v) == {c \in Coord : Cardinality({d \in Coord : Precedes(v, d, c)}) < TopK}

\* In units of 1/Level, so that 1.0, the scale of a tensor of zeros, is Level.
Scale(v) ==
    LET max_abs == Max({0} \union {Abs(v[c]) : c \in topk_indices(v)})
    IN  IF max_abs = 0 THEN Level ELSE max_abs

Quantized(v) == [c \in topk_indices(v) |-> Rounded(v[c] * Level, Scale(v))]

\* Back to a dense tensor.
Scatter(quantized, scale) ==
    [c \in Coord |-> IF c \in DOMAIN quantized THEN Rounded(quantized[c] * scale, Level) ELSE 0]

Half(i) == IF Abs(i) <= HalfExact THEN i ELSE 2 * Rounded(i, 2)

\* The payload: without compression the pruned tensors in half precision.
Envelope(d, compressed) ==
    LET indices == topk_indices(d.values)
    IN  [format  |-> IF compressed THEN "v1" ELSE "legacy",
         tensors |-> d.tensors,
         values  |-> IF compressed THEN Quantized(d.values)
                                   ELSE [c \in indices |-> Half(d.values[c])],
         scale   |-> IF compressed THEN Scale(d.values) ELSE Level,
         finite  |-> d.finite]

\* Bytes of the tensors: an index and a value each, or all coordinates in half precision.
Size(p) == Cardinality(p.tensors) *
    IF p.format = "v1" THEN 5 * Cardinality(DOMAIN p.values) ELSE 2 * Cardinality(Coord)

\* Mutation of Encodable: NaN is not looked for.
EncodableUnchecked(d, compressed, max_payload) ==
    compressed => Size(Envelope(d, TRUE)) <= max_payload

\* Only the compressing encoder looks for NaN and at the size.
Encodable(d, compressed, max_payload) ==
    compressed => d.finite /\ Size(Envelope(d, TRUE)) <= max_payload

\* What the sender takes to be transmitted, and subtracts from what it keeps.
Reconstructed(v, compressed) ==
    IF compressed THEN Scatter(Quantized(v), Scale(v))
    ELSE [c \in Coord |-> IF c \in topk_indices(v) THEN Half(v[c]) ELSE 0]

-------------------------------------------------------------------------------
(* Decoding.                                                               *)

\* A payload that is not there or was cut off.
NoPayload(why) ==
    [format |-> why, tensors |-> {}, values |-> <<>>, scale |-> 0, finite |-> TRUE]

\* Mutation of Decodes: what is not of this format is taken for the old one.
DecodesAny(p, limits) == p.format \in {"v1", "legacy"}

\* Every check of the decoder passes, with the limits of the receiver.
Decodes(p, limits) ==
    /\ p.format \in {"v1"} \union (IF limits.allow_legacy THEN {"legacy"} ELSE {})
    /\ Size(p) <= limits.max_payload
    /\ p.format = "v1" =>
           /\ p.scale > 0
           /\ Cardinality(p.tensors) <= limits.max_tensors
           /\ Cardinality(p.tensors) * Cardinality(Coord) <= limits.max_elements
           /\ DOMAIN p.values \subseteq Coord

decode(p) ==
    [tensors |-> p.tensors, values |-> Scatter(p.values, p.scale), finite |-> p.finite]
==============================================================================
