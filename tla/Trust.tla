-------------------------------- MODULE Trust --------------------------------
(***************************************************************************)
(* The ranking of the participants by the reviews a node has on record     *)
(* (trust_rankings of src/src/history.rs).  A score is an f64, and adding  *)
(* two of them rounds, so a sum depends on the order of its terms.  That   *)
(* order is the one in which the process's hash map gives the logs, and    *)
(* the order of the records in each log: both differ from node to node.    *)
(***************************************************************************)
EXTENDS History, SequencesExt

CONSTANTS
    Double,         \* the values of an f64, as multiples of the least positive one
    Add(_, _),      \* their sum as the processor rounds it
    IdLess(_, _),   \* the order of the ids as strings
    CohortSize      \* how many participants make up the cohort

ASSUME TrustAssumption ==
    /\ Double \subseteq Int /\ 0 \in Double /\ Weight \subseteq Double
    /\ \A x, y \in Double : Add(x, y) \in Double
    /\ \A m, o \in Node : m # o => (IdLess(m, o) <=> ~IdLess(o, m))
    /\ \A m \in Node : ~IdLess(m, m)
    /\ \A m, o, p \in Node : IdLess(m, o) /\ IdLess(o, p) => IdLess(m, p)

\* Mutation of ReviewsOf: a reviewer's later review of m replaces the earlier ones.
ReviewsOfLast(h, m) ==
    {p \in UNION {{a} \X DOMAIN h[a] : a \in Node} :
        LET OfM(i) == IsReview(h[p[1]][i]) /\ h[p[1]][i].kind.target_node = m
        IN  OfM(p[2]) /\ \A i \in DOMAIN h[p[1]] : OfM(i) => i <= p[2]}

\* Where in a history the reviews of m stand.
ReviewsOf(h, m) ==
    {p \in UNION {{a} \X DOMAIN h[a] : a \in Node} :
        LET r == h[p[1]][p[2]] IN IsReview(r) /\ r.kind.target_node = m}

Reviewed(h) == {m \in Node : ReviewsOf(h, m) # {}}

\* The members of S in the order that a set of pairs gives: the i-th has i - 1 before it.
Sorted(S, before) ==
    [i \in 1..Cardinality(S) |->
        CHOOSE m \in S : Cardinality({o \in S : <<o, m>> \in before}) = i - 1]

\* The positions an iteration of the hash map may give to the logs.
MapOrders ==
    {at \in [Node -> 1..Cardinality(Node)] : \A a, b \in Node : at[a] = at[b] => a = b}

\* The reviews of m as the two nested loops come to them: log after log, each from its start.
Reading(h, m, at) ==
    LET Before(p, q) == at[p[1]] < at[q[1]] \/ (p[1] = q[1] /\ p[2] < q[2])
        R == ReviewsOf(h, m)
    IN  Sorted(R, {r \in R \X R : Before(r[1], r[2])})

\* The scores at a sequence of places, added to 0.0 one after the other.
AddedUp(h, places) ==
    FoldLeft(Add, 0, [i \in DOMAIN places |-> h[places[i][1]][places[i][2]].kind.trust_score])

global_trust(h, at) == [m \in Reviewed(h) |-> AddedUp(h, Reading(h, m, at))]

RanksBefore(trust, m, o) == trust[m] > trust[o] \/ (trust[m] = trust[o] /\ IdLess(m, o))

trust_rankings(h, k, at) ==
    LET trust == global_trust(h, at)
        ranked == Sorted(Reviewed(h),
                         {p \in Reviewed(h) \X Reviewed(h) : RanksBefore(trust, p[1], p[2])})
    IN  SubSeq(ranked, 1, Min({k, Len(ranked)}))

top_trusted_peers(h, at) == trust_rankings(h, CohortSize, at)
==============================================================================
