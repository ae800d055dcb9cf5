-------------------------------- MODULE Cohort --------------------------------
(***************************************************************************)
(* Federation with the ranking of Trust: Phase B of the loop computes the  *)
(* cohort of the node's own history at a time of its own, its hash map     *)
(* iterated in an order of its own.                                        *)
(***************************************************************************)
EXTENDS Federation, Trust

CohortOf(n, at) == top_trusted_peers(hist[n], at)

SameRecords(h, o) == \A a \in Node : RecordsIn(h[a]) = RecordsIn(o[a])

\* What the scores of m can add up to, whatever order they are added in.
Sums(h, m) == {AddedUp(h, places) : places \in SetToSeqs(ReviewsOf(h, m))}

\* No order of adding brings p behind q.
SurelyBefore(h, p, q) ==
    \A s \in Sums(h, p), t \in Sums(h, q) : s > t \/ (s = t /\ IdLess(p, q))

\* Two nodes that hold the same records rank alike every two participants whose order does not
\* hang on a rounding, whatever order the records came in and the hash maps are iterated in.
CohortAgreement ==
    \A m, n \in Node : m # n /\ SameRecords(hist[m], hist[n]) =>
        \A at \in MapOrders, p, q \in Reviewed(hist[m]) :
            SurelyBefore(hist[m], p, q) => RanksBefore(global_trust(hist[n], at), p, q)
==============================================================================
