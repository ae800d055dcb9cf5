----------------------------- MODULE MCFederation -----------------------------
(* Small instances of Federation for TLC.  The nodes are interchangeable. *)
EXTENDS Federation, TLC

Symmetry == Permutations(Node)
==============================================================================
