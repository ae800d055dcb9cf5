------------------------------ MODULE MCWorkdir ------------------------------
(* Instances of Workdir for TLC. *)
EXTENDS Workdir, TLC

Symmetry == Permutations(Node)
==============================================================================
