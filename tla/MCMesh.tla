-------------------------------- MODULE MCMesh --------------------------------
(* Small instances of Mesh for TLC: one node is the seed of all others. *)
EXTENDS Mesh

CONSTANT First      \* the node whose id the others have in their configuration

MCSeeds == [n \in Node |-> {First} \ {n}]
MCLan == Pairs
==============================================================================
