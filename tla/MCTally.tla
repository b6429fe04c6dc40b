------------------------------ MODULE MCTally ------------------------------
(* Tally for TLC: two hosts, which are alike. *)
EXTENDS Tally, TLC
CONSTANTS h1, h2, v1, v2
Symmetry == Permutations({h1, h2})
=============================================================================
