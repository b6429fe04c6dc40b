------------------------------ MODULE MCAAgent ------------------------------
(***************************************************************************)
(* Instances of AAgent for TLC: machines in two paths, each of which       *)
(* follows the transitions of the other, and one object for every load.    *)
(***************************************************************************)
EXTENDS AAgent

CONSTANTS p, q

Both == {<<p, q>>, <<q, p>>}

Self == {<<p, p>>}
=============================================================================
