------------------------------ MODULE MCClient ------------------------------
(* Five targets in batches of three: a full batch and the rest.            *)
EXTENDS Client

CONSTANTS n1, n2, n3, n4, n5

MCTargets == <<n1, n2, n3, n4, n5>>

=============================================================================
