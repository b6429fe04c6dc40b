------------------------------ MODULE MCSpool -------------------------------
(***************************************************************************)
(* Instances of Spool for TLC.  The messages differ by what they are, and  *)
(* their order is their place in the spool, so there is no symmetry.       *)
(***************************************************************************)
EXTENDS Spool
=============================================================================
