----------------------------- MODULE MCGovernor -----------------------------
(***************************************************************************)
(* Instances of Governor for TLC.  There are more sequence numbers than    *)
(* the stream and the workers can hold, so that a fresh one is never       *)
(* lacking.                                                                *)
(***************************************************************************)
EXTENDS Governor
=============================================================================
