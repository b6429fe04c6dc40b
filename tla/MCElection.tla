----------------------------- MODULE MCElection -----------------------------
(***************************************************************************)
(* Instances of Election for TLC.  A time unit is a quarter of the default *)
(* bucket TTL, so the default campaign interval is 3 of 4 units.           *)
(***************************************************************************)
EXTENDS Election, TLC

NoBackoff == <<>>

\* Two entries, the second jittered: what a losing candidate waits.
TwoStepBackoff == << {1}, {1, 2} >>

\* calm only takes steps away: every step of a calm state is a step of the
\* same state without it, so the safety runs leave the calm states out.
NotCalm == ~calm

Symmetry == Permutations(Member)
=============================================================================
