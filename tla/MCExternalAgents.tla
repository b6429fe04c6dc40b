-------------------------- MODULE MCExternalAgents --------------------------
(* Two agents; the first has a second place, in another libdir.  One version *)
(* of the second is not valid.                                               *)
EXTENDS ExternalAgents

CONSTANTS a, b

ThreePlaces == <<a, b, a>>
BadDDL      == {[file |-> 2, version |-> 2]}

\* Both versions of the first agent are valid, and nothing else tells them
\* apart: its DDLs begin with version 1 or not at all.
MCInit == Init /\ disk[1] # 2 /\ disk[3] # 2

MCSpec == MCInit /\ [][Next]_vars /\ Fairness

=============================================================================
