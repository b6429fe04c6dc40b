---------------------------- MODULE MCSupervisor ----------------------------
(* More output on one stream than on the other.                            *)
EXTENDS Supervisor

TwoAndOne == [s \in Stream |-> IF s = "stdout" THEN 2 ELSE 1]

=============================================================================
