------------------------------ MODULE MCServer ------------------------------
(* With room for one in every channel, two requests fill each of them.     *)
EXTENDS Server

CONSTANTS r1, r2

MCReq == {r1, r2}

=============================================================================
