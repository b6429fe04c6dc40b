----------------------------- MODULE Semaphore ------------------------------
(***************************************************************************)
(* What a governor promises: a counting semaphore whose number of places   *)
(* an operator may raise.  A holder may lose its place (the governor       *)
(* evicts entries that are too old, an operator evicts or resets), after   *)
(* which it no longer counts.  With a single place it is what an election  *)
(* promises: one leader at a time, who may be deposed.                     *)
(***************************************************************************)
EXTENDS Naturals, FiniteSets

CONSTANT Worker  \* who may hold a place

VARIABLES
  places,  \* how many may hold one at a time
  holders

svars == <<places, holders>>

Init ==
  /\ places \in Nat \ {0}
  /\ holders = {}

Acquire(w) ==
  /\ w \notin holders
  /\ Cardinality(holders) < places
  /\ holders' = holders \cup {w}
  /\ UNCHANGED places

Release(gone) ==
  /\ gone # {}
  /\ holders' = holders \ gone
  /\ UNCHANGED places

Raise ==
  /\ places' \in Nat
  /\ places' > places
  /\ UNCHANGED holders

Next ==
  \/ \E w \in Worker : Acquire(w)
  \/ \E gone \in SUBSET holders : Release(gone)
  \/ Raise

Spec == Init /\ [][Next]_svars
=============================================================================
