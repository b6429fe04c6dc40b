--------------------------- MODULE GovernorProofs ---------------------------
(***************************************************************************)
(* Proofs about Governor, for any number of workers, sequence numbers and  *)
(* limits: slots are owned, a Start() takes one of them at most, and the   *)
(* governor implements a semaphore.                                        *)
(***************************************************************************)
EXTENDS Governor, FiniteSetTheorems, TLAPS

\* What a worker knows of its slot: a number from the acknowledgement on until
\* the work is done, and running set until the finisher ran.
Progress ==
  \A w \in Worker :
    /\ pc[w] = "working" => seq[w] \in Seq
    /\ pc[w] # "working" => seq[w] = None
    /\ pc[w] # "sent" => reply[w] = None
    /\ pc[w] \in {"sent", "wait"} => running[w]

\* What it knows of is stored, unless it was removed.
Stored ==
  \A w \in Worker : running[w] /\ ~lost[w] =>
    \A x \in Seq : x = seq[w] \/ x = reply[w] => x \in slots

\* No number is known to two workers.
Apart ==
  \A v, w \in Worker : v # w =>
    \A x \in Seq : (x = seq[v] \/ x = reply[v]) => (x # seq[w] /\ x # reply[w])

\* The stream holds no more than its highest limit.
Room == limit <= high /\ Cardinality(slots) <= high

Inv == TypeOK /\ Progress /\ Stored /\ Apart /\ Room

-----------------------------------------------------------------------------
(* The stream.                                                             *)

LEMMA Sizes ==
  ASSUME TypeOK
  PROVE  /\ limit \in Nat /\ high \in Nat
         /\ IsFiniteSet(slots) /\ Cardinality(slots) \in Nat
         /\ None \notin Seq /\ "full" \notin Seq
<1>1. IsFiniteSet(slots)
  BY GovernorAssumption, FS_Subset DEF TypeOK
<1> QED
  BY <1>1, GovernorAssumption, FS_CardinalityType DEF TypeOK

LEMMA RoomShrinks ==
  ASSUME Inv, slots' \subseteq slots, UNCHANGED <<limit, high>>
  PROVE  Room'
<1>1. IsFiniteSet(slots) /\ Cardinality(slots) \in Nat /\ high \in Nat
  BY Sizes DEF Inv
<1>2. Cardinality(slots') <= Cardinality(slots) /\ Cardinality(slots') \in Nat
  BY <1>1, FS_Subset, FS_CardinalityType
<1> QED
  BY <1>1, <1>2 DEF Inv, Room

LEMMA RoomAdds ==
  ASSUME Inv, ~Full, NEW s \in Seq, slots' = slots \cup {s}, UNCHANGED <<limit, high>>
  PROVE  Room'
<1>1. /\ IsFiniteSet(slots) /\ Cardinality(slots) \in Nat
      /\ limit \in Nat /\ high \in Nat
  BY Sizes DEF Inv
<1>2. Cardinality(slots \cup {s}) \in {Cardinality(slots), Cardinality(slots) + 1}
  BY <1>1, FS_AddElement
<1>3. Cardinality(slots) < limit /\ limit <= high
  BY <1>1 DEF Full, Inv, Room
<1> QED
  BY <1>1, <1>2, <1>3 DEF Room

LEMMA FreshIsFree ==
  ASSUME NEW s \in Fresh
  PROVE  s \in Seq /\ \A v \in Worker : s # seq[v] /\ s # reply[v]
BY DEF Fresh

-----------------------------------------------------------------------------
(* One lemma per action.                                                   *)

LEMMA AdmitStep ==
  ASSUME Inv, NEW w \in Worker, Admit(w)
  PROVE  Inv'
<1> USE DEF Admit
<1>1. PICK s \in Fresh : slots' = slots \cup {s} /\ reply' = [reply EXCEPT ![w] = s]
  OBVIOUS
<1>2. s \in Seq /\ \A v \in Worker : s # seq[v] /\ s # reply[v]
  BY FreshIsFree
<1>3. TypeOK'
  BY <1>1, <1>2 DEF Inv, TypeOK
<1>4. Progress'
  BY <1>1, <1>2 DEF Inv, TypeOK, Progress
<1>5. Stored'
  BY <1>1, <1>2 DEF Inv, TypeOK, Stored
<1>6. Apart'
  BY <1>1, <1>2 DEF Inv, TypeOK, Apart
<1>7. Room'
  BY <1>1, <1>2, RoomAdds
<1> QED
  BY <1>3, <1>4, <1>5, <1>6, <1>7 DEF Inv

LEMMA LateAdmitStep ==
  ASSUME Inv, NEW w \in Worker, LateAdmit(w)
  PROVE  Inv'
<1> USE DEF LateAdmit
<1>1. slots \subseteq slots' /\ slots' \subseteq Seq
  BY FreshIsFree DEF Inv, TypeOK
<1>2. TypeOK'
  BY <1>1 DEF Inv, TypeOK
<1>3. Progress' /\ Stored' /\ Apart'
  BY <1>1 DEF Inv, Progress, Stored, Apart
<1>4. Room'
  <2>1. CASE slots' = slots
    BY <2>1, RoomShrinks
  <2>2. CASE slots' # slots
    <3>1. PICK s \in Fresh : slots' = slots \cup {s} /\ ~Full
      BY <2>2
    <3> QED
      BY <3>1, FreshIsFree, RoomAdds
  <2> QED
    BY <2>1, <2>2
<1> QED
  BY <1>2, <1>3, <1>4 DEF Inv

LEMMA RemovedStep ==
  ASSUME Inv, NEW gone \in SUBSET Seq, Removed(gone)
  PROVE  Inv'
<1> USE DEF Removed, object
<1>1. \A w \in Worker : lost'[w] <=> lost[w] \/ {seq[w], reply[w]} \cap gone # {}
  BY Zenon
<1>2. lost' \in [Worker -> BOOLEAN]
  BY DEF Inv, TypeOK
<1>3. TypeOK'
  BY <1>2 DEF Inv, TypeOK
<1>4. Progress' /\ Apart'
  BY DEF Inv, Progress, Apart
<1>5. Stored'
  BY <1>1 DEF Inv, Stored
<1>6. Room'
  BY RoomShrinks
<1> QED
  BY <1>3, <1>4, <1>5, <1>6 DEF Inv

LEMMA SetLimitStep ==
  ASSUME Inv, NEW l \in Limits, SetLimit(l)
  PROVE  Inv'
<1> USE DEF SetLimit, object
<1>1. TypeOK'
  BY DEF Inv, TypeOK
<1>2. Progress' /\ Stored' /\ Apart'
  BY DEF Inv, Progress, Stored, Apart
<1>3. Room'
  <2>1. l \in Nat /\ limit \in Nat /\ high \in Nat /\ Cardinality(slots) \in Nat
    BY GovernorAssumption, Sizes DEF Inv
  <2> QED
    BY <2>1 DEF Inv, Room
<1> QED
  BY <1>1, <1>2, <1>3 DEF Inv

\* Steps of a worker that leave the stream alone.
LEMMA QuietStep ==
  ASSUME Inv, NEW w \in Worker,
         \/ Start(w) \/ Refuse(w) \/ Enter(w) \/ Wait(w) \/ Retry(w)
         \/ TryFails(w) \/ GiveUp(w) \/ Renew(w) \/ Crash(w)
  PROVE  Inv'
<1> USE DEF stream
<1>0. None \notin Seq /\ "full" \notin Seq
  BY Sizes DEF Inv
<1>1. UNCHANGED <<limit, slots, high>>
  BY DEF Start, Refuse, Enter, Wait, Retry, TryFails, GiveUp, Renew, Crash
<1>2. Room'
  BY <1>1, RoomShrinks
<1>3. CASE Start(w)
  <2> USE <1>3 DEF Start
  <2>1. TypeOK'
    BY DEF Inv, TypeOK
  <2>2. Progress' /\ Apart'
    BY DEF Inv, TypeOK, Progress, Apart
  <2>3. Stored'
    BY <1>0 DEF Inv, TypeOK, Progress, Stored
  <2> QED
    BY <1>2, <2>1, <2>2, <2>3 DEF Inv
<1>4. CASE Refuse(w)
  <2> USE <1>4 DEF Refuse
  <2>1. TypeOK'
    BY DEF Inv, TypeOK
  <2>2. Progress'
    BY DEF Inv, TypeOK, Progress
  <2>3. Stored' /\ Apart'
    BY <1>0 DEF Inv, TypeOK, Stored, Apart
  <2> QED
    BY <1>2, <2>1, <2>2, <2>3 DEF Inv
<1>5. CASE Enter(w)
  <2> USE <1>5 DEF Enter
  <2>1. TypeOK'
    BY DEF Inv, TypeOK
  <2>2. Progress'
    BY DEF Inv, TypeOK, Progress
  <2>3. Stored' /\ Apart'
    BY <1>0 DEF Inv, TypeOK, Stored, Apart
  <2> QED
    BY <1>2, <2>1, <2>2, <2>3 DEF Inv
<1>6. CASE Wait(w)
  <2> USE <1>6 DEF Wait
  <2>1. TypeOK'
    BY DEF Inv, TypeOK
  <2>2. Progress'
    BY DEF Inv, TypeOK, Progress
  <2>3. Stored' /\ Apart'
    BY <1>0 DEF Inv, TypeOK, Stored, Apart
  <2> QED
    BY <1>2, <2>1, <2>2, <2>3 DEF Inv
<1>7. CASE TryFails(w)
  <2> USE <1>7 DEF TryFails, Abandon
  <2>1. TypeOK'
    BY DEF Inv, TypeOK
  <2>2. Progress'
    BY DEF Inv, TypeOK, Progress
  <2>3. Stored' /\ Apart'
    BY <1>0 DEF Inv, TypeOK, Stored, Apart
  <2> QED
    BY <1>2, <2>1, <2>2, <2>3 DEF Inv
<1>8. CASE Crash(w)
  <2> USE <1>8 DEF Crash, Abandon
  <2>1. TypeOK'
    BY DEF Inv, TypeOK
  <2>2. Progress'
    BY DEF Inv, TypeOK, Progress
  <2>3. Stored' /\ Apart'
    BY <1>0 DEF Inv, TypeOK, Stored, Apart
  <2> QED
    BY <1>2, <2>1, <2>2, <2>3 DEF Inv
<1>9. CASE Retry(w) \/ GiveUp(w) \/ Renew(w)
  <2> USE <1>9 DEF Retry, GiveUp, Renew
  <2>1. TypeOK'
    BY DEF Inv, TypeOK
  <2>2. Progress'
    BY DEF Inv, TypeOK, Progress
  <2>3. Stored' /\ Apart'
    BY DEF Inv, TypeOK, Stored, Apart
  <2> QED
    BY <1>2, <2>1, <2>2, <2>3 DEF Inv
<1> QED
  BY <1>3, <1>4, <1>5, <1>6, <1>7, <1>8, <1>9

\* The finisher deletes the number of its own worker, which no other knows.
LEMMA FinisherStep ==
  ASSUME Inv, NEW w \in Worker, Finish(w) \/ Interrupt(w)
  PROVE  Inv'
<1> USE DEF Finish, Interrupt, Finisher
<1>1. slots' \subseteq slots /\ slots \ {seq[w]} \subseteq slots'
  OBVIOUS
<1>2. TypeOK'
  BY DEF Inv, TypeOK
<1>3. Progress'
  BY Sizes DEF Inv, TypeOK, Progress
<1>4. Stored'
  <2> SUFFICES ASSUME NEW v \in Worker, running'[v], ~lost'[v], NEW x \in Seq,
                      x = seq'[v] \/ x = reply'[v]
               PROVE  x \in slots'
    BY DEF Stored
  <2>1. v # w /\ running[v] /\ ~lost[v] /\ seq'[v] = seq[v] /\ reply'[v] = reply[v]
    BY DEF Inv, TypeOK
  <2>2. x \in slots /\ x # seq[w]
    BY <2>1 DEF Inv, Stored, Apart
  <2> QED
    BY <1>1, <2>2
<1>5. Apart'
  BY Sizes DEF Inv, TypeOK, Apart
<1>6. Room'
  BY <1>1, RoomShrinks
<1> QED
  BY <1>2, <1>3, <1>4, <1>5, <1>6 DEF Inv

LEMMA InvInit == Init => Inv
<1> SUFFICES ASSUME Init PROVE Inv
  OBVIOUS
<1>1. None \notin Seq
  BY GovernorAssumption
<1>2. TypeOK
  BY DEF Init, TypeOK
<1>3. Progress /\ Stored /\ Apart
  BY <1>1 DEF Init, Progress, Stored, Apart
<1>4. Room
  BY GovernorAssumption, FS_EmptySet DEF Init, Room
<1> QED
  BY <1>2, <1>3, <1>4 DEF Inv

LEMMA InvStep ==
  ASSUME Inv, [Next]_vars
  PROVE  Inv'
<1>1. ASSUME NEW w \in Worker, Admit(w) PROVE Inv'
  BY <1>1, AdmitStep
<1>2. ASSUME NEW w \in Worker, LateAdmit(w) PROVE Inv'
  BY <1>2, LateAdmitStep
<1>3. ASSUME NEW w \in Worker,
             \/ Start(w) \/ Refuse(w) \/ Enter(w) \/ Wait(w) \/ Retry(w)
             \/ TryFails(w) \/ GiveUp(w) \/ Renew(w) \/ Crash(w)
      PROVE  Inv'
  BY <1>3, QuietStep
<1>4. ASSUME NEW w \in Worker, Finish(w) \/ Interrupt(w) PROVE Inv'
  BY <1>4, FinisherStep
<1>5. ASSUME NEW s \in Seq, Evict(s) PROVE Inv'
  BY <1>5, RemovedStep DEF Evict
<1>6. CASE Reset
  BY <1>6, RemovedStep DEF Reset, Inv, TypeOK
<1>7. ASSUME NEW l \in Limits, SetLimit(l) PROVE Inv'
  BY <1>7, SetLimitStep
<1>8. CASE UNCHANGED vars
  BY <1>8 DEF vars, stream, object, Inv, TypeOK, Progress, Stored, Apart, Room
<1> QED
  BY <1>1, <1>2, <1>3, <1>4, <1>5, <1>6, <1>7, <1>8 DEF Next, Campaign

LEMMA InvOwns == Inv => SlotsAreOwned
BY DEF Inv, TypeOK, Progress, Stored, Apart, SlotsAreOwned, Governed

LEMMA InvHolds == Spec => []Inv
BY InvInit, InvStep, PTL DEF Spec

\* Variables keep their types.
THEOREM TypeCorrect == Spec => []TypeOK
<1>1. Inv => TypeOK
  BY DEF Inv
<1> QED
  BY <1>1, InvHolds, PTL

\* A worker that works has its slot for itself until it is evicted, whatever
\* other workers, late requests and operators do.
THEOREM SlotsOwned == Spec => []SlotsAreOwned
BY InvOwns, InvHolds, PTL

-----------------------------------------------------------------------------
(* No hoarding.                                                            *)

\* What the last Start() of a worker took: nothing while it waits or has a
\* request out, and a request of it that was given up on, which can still take
\* a slot, is one of a Start() that ended without any.
Spent ==
  \A w \in Worker :
    /\ taken[w] <= 1
    /\ orphan[w] = "last" => pc[w] = "idle" /\ taken[w] = 0
    /\ pc[w] = "wait" => taken[w] = 0
    /\ pc[w] = "sent" /\ reply[w] \notin Seq => taken[w] = 0

LEMMA SpentStep ==
  ASSUME Inv, Spent, [Next]_vars
  PROVE  Spent'
<1> USE DEF stream, object
<1>0. TypeOK /\ None \notin Seq /\ "full" \notin Seq
  BY Sizes DEF Inv
<1>1. ASSUME NEW w \in Worker, Admit(w) PROVE Spent'
  <2>1. PICK s \in Seq : reply' = [reply EXCEPT ![w] = s]
    BY <1>1, FreshIsFree DEF Admit
  <2> QED
    BY <1>0, <1>1, <2>1 DEF Admit, Spent, TypeOK
<1>2. ASSUME NEW w \in Worker, LateAdmit(w) PROVE Spent'
  <2>1. taken' = [taken EXCEPT ![w] = IF orphan[w] = "last" THEN @ + 1 ELSE @] \/ taken' = taken
    BY <1>2 DEF LateAdmit
  <2> QED
    BY <1>0, <1>2, <2>1 DEF LateAdmit, Spent, TypeOK
<1>3. ASSUME NEW w \in Worker, Start(w) PROVE Spent'
  BY <1>0, <1>3 DEF Start, Spent, TypeOK
<1>4. ASSUME NEW w \in Worker, Refuse(w) \/ Enter(w) \/ Wait(w) \/ Retry(w) \/ GiveUp(w) PROVE Spent'
  BY <1>0, <1>4 DEF Refuse, Enter, Wait, Retry, GiveUp, Spent, TypeOK, Inv, Progress
<1>5. ASSUME NEW w \in Worker, TryFails(w) \/ Crash(w) PROVE Spent'
  <2>1. UNCHANGED taken /\ pc' = [pc EXCEPT ![w] = "idle"] /\ reply' = [reply EXCEPT ![w] = None]
    BY <1>5 DEF TryFails, Crash
  <2>2. \/ orphan' = orphan
        \/ pc[w] = "sent" /\ reply[w] = None /\ orphan' = [orphan EXCEPT ![w] = "last"]
    BY <1>5 DEF TryFails, Crash, Abandon
  <2> QED
    BY <1>0, <2>1, <2>2 DEF Spent, TypeOK
<1>6. ASSUME NEW w \in Worker, Finish(w) \/ Interrupt(w) \/ Renew(w) PROVE Spent'
  BY <1>0, <1>6 DEF Finish, Interrupt, Finisher, Renew, Spent, TypeOK
<1>7. CASE UNCHANGED <<taken, orphan, pc, reply>>
  BY <1>7 DEF Spent
<1> QED
  BY <1>1, <1>2, <1>3, <1>4, <1>5, <1>6, <1>7
     DEF Next, Campaign, Evict, Reset, Removed, SetLimit, vars

\* One Start() takes at most one slot, also when its requests time out, arrive
\* late or lose their acknowledgement, and whatever the limit and the number of
\* workers: only a refusal is tried again.
THEOREM TakesOneSlot == Spec => []NoHoarding
<1>1. Init => Spent
  BY DEF Init, Spent
<1>2. Inv /\ Spent /\ [Next]_vars => Spent'
  BY SpentStep
<1>3. Spent => NoHoarding
  BY DEF Spent, NoHoarding
<1> QED
  BY <1>1, <1>2, <1>3, InvHolds, PTL DEF Spec

-----------------------------------------------------------------------------
(* Refinement of the semaphore.                                            *)

\* Owned slots leave no more workers than slots.
LEMMA GovernedFit == Inv => IsFiniteSet(Governed) /\ Cardinality(Governed) <= high
<1> SUFFICES ASSUME Inv PROVE IsFiniteSet(Governed) /\ Cardinality(Governed) <= high
  OBVIOUS
<1>1. IsFiniteSet(Governed)
  BY GovernorAssumption, FS_Subset DEF Governed
<1>2. IsFiniteSet(slots) /\ Cardinality(slots) \in Nat /\ high \in Nat
  BY Sizes DEF Inv
<1>3. [w \in Governed |-> seq[w]] \in Injection(Governed, slots)
  BY InvOwns DEF SlotsAreOwned, Injection, IsInjective
<1>4. Cardinality(Governed) <= Cardinality(slots)
  BY <1>1, <1>2, <1>3, FS_Injection, Zenon
<1> QED
  BY <1>1, <1>2, <1>4, FS_CardinalityType DEF Inv, Room

\* Workers that leave Governed release their places.
LEMMA LeavingIsRelease ==
  ASSUME Governed' \subseteq Governed, UNCHANGED high
  PROVE  [Sem!Next]_<<high, Governed>>
<1> DEFINE gone == Governed \ Governed'
<1>1. gone \in SUBSET Governed /\ Governed' = Governed \ gone
  OBVIOUS
<1>2. CASE gone = {}
  BY <1>1, <1>2
<1>3. CASE gone # {}
  BY <1>1, <1>3 DEF Sem!Next, Sem!Release
<1> QED
  BY <1>2, <1>3

\* Enter() with its slot stored takes a place, of which one is free.
LEMMA EnterAcquires ==
  ASSUME Inv, Inv', NEW w \in Worker, Enter(w)
  PROVE  [Sem!Next]_<<high, Governed>>
<1> USE DEF Enter, stream
<1>1. w \notin Governed
  BY DEF Governed
<1>2. CASE lost[w]
  <2>1. Governed' = Governed
    BY <1>2 DEF Governed, Inv, TypeOK
  <2> QED
    BY <2>1
<1>3. CASE ~lost[w]
  <2>1. Governed' = Governed \cup {w}
    BY <1>3 DEF Governed, Inv, TypeOK, Progress
  <2>2. IsFiniteSet(Governed) /\ Cardinality(Governed) \in Nat /\ high \in Nat
    BY GovernedFit, Sizes, FS_CardinalityType DEF Inv
  <2>3. Cardinality(Governed') = Cardinality(Governed) + 1
    BY <1>1, <2>1, <2>2, FS_AddElement
  <2>4. Cardinality(Governed') <= high
    <3>1. (IsFiniteSet(Governed) /\ Cardinality(Governed) <= high)'
      BY GovernedFit, PTL
    <3> QED
      BY <3>1
  <2>5. Sem!Cardinality(Governed) = Cardinality(Governed)
    BY DEF Sem!Cardinality, Cardinality
  <2>6. Sem!Acquire(w)
    BY <1>1, <2>1, <2>2, <2>3, <2>4, <2>5 DEF Sem!Acquire
  <2> QED
    BY <2>6 DEF Sem!Next
<1> QED
  BY <1>2, <1>3

LEMMA StepRefines ==
  ASSUME Inv, Inv', [Next]_vars
  PROVE  [Sem!Next]_<<high, Governed>>
<1> USE DEF stream, object
<1>1. ASSUME NEW w \in Worker, Enter(w) PROVE [Sem!Next]_<<high, Governed>>
  BY <1>1, EnterAcquires
<1>2. ASSUME NEW w \in Worker, Start(w) \/ TryFails(w) \/ GiveUp(w) \/ Renew(w) \/ Crash(w)
      PROVE  Governed' \subseteq Governed /\ UNCHANGED high
  BY <1>2 DEF Start, TryFails, GiveUp, Renew, Crash, Governed, Inv, TypeOK
<1>3. ASSUME NEW w \in Worker, Admit(w) \/ Refuse(w) \/ Wait(w) \/ Retry(w) \/ LateAdmit(w)
      PROVE  Governed' \subseteq Governed /\ UNCHANGED high
  BY <1>3 DEF Admit, Refuse, Wait, Retry, LateAdmit, Governed, Inv, TypeOK
<1>4. ASSUME NEW w \in Worker, Finish(w) \/ Interrupt(w)
      PROVE  Governed' \subseteq Governed /\ UNCHANGED high
  BY <1>4 DEF Finish, Interrupt, Finisher, Governed, Inv, TypeOK
<1>5. ASSUME NEW gone, Removed(gone)
      PROVE  Governed' \subseteq Governed /\ UNCHANGED high
  <2>1. \A w \in Worker : lost[w] => lost'[w]
    BY <1>5, Zenon DEF Removed
  <2> QED
    BY <1>5, <2>1 DEF Removed, Governed
<1>6. ASSUME NEW l \in Limits, SetLimit(l)
      PROVE  [Sem!Next]_<<high, Governed>>
  <2>1. Governed' = Governed
    BY <1>6 DEF SetLimit, Governed
  <2>2. l \in Nat /\ high \in Nat
    BY GovernorAssumption, Sizes DEF Inv
  <2> QED
    BY <1>6, <2>1, <2>2 DEF SetLimit, Sem!Next, Sem!Raise
<1>7. CASE UNCHANGED vars
  BY <1>7 DEF vars, Governed
<1> QED
  BY <1>1, <1>2, <1>3, <1>4, <1>5, <1>6, <1>7, LeavingIsRelease
     DEF Next, Campaign, Evict, Reset

\* Of the workers that have their slots, never more work than the highest limit
\* there was: the governor is a counting semaphore.
THEOREM RefinesSemaphore == Spec => ImplementsSemaphore
<1>1. Init => Sem!Init
  BY GovernorAssumption DEF Init, Sem!Init, Governed
<1>2. Inv /\ Inv' /\ [Next]_vars => [Sem!Next]_<<high, Governed>>
  BY StepRefines
<1> QED
  BY <1>1, <1>2, InvHolds, PTL DEF Spec, ImplementsSemaphore, Sem!Spec, Sem!svars
=============================================================================
