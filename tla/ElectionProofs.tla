--------------------------- MODULE ElectionProofs ---------------------------
(***************************************************************************)
(* Proofs about Election, for every set of members and every choice of     *)
(* times.  TypeCorrect, the fence of the revisions and that a deposed      *)
(* leader stands down hold in every configuration.  Mutual exclusion is    *)
(* proved for campaigns without a backoff policy, without an operator who  *)
(* deletes the key and without calls of Stop(), from the one relation      *)
(* between the delays and the TTL that it needs.                           *)
(***************************************************************************)
EXTENDS Election, FiniteSetTheorems, TLAPS

\* A ticker that runs has time left on it.
TimerInv == \A m \in Member : Ticking(m) => timer[m] >= 1

TypeInv == TypeOK /\ TimerInv

\* The configuration mutual exclusion is proved for.
Defaults ==
  /\ Backoff = <<>>
  /\ StopCallers = {}
  /\ ~Evictable
  /\ 2 * MaxDelay < TTL

-----------------------------------------------------------------------------
\* Duration() of a policy with entries is one of them, hence positive.
LEMMA DurationPositive ==
  ASSUME NEW n \in Nat, Backoff # <<>>
  PROVE  Duration(n) \subseteq Nat \ {0}
<1> DEFINE i == IF n < Len(Backoff) THEN n + 1 ELSE Len(Backoff)
<1>1. Len(Backoff) \in Nat /\ Len(Backoff) # 0
  BY BackoffAssumption
<1>2. i \in 1..Len(Backoff)
  BY <1>1
<1>3. Backoff[i] \in SUBSET (Nat \ {0})
  BY <1>2, BackoffAssumption
<1> QED
  BY <1>3 DEF Duration

\* The interval of a ticker is positive.
LEMMA IntervalPositive ==
  ASSUME NEW n \in Nat
  PROVE  Interval(n) \subseteq Nat \ {0}
BY DurationPositive, TimeAssumption DEF Interval

\* Outdating revisions keeps them revisions, Superseded keeps requests.
LEMMA OutdatedType ==
  /\ lastSeq \in [Member -> {"max", "current", "stale"}]
       => Outdated(lastSeq) \in [Member -> {"max", "current", "stale"}]
  /\ reply \in [Member -> {"none", "current", "stale", "error"}]
       => Outdated(reply) \in [Member -> {"none", "current", "stale", "error"}]
BY DEF Outdated

LEMMA SupersededType ==
  ASSUME NEW f \in [Member -> {"none", "create", "update"}]
  PROVE  Superseded(f) \in [Member -> {"none", "create", "update"}]
BY DEF Superseded

LEMMA RemoveType ==
  ASSUME TypeOK, Remove
  PROVE  /\ key' \in BOOLEAN
         /\ age' \in 0..TTL
         /\ lastSeq' \in [Member -> {"max", "current", "stale"}]
         /\ reply' \in [Member -> {"none", "current", "stale", "error"}]
         /\ orphan' \in [Member -> {"none", "create", "update"}]
<1>1. orphan' \in [Member -> {"none", "create", "update"}]
  BY SupersededType DEF TypeOK, Remove
<1>2. lastSeq' \in [Member -> {"max", "current", "stale"}]
  BY OutdatedType DEF TypeOK, Remove
<1>3. reply' \in [Member -> {"none", "current", "stale", "error"}]
  BY OutdatedType DEF TypeOK, Remove
<1>4. age' \in 0..TTL
  BY TimeAssumption DEF Remove
<1> QED
  BY <1>1, <1>2, <1>3, <1>4, Zenon DEF Remove

LEMMA EndTickType ==
  ASSUME TypeInv, NEW m \in Member, NEW n \in Nat, EndTick(m, n)
  PROVE  /\ pc' \in [Member -> {"off", "lock", "splay", "wait", "sent", "answered"}]
         /\ mu' \in [Member -> {"free", "try", "stop", "start"}]
         /\ reply' \in [Member -> {"none", "current", "stale", "error"}]
         /\ late' \in [Member -> 0..MaxDelay]
         /\ timer' \in [Member -> Nat]
         /\ fired' \in [Member -> BOOLEAN]
         /\ TimerInv'
<1>1. CASE Backoff = <<>>
  BY <1>1, TimeAssumption DEF TypeInv, TypeOK, TimerInv, Ticking, EndTick
<1>2. CASE Backoff # <<>>
  <2>1. PICK d \in Duration(n) : timer' = [timer EXCEPT ![m] = d]
    BY <1>2 DEF EndTick
  <2>2. d \in Nat /\ d >= 1
    BY <1>2, <2>1, DurationPositive
  <2>3. timer' \in [Member -> Nat]
    BY <2>1, <2>2 DEF TypeInv, TypeOK
  <2>4. TimerInv'
    BY <2>1, <2>2 DEF TypeInv, TypeOK, TimerInv, Ticking, EndTick
  <2>5. fired' \in [Member -> BOOLEAN]
    BY <1>2, Zenon DEF TypeInv, TypeOK, EndTick
  <2>6. late' \in [Member -> 0..MaxDelay]
    BY TimeAssumption DEF TypeInv, TypeOK, EndTick
  <2> QED
    BY <1>2, <2>3, <2>4, <2>5, <2>6, Zenon DEF TypeInv, TypeOK, EndTick
<1> QED
  BY <1>1, <1>2

LEMMA TypeStep ==
  TypeInv /\ [Next]_vars => TypeInv'
<1> SUFFICES ASSUME TypeInv, [Next]_vars PROVE TypeInv'
  OBVIOUS
<1> USE TimeAssumption
<1> USE DEF TypeInv, TypeOK, TimerInv, Ticking
<1>1. CASE Tick
  <2>1. age' \in 0..TTL
    BY <1>1 DEF Tick
  <2>2. timer' \in [Member -> Nat] /\ TimerInv'
    BY <1>1 DEF Tick, Fires, object
  <2>3. fired' \in [Member -> BOOLEAN]
    BY <1>1 DEF Tick
  <2>4. late' \in [Member -> 0..MaxDelay]
    BY <1>1 DEF Tick
  <2>5. lease' \in [Member -> Nat]
    BY <1>1 DEF Tick
  <2> QED
    BY <1>1, <2>1, <2>2, <2>3, <2>4, <2>5 DEF Tick, object
<1>2. CASE Expire
  BY <1>2, RemoveType DEF Expire
<1>3. CASE Evict
  BY <1>3, RemoveType DEF Evict
<1>4. CASE Settle
  BY <1>4 DEF Settle, bucket, object, goroutine
<1>5. ASSUME NEW m \in Member, Step(m) PROVE TypeInv'
  <2>1. CASE Started(m)
    BY <2>1 DEF Started, bucket
  <2>2. CASE FirstCampaign(m)
    <3>1. PICK d \in Interval(0) : timer' = [timer EXCEPT ![m] = d]
      BY <2>2 DEF FirstCampaign
    <3>2. d \in Nat /\ d >= 1
      BY <3>1, IntervalPositive
    <3> QED
      BY <2>2, <3>1, <3>2 DEF FirstCampaign, bucket
  <2>3. CASE Campaign(m)
    BY <2>3 DEF Campaign, bucket
  <2>4. CASE Accept(m)
    BY <2>4, OutdatedType, SupersededType DEF Accept, Answered, Write
  <2>5. CASE Reject(m)
    BY <2>5 DEF Reject, bucket, object
  <2>6. CASE CampaignLost(m)
    <3> DEFINE n == IF tries[m] < Len(Backoff) THEN tries[m] + 1 ELSE tries[m]
    <3>1. Len(Backoff) \in Nat
      BY BackoffAssumption
    <3>2. n \in 0..Len(Backoff) /\ EndTick(m, n) /\ tries' = [tries EXCEPT ![m] = n]
      BY <2>6, <3>1 DEF CampaignLost
    <3> HIDE DEF n
    <3>3. tries' \in [Member -> 0..Len(Backoff)]
      BY <3>1, <3>2
    <3>4. n \in Nat
      BY <3>1, <3>2
    <3> QED
      BY <2>6, <3>2, <3>3, <3>4, EndTickType DEF CampaignLost, bucket
  <2>7. CASE CampaignWon(m)
    <3>1. Len(Backoff) \in Nat
      BY BackoffAssumption
    <3>2. lastSeq' \in [Member -> {"max", "current", "stale"}] /\ lease' \in [Member -> Nat]
      BY <2>7 DEF CampaignWon
    <3>3. state' \in [Member -> {"unknown", "candidate", "leader"}] /\ tries' \in [Member -> 0..Len(Backoff)]
      BY <2>7, <3>1 DEF CampaignWon
    <3>4. notifyNext' \in [Member -> BOOLEAN]
      BY <2>7 DEF CampaignWon
    <3>5. EndTick(m, 0) /\ UNCHANGED <<key, age, ctx, orphan, calm>>
      BY <2>7 DEF CampaignWon, bucket
    <3> QED
      BY <3>2, <3>3, <3>4, <3>5, EndTickType
  <2>8. CASE LeadershipLost(m)
    <3>1. tries[m] \in Nat
      BY BackoffAssumption
    <3> QED
    BY <2>8, <3>1, EndTickType DEF LeadershipLost, bucket
  <2>9. CASE LeadershipKept(m)
    <3>1. tries[m] \in Nat
      BY BackoffAssumption
    <3>2. notifyNext' \in [Member -> BOOLEAN]
      BY <2>9, Zenon DEF LeadershipKept
    <3>3. lastSeq' \in [Member -> {"max", "current", "stale"}]
      BY <2>9 DEF LeadershipKept
    <3>4. lease' \in [Member -> Nat]
      BY <2>9 DEF LeadershipKept
    <3>5. EndTick(m, tries[m])
      BY <2>9 DEF LeadershipKept
    <3> QED
    BY <2>9, <3>1, <3>2, <3>3, <3>4, <3>5, EndTickType DEF LeadershipKept, bucket
  <2> QED
    BY <1>5, <2>1, <2>2, <2>3, <2>4, <2>5, <2>6, <2>7, <2>8, <2>9 DEF Step
<1>6. ASSUME NEW m \in Member, Fault(m) PROVE TypeInv'
  <2>1. CASE StartFails(m)
    BY <2>1 DEF StartFails, bucket
  <2>2. CASE Cancel(m)
    BY <2>2 DEF Cancel, bucket, goroutine
  <2>3. CASE Crash(m)
    <3>1. Len(Backoff) \in Nat
      BY BackoffAssumption
    <3> QED
    BY <2>3, <3>1 DEF Crash, bucket
  <2>4. CASE LoseRequest(m)
    BY <2>4 DEF LoseRequest, bucket, object
  <2>5. CASE LoseReply(m)
    BY <2>5 DEF LoseReply, bucket, object
  <2>6. CASE LateDelivery(m)
    <3>1. [orphan EXCEPT ![m] = "none"] \in [Member -> {"none", "create", "update"}]
      OBVIOUS
    <3>2. orphan' \in [Member -> {"none", "create", "update"}]
      BY <2>6, <3>1, SupersededType DEF LateDelivery
    <3>3. lastSeq' \in [Member -> {"max", "current", "stale"}]
      BY <2>6, OutdatedType DEF LateDelivery, Write
    <3>4. reply' \in [Member -> {"none", "current", "stale", "error"}]
      BY <2>6, OutdatedType DEF LateDelivery
    <3>5. age' \in 0..TTL /\ TimerInv'
      BY <2>6 DEF LateDelivery, Write
    <3>6. key' \in BOOLEAN
      BY <2>6, Zenon DEF LateDelivery, Write
    <3> QED
      BY <2>6, <3>2, <3>3, <3>4, <3>5, <3>6, Zenon DEF LateDelivery
  <2> QED
    BY <1>6, <2>1, <2>2, <2>3, <2>4, <2>5, <2>6 DEF Fault
<1>7. ASSUME NEW m \in Member, StartCall(m) PROVE TypeInv'
  BY <1>7 DEF StartCall, bucket
<1>8. ASSUME NEW m \in Member, Exit(m) PROVE TypeInv'
  BY <1>8 DEF Exit, bucket
<1>9. ASSUME NEW m \in Member, Stop(m) PROVE TypeInv'
  BY <1>9 DEF Stop, bucket, goroutine
<1>10. CASE UNCHANGED vars
  BY <1>10 DEF vars, bucket, object, goroutine
<1> QED
  BY <1>1, <1>2, <1>3, <1>4, <1>5, <1>6, <1>7, <1>8, <1>9, <1>10 DEF Next

LEMMA InitTyped == Init => TypeInv
<1> SUFFICES ASSUME Init PROVE TypeInv
  OBVIOUS
<1>1. Len(Backoff) \in Nat
  BY BackoffAssumption
<1>2. TypeOK
  <2>1. age \in 0..TTL
    BY TimeAssumption DEF Init
  <2>2. tries \in [Member -> 0..Len(Backoff)]
    BY <1>1 DEF Init
  <2>3. timer \in [Member -> Nat] /\ lease \in [Member -> Nat]
    BY DEF Init
  <2>4. late \in [Member -> 0..MaxDelay]
    BY TimeAssumption DEF Init
  <2> QED
    BY <2>1, <2>2, <2>3, <2>4 DEF Init, TypeOK
<1>3. TimerInv
  BY DEF Init, TimerInv, Ticking
<1> QED
  BY <1>2, <1>3 DEF TypeInv

\* Every variable keeps its type in every configuration.  In particular a
\* campaign is never later than MaxDelay and the backoff counter stays within
\* the policy's entries.
THEOREM TypeCorrect == Spec => []TypeOK
<1>1. TypeInv => TypeOK
  BY DEF TypeInv
<1> QED
  BY <1>1, InitTyped, TypeStep, PTL DEF Spec

-----------------------------------------------------------------------------
(* Revisions, in every configuration.                                      *)

\* m knows the present revision of the key, or is about to be told it.
Holds(m) == lastSeq[m] = "current" \/ reply[m] = "current"

\* The bucket's fence: there is a key to every present revision, and one
\* member at most that has it.  Two leaders may think they lead, but only one
\* Update can be accepted.
Fenced ==
  /\ \A m \in Member : Holds(m) => key
  /\ \A a, b \in Member : Holds(a) /\ Holds(b) => a = b

\* A write or a removal takes the present revision from everybody.
LEMMA OutdatedIsNotCurrent ==
  ASSUME NEW f, NEW m \in Member
  PROVE  /\ Outdated(f)[m] # "current"
         /\ f[m] = "stale" => Outdated(f)[m] = "stale"
BY DEF Outdated

\* What the end of a tick does to the answer, with or without backoff.
LEMMA EndTickReply ==
  ASSUME NEW m \in Member, NEW n, EndTick(m, n)
  PROVE  reply' = [reply EXCEPT ![m] = "none"]
BY DEF EndTick

\* Steps that leave the key alone give nobody a revision that was not the
\* answer to its own request.
LEMMA HoldsStep ==
  ASSUME TypeOK, [Next]_vars, ~Expire, ~Evict,
         \A m \in Member : ~Accept(m) /\ ~LateDelivery(m)
  PROVE  key' = key /\ \A m \in Member : Holds(m)' => Holds(m)
<1> USE DEF Holds, TypeOK, bucket, object, goroutine
<1>1. ASSUME NEW m \in Member, CampaignWon(m) \/ LeadershipKept(m) PROVE key' = key /\ \A a \in Member : Holds(a)' => Holds(a)
  <2>1. key' = key /\ lastSeq' = [lastSeq EXCEPT ![m] = reply[m]]
    BY <1>1 DEF CampaignWon, LeadershipKept
  <2>2. reply' = [reply EXCEPT ![m] = "none"]
    BY <1>1, EndTickReply DEF CampaignWon, LeadershipKept
  <2> QED
    BY <2>1, <2>2
<1>2. ASSUME NEW m \in Member, CampaignLost(m) \/ LeadershipLost(m) \/ Exit(m) \/ Crash(m) PROVE key' = key /\ \A a \in Member : Holds(a)' => Holds(a)
  <2>1. key' = key /\ (lastSeq' = lastSeq \/ lastSeq' = [lastSeq EXCEPT ![m] = "max"])
    BY <1>2 DEF CampaignLost, LeadershipLost, Exit, Crash
  <2>2. reply' = [reply EXCEPT ![m] = "none"] \/ reply' = reply
    BY <1>2, EndTickReply DEF CampaignLost, LeadershipLost, Exit, Crash
  <2> QED
    BY <2>1, <2>2
<1>3. ASSUME NEW m \in Member, Reject(m) \/ LoseRequest(m) \/ LoseReply(m) PROVE key' = key /\ \A a \in Member : Holds(a)' => Holds(a)
  <2>1. key' = key /\ lastSeq' = lastSeq /\ reply' = [reply EXCEPT ![m] = "error"]
    BY <1>3 DEF Reject, LoseRequest, LoseReply
  <2> QED
    BY <2>1
<1>4. CASE UNCHANGED <<key, lastSeq, reply>>
  BY <1>4
<1> QED
  BY <1>1, <1>2, <1>3, <1>4
     DEF Next, Step, Fault, Tick, Settle, Started, FirstCampaign, Campaign, StartFails, Cancel,
         StartCall, Stop, vars

LEMMA FencedStep ==
  ASSUME TypeOK, Fenced, [Next]_vars
  PROVE  Fenced'
<1>1. CASE Expire \/ Evict
  <2>1. lastSeq' = Outdated(lastSeq) /\ reply' = Outdated(reply)
    BY <1>1 DEF Expire, Evict, Remove
  <2>2. \A m \in Member : ~Holds(m)'
    BY <2>1, OutdatedIsNotCurrent DEF Holds
  <2> QED
    BY <2>2 DEF Fenced
<1>2. ASSUME NEW m \in Member, Accept(m) PROVE Fenced'
  <2>1. key' /\ lastSeq' = Outdated(lastSeq) /\ reply' = [Outdated(reply) EXCEPT ![m] = "current"]
    BY <1>2 DEF Accept, Answered, Write
  <2>2. \A a \in Member : a # m => ~Holds(a)'
    BY <2>1, OutdatedIsNotCurrent DEF Holds
  <2> QED
    BY <2>1, <2>2 DEF Fenced
<1>3. ASSUME NEW m \in Member, LateDelivery(m) PROVE Fenced'
  <2>1. lastSeq' = Outdated(lastSeq) /\ reply' = Outdated(reply)
    BY <1>3 DEF LateDelivery, Write
  <2>2. \A a \in Member : ~Holds(a)'
    BY <2>1, OutdatedIsNotCurrent DEF Holds
  <2> QED
    BY <2>2 DEF Fenced
<1>4. CASE /\ ~Expire /\ ~Evict
           /\ \A m \in Member : ~Accept(m) /\ ~LateDelivery(m)
  BY <1>4, HoldsStep DEF Fenced
<1> QED
  BY <1>1, <1>2, <1>3, <1>4

\* At most one member has the revision that the bucket accepts next, and only
\* while the key exists: with backoff, evictions, Stop() and any delay too,
\* where two members may both report that they lead.
THEOREM RevisionsFence == Spec => []Fenced
<1>1. Init => Fenced
  BY DEF Init, Fenced, Holds
<1>2. TypeOK /\ Fenced /\ [Next]_vars => Fenced'
  BY FencedStep
<1> QED
  BY <1>1, <1>2, TypeCorrect, PTL DEF Spec

\* A deposed leader stays deposed or stops to be a leader.
LEMMA DeposedStep ==
  ASSUME TypeOK, [Next]_vars, NEW m \in Member, Deposed(m), state'[m] = "leader"
  PROVE  Deposed(m)'
<1> USE DEF Deposed, TypeOK, bucket, object, goroutine
<1>1. CASE Expire \/ Evict
  <2>1. lastSeq' = Outdated(lastSeq) /\ reply' = Outdated(reply)
    BY <1>1 DEF Expire, Evict, Remove
  <2> QED
    BY <2>1, OutdatedIsNotCurrent
<1>2. ASSUME NEW a \in Member, Accept(a) PROVE Deposed(m)'
  <2>1. lastSeq' = Outdated(lastSeq) /\ reply' = [Outdated(reply) EXCEPT ![a] = "current"]
    BY <1>2 DEF Accept, Answered, Write
  <2>2. a # m
    BY <1>2 DEF Accept, Accepts
  <2> QED
    BY <2>1, <2>2, OutdatedIsNotCurrent
<1>3. ASSUME NEW a \in Member, LateDelivery(a) PROVE Deposed(m)'
  <2>1. lastSeq' = Outdated(lastSeq) /\ reply' = Outdated(reply)
    BY <1>3 DEF LateDelivery, Write
  <2> QED
    BY <2>1, OutdatedIsNotCurrent
<1>4. ASSUME NEW a \in Member, CampaignWon(a) \/ LeadershipKept(a) PROVE Deposed(m)'
  <2>1. lastSeq' = [lastSeq EXCEPT ![a] = reply[a]] /\ reply[a] \in {"current", "stale"}
    BY <1>4 DEF CampaignWon, LeadershipKept
  <2>2. reply' = [reply EXCEPT ![a] = "none"]
    BY <1>4, EndTickReply DEF CampaignWon, LeadershipKept
  <2> QED
    BY <2>1, <2>2
<1>5. ASSUME NEW a \in Member, LeadershipLost(a) \/ Exit(a) \/ Crash(a) PROVE Deposed(m)'
  <2>1. state'[a] # "leader" /\ lastSeq' = [lastSeq EXCEPT ![a] = "max"]
    BY <1>5 DEF LeadershipLost, Exit, Crash
  <2>2. reply' = [reply EXCEPT ![a] = "none"] \/ reply' = reply
    BY <1>5, EndTickReply DEF LeadershipLost, Exit, Crash
  <2> QED
    BY <2>1, <2>2
<1>6. ASSUME NEW a \in Member, Reject(a) \/ LoseRequest(a) \/ LoseReply(a) PROVE Deposed(m)'
  <2>1. lastSeq' = lastSeq /\ reply' = [reply EXCEPT ![a] = "error"]
    BY <1>6 DEF Reject, LoseRequest, LoseReply
  <2> QED
    BY <2>1
<1>7. ASSUME NEW a \in Member, CampaignLost(a) PROVE Deposed(m)'
  <2>1. lastSeq' = lastSeq /\ reply' = [reply EXCEPT ![a] = "none"]
    BY <1>7, EndTickReply DEF CampaignLost
  <2> QED
    BY <2>1
<1>8. CASE UNCHANGED <<lastSeq, reply>>
  BY <1>8
<1> QED
  BY <1>1, <1>2, <1>3, <1>4, <1>5, <1>6, <1>7, <1>8
     DEF Next, Step, Fault, Tick, Settle, Started, FirstCampaign, Campaign, StartFails, Cancel,
         StartCall, Stop, vars

\* A leader that lost the key, to the TTL, an operator, another member or a
\* late request, does not get it back before it stood down, in every
\* configuration.
THEOREM DeposedStandsDown == Spec => NoResurrection
<1>1. TypeOK /\ [Next]_vars
        => [\A m \in Member : Deposed(m) /\ state'[m] = "leader" => Deposed(m)']_vars
  BY DeposedStep
<1> QED
  BY <1>1, TypeCorrect, PTL DEF Spec, NoResurrection

-----------------------------------------------------------------------------
(* The parts of IndInv, one at a time.                                     *)

\* The last line of every campaign, without a backoff policy.
LEMMA PlainEndTick ==
  ASSUME Defaults, NEW m \in Member, NEW n, EndTick(m, n)
  PROVE  /\ pc[m] = "answered"
         /\ pc' = [pc EXCEPT ![m] = "wait"]
         /\ mu' = [mu EXCEPT ![m] = "free"]
         /\ reply' = [reply EXCEPT ![m] = "none"]
         /\ late' = [late EXCEPT ![m] = 0]
         /\ timer' = timer
         /\ fired' = fired
BY DEF Defaults, EndTick

\* Locals, mutex and ticker channel of a goroutine stay consistent.  Needs
\* ClockInv: the ticker cannot fire while a campaign is under way.
LEMMA ControlStep ==
  ASSUME Defaults, TypeOK, ControlInv, ClockInv, [Next]_vars
  PROVE  ControlInv'
<1> USE TimeAssumption
<1> USE DEF TypeOK, ControlInv, Handling, Ticking
<1>1. CASE Tick
  BY <1>1 DEF ClockInv, Tick, Fires, object
<1>2. CASE Expire
  BY <1>2 DEF Expire, Remove, Outdated
<1>3. CASE Evict
  BY <1>3 DEF Evict, Defaults
<1>4. CASE Settle
  BY <1>4 DEF Settle, bucket, object, goroutine
<1>5. ASSUME NEW m \in Member, Step(m) PROVE ControlInv'
  <2>1. CASE Started(m)
    BY <2>1 DEF Started, bucket
  <2>2. CASE FirstCampaign(m)
    BY <2>2 DEF FirstCampaign, bucket
  <2>3. CASE Campaign(m)
    BY <2>3 DEF Campaign, bucket
  <2>4. CASE Accept(m)
    BY <2>4 DEF Accept, Answered, Write, Outdated
  <2>5. CASE Reject(m)
    BY <2>5 DEF Reject, bucket, object
  <2>6. CASE CampaignLost(m)
    BY <2>6, PlainEndTick DEF CampaignLost, bucket
  <2>7. CASE CampaignWon(m)
    BY <2>7, PlainEndTick DEF CampaignWon, bucket
  <2>8. CASE LeadershipLost(m)
    BY <2>8, PlainEndTick DEF LeadershipLost, bucket
  <2>9. CASE LeadershipKept(m)
    BY <2>9, PlainEndTick DEF LeadershipKept, bucket
  <2> QED
    BY <1>5, <2>1, <2>2, <2>3, <2>4, <2>5, <2>6, <2>7, <2>8, <2>9 DEF Step
<1>6. ASSUME NEW m \in Member, Fault(m) PROVE ControlInv'
  <2>1. CASE StartFails(m)
    BY <2>1 DEF StartFails, bucket
  <2>2. CASE Cancel(m)
    BY <2>2 DEF Cancel, bucket, goroutine
  <2>3. CASE Crash(m)
    BY <2>3 DEF Crash, bucket
  <2>4. CASE LoseRequest(m)
    BY <2>4 DEF LoseRequest, bucket, object
  <2>5. CASE LoseReply(m)
    BY <2>5 DEF LoseReply, bucket, object
  <2>6. CASE LateDelivery(m)
    BY <2>6 DEF LateDelivery, Write, Outdated
  <2> QED
    BY <1>6, <2>1, <2>2, <2>3, <2>4, <2>5, <2>6 DEF Fault
<1>7. ASSUME NEW m \in Member, StartCall(m) PROVE ControlInv'
  BY <1>7 DEF StartCall, bucket
<1>8. ASSUME NEW m \in Member, Exit(m) PROVE ControlInv'
  BY <1>8 DEF Exit, bucket
<1>9. ASSUME NEW m \in Member, Stop(m) PROVE ControlInv'
  BY <1>9 DEF Stop, Defaults
<1>10. CASE UNCHANGED vars
  BY <1>10 DEF vars, bucket, object, goroutine
<1> QED
  BY <1>1, <1>2, <1>3, <1>4, <1>5, <1>6, <1>7, <1>8, <1>9, <1>10 DEF Next

\* What ClockInv says of one member.
ClockOf(m) ==
  /\ Ticking(m) => timer[m] \in 1..CInterval
  /\ Handling(m) => timer[m] + late[m] = CInterval
  /\ state[m] = "leader" =>
       IF Handling(m) THEN lease[m] = CInterval + late[m]
                      ELSE lease[m] + timer[m] = CInterval

\* A step that the clocks of a member do not notice.
SameClock(m) ==
  /\ Handling(m)' <=> Handling(m)
  /\ Ticking(m)' => Ticking(m)
  /\ state[m]' = "leader" => state[m] = "leader"
  /\ timer[m]' = timer[m]
  /\ late[m]' = late[m]
  /\ lease[m]' = lease[m]

LEMMA ClockKept ==
  ASSUME ClockInv, NEW a \in Member, SameClock(a)
  PROVE  ClockOf(a)'
BY DEF ClockInv, ClockOf, SameClock

LEMMA ClockInvOf ==
  ASSUME \A a \in Member : ClockOf(a)'
  PROVE  ClockInv'
BY DEF ClockInv, ClockOf

\* Time passes on the clocks of a member.
LEMMA ClockTick ==
  ASSUME TypeOK, ControlInv, ClockInv, Tick, NEW m \in Member
  PROVE  ClockOf(m)'
<1>1. /\ timer[m] \in Nat /\ late[m] \in 0..MaxDelay /\ lease[m] \in Nat
      /\ pc[m]' = pc[m] /\ mu[m]' = mu[m] /\ state[m]' = state[m]
      /\ mu[m] # "stop"
  BY DEF TypeOK, Tick, object, ControlInv
<1>2. ClockOf(m)
  BY DEF ClockInv, ClockOf
<1>3. state[m] = "leader" => lease[m]' = lease[m] + 1
  BY <1>1 DEF Tick, TypeOK
<1>4. CASE Handling(m)
  <2>1. Ticking(m) /\ late[m] < MaxDelay /\ late[m]' = late[m] + 1
    BY <1>4 DEF Tick, Handling, Ticking
  <2>2. timer[m] \in 2..CInterval
    BY <1>1, <1>2, <1>4, <2>1, TimeAssumption DEF ClockOf
  <2>3. timer[m]' = timer[m] - 1
    BY <2>1, <2>2 DEF Tick, Fires
  <2>4. Handling(m)' /\ Ticking(m)'
    <3>1. fired[m] => fired[m]'
      BY DEF Tick
    <3> QED
      BY <1>1, <1>4, <2>1, <3>1 DEF Handling, Ticking
  <2>5. timer[m] + late[m] = CInterval /\ (state[m] = "leader" => lease[m] = CInterval + late[m])
    BY <1>2, <1>4 DEF ClockOf
  <2> QED
    BY <1>1, <1>3, <2>1, <2>2, <2>3, <2>4, <2>5, TimeAssumption DEF ClockOf
<1>5. CASE Ticking(m) /\ ~Handling(m)
  <2>1. late[m] = 0 /\ late[m]' = 0 /\ pc[m] = "wait" /\ ~fired[m]
    BY <1>1, <1>5 DEF Tick, ControlInv, Handling, Ticking
  <2>2. timer[m] \in 1..CInterval /\ (state[m] = "leader" => lease[m] + timer[m] = CInterval)
    BY <1>2, <1>5 DEF ClockOf
  <2>3. CASE timer[m] = 1
    <3>1. Fires(m) /\ timer[m]' = CInterval /\ fired[m]'
      BY <1>5, <2>3 DEF Tick, Fires
    <3>2. Handling(m)'
      BY <1>1, <2>1, <3>1 DEF Handling
    <3> QED
      BY <1>1, <1>3, <2>1, <2>2, <2>3, <3>1, <3>2, TimeAssumption DEF ClockOf
  <2>4. CASE timer[m] # 1
    <3>1. timer[m]' = timer[m] - 1 /\ ~fired[m]'
      BY <1>5, <2>1, <2>4 DEF Tick, Fires
    <3>2. ~Handling(m)'
      BY <1>1, <2>1, <3>1 DEF Handling
    <3> QED
      BY <1>1, <1>3, <2>1, <2>2, <2>4, <3>1, <3>2, TimeAssumption DEF ClockOf
  <2> QED
    BY <2>3, <2>4
<1>6. CASE ~Ticking(m) /\ ~Handling(m)
  <2>1. ~Ticking(m)' /\ ~Handling(m)'
    BY <1>1, <1>6 DEF Ticking, Handling
  <2>2. state[m]' # "leader"
    BY <1>1, <1>6 DEF ControlInv
  <2> QED
    BY <2>1, <2>2 DEF ClockOf
<1> QED
  BY <1>4, <1>5, <1>6

\* The end of a campaign: the member waits for the tick after the one it has
\* handled, and a leader's lease runs from that.
LEMMA ClockEnd ==
  ASSUME Defaults, TypeOK, ControlInv, ClockInv, NEW m \in Member, NEW n,
         EndTick(m, n), lease'[m] = late[m] \/ state'[m] # "leader"
  PROVE  ClockOf(m)'
<1>1. /\ pc[m] = "answered" /\ pc[m]' = "wait" /\ late[m]' = 0
      /\ timer[m]' = timer[m] /\ fired[m]' = fired[m] /\ mu[m]' = "free"
  BY PlainEndTick DEF TypeOK
<1>2. Handling(m) /\ Ticking(m) /\ ~fired[m]
  BY <1>1 DEF ControlInv, Handling, Ticking
<1>3. ~Handling(m)'
  BY <1>1, <1>2 DEF Handling
<1>4. timer[m] \in 1..CInterval /\ timer[m] + late[m] = CInterval /\ late[m] \in 0..MaxDelay
  BY <1>2 DEF ClockInv, TypeOK
<1> QED
  BY <1>1, <1>3, <1>4, TimeAssumption DEF ClockOf

\* Nobody else notices a step of a member's goroutine, nor anybody a step of
\* the bucket.
LEMMA OthersSameClock ==
  ASSUME Defaults, TypeOK, NEW m \in Member, NEW a \in Member,
         \/ Expire
         \/ Settle
         \/ LateDelivery(m)
         \/ a # m /\ (Step(m) \/ Fault(m) \/ StartCall(m) \/ Exit(m))
  PROVE  SameClock(a)
<1>1. CASE Expire
  BY <1>1 DEF Expire, SameClock, Handling, Ticking
<1>2. CASE Settle
  BY <1>2 DEF Settle, object, goroutine, SameClock, Handling, Ticking
<1>3. CASE LateDelivery(m)
  BY <1>3 DEF LateDelivery, SameClock, Handling, Ticking
<1>4. CASE a # m /\ Step(m)
  <2> USE DEF TypeOK, SameClock, Handling, Ticking
  <2>1. CASE Started(m) \/ FirstCampaign(m) \/ Campaign(m)
    BY <1>4, <2>1 DEF Started, FirstCampaign, Campaign
  <2>2. CASE Accept(m) \/ Reject(m)
    BY <1>4, <2>2 DEF Accept, Answered, Reject, object
  <2>3. CASE CampaignLost(m) \/ CampaignWon(m)
    BY <1>4, <2>3, PlainEndTick DEF CampaignLost, CampaignWon
  <2>4. CASE LeadershipLost(m) \/ LeadershipKept(m)
    BY <1>4, <2>4, PlainEndTick DEF LeadershipLost, LeadershipKept
  <2> QED
    BY <1>4, <2>1, <2>2, <2>3, <2>4 DEF Step
<1>5. CASE a # m /\ Fault(m)
  <2> USE DEF TypeOK, SameClock, Handling, Ticking
  <2>1. CASE StartFails(m) \/ Cancel(m) \/ Crash(m)
    BY <1>5, <2>1 DEF StartFails, Cancel, Crash, goroutine
  <2>2. CASE LoseRequest(m) \/ LoseReply(m)
    BY <1>5, <2>2 DEF LoseRequest, LoseReply, object
  <2> QED
    BY <1>3, <1>5, <2>1, <2>2 DEF Fault
<1>6. CASE a # m /\ StartCall(m)
  BY <1>6 DEF StartCall, TypeOK, SameClock, Handling, Ticking
<1>7. CASE a # m /\ Exit(m)
  BY <1>7 DEF Exit, TypeOK, SameClock, Handling, Ticking
<1> QED
  BY <1>1, <1>2, <1>3, <1>4, <1>5, <1>6, <1>7

\* The member's own steps.
LEMMA OwnClock ==
  ASSUME Defaults, TypeOK, ControlInv, ClockInv, NEW m \in Member,
         Step(m) \/ Fault(m) \/ StartCall(m) \/ Exit(m)
  PROVE  ClockOf(m)'
<1>1. CASE FirstCampaign(m)
  <2>1. timer[m]' = CInterval /\ late[m]' = late[m] /\ pc[m]' = "sent" /\ mu[m]' = "try"
    BY <1>1 DEF FirstCampaign, Interval, Defaults, TypeOK
  <2>2. late[m] = 0 /\ state[m]' # "leader"
    BY <1>1 DEF FirstCampaign, ControlInv, Handling
  <2>3. Handling(m)'
    BY <2>1 DEF Handling
  <2> QED
    BY <2>1, <2>2, <2>3, TimeAssumption DEF ClockOf
<1>2. CASE \/ Campaign(m) \/ Accept(m) \/ Reject(m)
           \/ Cancel(m) \/ LoseRequest(m) \/ LoseReply(m) \/ LateDelivery(m)
  <2> USE DEF TypeOK, ControlInv, SameClock, Handling, Ticking
  <2>1. CASE Campaign(m)
    BY <2>1, ClockKept DEF Campaign
  <2>2. CASE Accept(m)
    BY <2>2, ClockKept DEF Accept, Answered
  <2>3. CASE Reject(m)
    BY <2>3, ClockKept DEF Reject, object
  <2>4. CASE Cancel(m)
    BY <2>4, ClockKept DEF Cancel, goroutine
  <2>5. CASE LoseRequest(m)
    BY <2>5, ClockKept DEF LoseRequest, object
  <2>6. CASE LoseReply(m)
    BY <2>6, ClockKept DEF LoseReply, object
  <2>7. CASE LateDelivery(m)
    BY <2>7, ClockKept DEF LateDelivery
  <2> QED
    BY <1>2, <2>1, <2>2, <2>3, <2>4, <2>5, <2>6, <2>7
<1>3. CASE CampaignLost(m) \/ CampaignWon(m) \/ LeadershipLost(m) \/ LeadershipKept(m)
  <2> USE DEF TypeOK
  <2>1. CASE CampaignLost(m)
    BY <2>1, ClockEnd DEF CampaignLost
  <2>2. CASE CampaignWon(m)
    BY <2>2, ClockEnd DEF CampaignWon
  <2>3. CASE LeadershipLost(m)
    BY <2>3, ClockEnd DEF LeadershipLost
  <2>4. CASE LeadershipKept(m)
    BY <2>4, ClockEnd DEF LeadershipKept
  <2> QED
    BY <1>3, <2>1, <2>2, <2>3, <2>4
<1>4. CASE Started(m) \/ StartFails(m) \/ Crash(m) \/ StartCall(m) \/ Exit(m)
  <2>1. ~Ticking(m)' /\ ~Handling(m)' /\ state[m]' # "leader"
    BY <1>4 DEF Started, StartFails, Crash, StartCall, Exit, TypeOK, ControlInv,
                Ticking, Handling
  <2> QED
    BY <2>1 DEF ClockOf
<1> QED
  BY <1>1, <1>2, <1>3, <1>4 DEF Step, Fault

\* Tickers and leases run from the same tick.
LEMMA ClockStep ==
  ASSUME Defaults, TypeOK, ControlInv, ClockInv, [Next]_vars
  PROVE  ClockInv'
<1> SUFFICES ASSUME NEW a \in Member PROVE ClockOf(a)'
  BY ClockInvOf
<1>1. CASE Tick
  BY <1>1, ClockTick
<1>2. CASE Expire \/ Settle
  BY <1>2, OthersSameClock, ClockKept
<1>3. CASE Evict
  BY <1>3 DEF Evict, Defaults
<1>4. ASSUME NEW m \in Member, Step(m) \/ Fault(m) \/ StartCall(m) \/ Exit(m)
      PROVE  ClockOf(a)'
  <2>1. CASE a = m
    BY <1>4, <2>1, OwnClock
  <2>2. CASE a # m
    BY <1>4, <2>2, OthersSameClock, ClockKept
  <2> QED
    BY <2>1, <2>2
<1>5. ASSUME NEW m \in Member, Stop(m) PROVE ClockOf(a)'
  BY <1>5 DEF Stop, Defaults
<1>6. CASE UNCHANGED vars
  BY <1>6, ClockKept DEF vars, object, goroutine, SameClock, Handling, Ticking
<1> QED
  BY <1>1, <1>2, <1>3, <1>4, <1>5, <1>6 DEF Next

\* A member's claim is neither new nor stronger after a step than before it.
Unmoved(a) ==
  Claims(a)' =>
    /\ Claims(a)
    /\ Since(a)' = Since(a)
    /\ Established(a)' => Established(a)
    /\ lastSeq[a]' = "current" \/ reply[a]' = "current"
         => lastSeq[a] = "current" \/ reply[a] = "current"

LEMMA SinceType ==
  ASSUME TypeOK, NEW a \in Member
  PROVE  Since(a) \in Nat
BY TimeAssumption DEF TypeOK, Since

\* Claims that do not move stay apart.
LEMMA UnmovedSeparation ==
  ASSUME TypeOK, SeparationInv, \A a \in Member : Unmoved(a)
  PROVE  SeparationInv'
<1> SUFFICES ASSUME NEW a \in Member, NEW b \in Member, a # b, Claims(a)', Claims(b)'
             PROVE  Superseding(a, b)' \/ Superseding(b, a)'
  BY DEF SeparationInv
<1>1. Unmoved(a) /\ Unmoved(b)
  OBVIOUS
<1>2. Superseding(a, b) \/ Superseding(b, a)
  BY <1>1 DEF SeparationInv, Unmoved
<1> QED
  BY <1>1, <1>2 DEF Superseding, Unmoved

\* The steps that leave the bucket alone and move no claim.
LEMMA UnmovedKey ==
  ASSUME KeyInv, \A a \in Member : Unmoved(a), key' = key, age' = age
  PROVE  KeyInv'
BY DEF KeyInv, Unmoved

\* The members' steps that only keep, confirm or drop a claim.
LEMMA QuietSteps ==
  ASSUME Defaults, TypeOK, ControlInv, NEW m \in Member,
         \/ Started(m) \/ FirstCampaign(m) \/ Campaign(m) \/ Reject(m)
         \/ CampaignLost(m) \/ CampaignWon(m) \/ LeadershipLost(m) \/ LeadershipKept(m)
         \/ StartFails(m) \/ Cancel(m) \/ Crash(m) \/ LoseRequest(m)
         \/ StartCall(m) \/ Exit(m)
  PROVE  (\A a \in Member : Unmoved(a)) /\ key' = key /\ age' = age
<1> SUFFICES ASSUME NEW a \in Member
             PROVE  Unmoved(a) /\ key' = key /\ age' = age
  OBVIOUS
<1> USE DEF TypeOK, ControlInv, Ticking, Unmoved, Claims, Since, Established, bucket
<1>1. CASE Started(m)
  BY <1>1 DEF Started
<1>2. CASE FirstCampaign(m)
  BY <1>2 DEF FirstCampaign
<1>3. CASE Campaign(m)
  BY <1>3 DEF Campaign
<1>4. CASE Reject(m)
  BY <1>4 DEF Reject, object
<1>5. CASE CampaignLost(m)
  BY <1>5, PlainEndTick DEF CampaignLost
<1>6. CASE CampaignWon(m)
  BY <1>6, PlainEndTick DEF CampaignWon
<1>7. CASE LeadershipLost(m)
  BY <1>7, PlainEndTick DEF LeadershipLost
<1>8. CASE LeadershipKept(m)
  BY <1>8, PlainEndTick DEF LeadershipKept
<1>9. CASE StartFails(m)
  BY <1>9 DEF StartFails
<1>10. CASE Cancel(m)
  BY <1>10 DEF Cancel, goroutine
<1>11. CASE Crash(m)
  BY <1>11 DEF Crash
<1>12. CASE LoseRequest(m)
  BY <1>12 DEF LoseRequest, object
<1>13. CASE StartCall(m)
  BY <1>13 DEF StartCall
<1>14. CASE Exit(m)
  BY <1>14 DEF Exit
<1> QED
  BY <1>1, <1>2, <1>3, <1>4, <1>5, <1>6, <1>7, <1>8, <1>9, <1>10, <1>11, <1>12,
     <1>13, <1>14

\* The bucket on its own: claims become stale but do not move.
LEMMA OutdatedUnmoved ==
  ASSUME TypeOK, NEW a \in Member, lastSeq' = Outdated(lastSeq),
         reply'[a] = Outdated(reply)[a],
         UNCHANGED <<state, notifyNext, late, lease>>
  PROVE  Unmoved(a) /\ lastSeq[a]' # "current" /\ reply[a]' # "current"
BY DEF TypeOK, Outdated, Unmoved, Claims, Since, Established

\* Time passes for every claim alike.
LEMMA TickClaims ==
  ASSUME TypeOK, ControlInv, KeyInv, SeparationInv, Tick
  PROVE  KeyInv' /\ SeparationInv'
<1>1. ASSUME NEW a \in Member, Claims(a)'
      PROVE  /\ Claims(a)
             /\ Since(a)' = Since(a) + 1
             /\ Established(a)' <=> Established(a)
             /\ lastSeq[a]' = lastSeq[a]
             /\ reply[a]' = reply[a]
  BY <1>1 DEF TypeOK, ControlInv, Tick, Handling, Claims, Since, Established, object
<1>2. KeyInv'
  <2> SUFFICES ASSUME NEW a \in Member, Claims(a)'
               PROVE  Since(a)' >= IF key' THEN age' ELSE TTL
    BY DEF KeyInv
  <2>1. Since(a) \in Nat /\ Since(a) >= IF key THEN age ELSE TTL
    BY <1>1, SinceType DEF KeyInv
  <2>2. key' = key /\ (key => age' <= age + 1 /\ age' \in Nat)
    BY TimeAssumption DEF Tick, TypeOK
  <2> QED
    BY <1>1, <2>1, <2>2, TimeAssumption DEF TypeOK
<1>3. SeparationInv'
  <2> SUFFICES ASSUME NEW a \in Member, NEW b \in Member, a # b, Claims(a)', Claims(b)'
               PROVE  Superseding(a, b)' \/ Superseding(b, a)'
    BY DEF SeparationInv
  <2>1. Superseding(a, b) \/ Superseding(b, a)
    BY <1>1 DEF SeparationInv
  <2> QED
    BY <1>1, <2>1, SinceType, TimeAssumption DEF Superseding
<1> QED
  BY <1>2, <1>3

\* An acknowledgement gets lost.  A candidate drops its claim.  A leader falls
\* back on the campaign before, an interval earlier: being Established it was
\* not the one that supersedes another.
LEMMA LoseReplyClaims ==
  ASSUME TypeOK, ControlInv, ClockInv, KeyInv, SeparationInv,
         NEW m \in Member, LoseReply(m)
  PROVE  KeyInv' /\ SeparationInv'
<1> USE DEF LoseReply, object, bucket
<1>1. ASSUME NEW a \in Member, a # m PROVE Unmoved(a)
  BY <1>1 DEF TypeOK, Unmoved, Claims, Since, Established
<1>2. Claims(m) /\ pc[m] = "answered" /\ Handling(m)
  BY DEF Claims, ControlInv, Handling
<1>3. CASE state[m] # "leader"
  <2>1. Unmoved(m)
    BY <1>3 DEF TypeOK, Unmoved, Claims
  <2> QED
    BY <1>1, <2>1, UnmovedSeparation, UnmovedKey
<1>4. CASE state[m] = "leader"
  <2>1. Established(m)
    BY <1>4 DEF Established
  <2>2. Since(m)' = CInterval + Since(m) /\ Since(m) \in Nat
    BY <1>2, <1>4, SinceType DEF TypeOK, ClockInv, Since
  <2>3. lastSeq[m]' = lastSeq[m] /\ reply[m]' # "current"
    BY DEF TypeOK
  <2>4. KeyInv'
    <3> SUFFICES ASSUME NEW a \in Member, Claims(a)'
                 PROVE  Since(a)' >= IF key' THEN age' ELSE TTL
      BY DEF KeyInv
    <3>1. CASE a = m
      BY <1>2, <2>2, <3>1, TimeAssumption DEF KeyInv, TypeOK
    <3>2. CASE a # m
      BY <1>1, <3>2 DEF KeyInv, Unmoved
    <3> QED
      BY <3>1, <3>2
  <2>5. ASSUME NEW b \in Member, b # m, Claims(b)' PROVE Superseding(m, b)'
    <3>1. Unmoved(b) /\ Since(b) \in Nat
      BY <1>1, <2>5, SinceType
    <3>2. Superseding(m, b)
      BY <1>2, <2>1, <2>5, <3>1 DEF SeparationInv, Superseding, Unmoved
    <3> QED
      BY <2>2, <2>3, <2>5, <3>1, <3>2, TimeAssumption DEF Superseding, Unmoved
  <2>6. SeparationInv'
    <3> SUFFICES ASSUME NEW a \in Member, NEW b \in Member, a # b, Claims(a)', Claims(b)'
                 PROVE  Superseding(a, b)' \/ Superseding(b, a)'
      BY DEF SeparationInv
    <3>1. CASE a = m \/ b = m
      BY <2>5, <3>1
    <3>2. CASE a # m /\ b # m
      <4>1. Unmoved(a) /\ Unmoved(b)
        BY <1>1, <3>2
      <4>2. Superseding(a, b) \/ Superseding(b, a)
        BY <4>1 DEF SeparationInv, Unmoved
      <4> QED
        BY <4>1, <4>2 DEF Superseding, Unmoved
    <3> QED
      BY <3>1, <3>2
  <2> QED
    BY <2>4, <2>6
<1> QED
  BY <1>3, <1>4

\* The key expires: every claim on it is TTL old.
LEMMA ExpireClaims ==
  ASSUME TypeOK, KeyInv, SeparationInv, Expire
  PROVE  KeyInv' /\ SeparationInv'
<1>1. \A a \in Member : Unmoved(a)
  BY OutdatedUnmoved DEF Expire, Remove
<1>2. KeyInv'
  BY <1>1 DEF Expire, Remove, KeyInv, Unmoved
<1> QED
  BY <1>1, <1>2, UnmovedSeparation

\* A forgotten request writes the key: nobody claims what it wrote.
LEMMA LateDeliveryClaims ==
  ASSUME TypeOK, SeparationInv, NEW m \in Member, LateDelivery(m)
  PROVE  KeyInv' /\ SeparationInv'
<1>1. \A a \in Member : Unmoved(a)
  BY OutdatedUnmoved DEF LateDelivery, Write
<1>2. KeyInv'
  <2> SUFFICES ASSUME NEW a \in Member, Claims(a)'
               PROVE  Since(a)' >= IF key' THEN age' ELSE TTL
    BY DEF KeyInv
  <2>1. Since(a)' \in Nat
    BY <1>1, SinceType DEF Unmoved
  <2> QED
    BY <2>1 DEF LateDelivery, Write
<1> QED
  BY <1>1, <1>2, UnmovedSeparation

\* A lease is renewed or given up within an interval and a campaign.
LEMMA LeaseBound ==
  ASSUME TypeOK, ControlInv, ClockInv, NEW m \in Member, state[m] = "leader"
  PROVE  lease[m] <= CInterval + MaxDelay
<1>1. /\ lease[m] \in Nat /\ timer[m] \in Nat /\ late[m] \in Nat
      /\ late[m] <= MaxDelay
  BY TimeAssumption DEF TypeOK
<1>2. CASE Handling(m)
  BY <1>1, <1>2, TimeAssumption DEF ClockInv
<1>3. CASE ~Handling(m)
  BY <1>1, <1>3, TimeAssumption DEF ClockInv
<1> QED
  BY <1>2, <1>3

\* The bucket accepts a campaign.  A Create needs the key to be absent, so the
\* claims of all others are TTL old.  An Update needs the present revision,
\* and then nobody else has a claim: it would have been superseded by m's,
\* which is an interval old, and be older than any leader's can be.
LEMMA AcceptClaims ==
  ASSUME Defaults, TypeOK, ControlInv, ClockInv, KeyInv, SeparationInv,
         NEW m \in Member, Accept(m)
  PROVE  KeyInv' /\ SeparationInv'
<1> USE TimeAssumption
<1>1. ASSUME NEW a \in Member, a # m
      PROVE  Unmoved(a) /\ lastSeq[a]' # "current" /\ reply[a]' # "current"
  <2>1. reply'[a] = Outdated(reply)[a]
    BY <1>1 DEF Accept, Answered, Outdated, TypeOK
  <2> QED
    BY <2>1, OutdatedUnmoved DEF Accept, Write
<1>2. ASSUME NEW a \in Member PROVE Since(a) \in Nat
  BY SinceType
<1>3. Handling(m) /\ reply[m] = "none" /\ state[m] \in {"candidate", "leader"}
  BY DEF Accept, Answered, ControlInv, Handling, Ticking, TypeOK
<1>4. Since(m)' = late[m] /\ late[m] \in 0..MaxDelay
  BY DEF Accept, Answered, Outdated, Since, TypeOK
<1>5. KeyInv'
  <2> SUFFICES ASSUME NEW a \in Member, Claims(a)'
               PROVE  Since(a)' >= IF key' THEN age' ELSE TTL
    BY DEF KeyInv
  <2>1. Since(a)' \in Nat
    BY <1>1, <1>2, <1>4 DEF Unmoved
  <2> QED
    BY <2>1 DEF Accept, Write
<1>6. ASSUME NEW b \in Member, b # m, Claims(b)'
      PROVE  Superseding(b, m)'
  <2>1. Unmoved(b) /\ Claims(b) /\ Since(b)' = Since(b)
    BY <1>1, <1>6 DEF Unmoved
  <2>2. CASE state[m] = "leader"
    <3>1. lastSeq[m] = "current"
      BY <2>2 DEF Accept, Accepts
    <3>2. Superseding(b, m)
      BY <1>6, <2>1, <2>2, <3>1 DEF SeparationInv, Superseding, Claims
    <3>3. Since(m) = CInterval + late[m]
      BY <1>3, <2>2 DEF ClockInv, Since
    <3>4. Since(b) <= CInterval + MaxDelay
      <4>1. late[b] \in 0..MaxDelay
        BY DEF TypeOK
      <4>2. CASE reply[b] \in {"current", "stale"}
        BY <4>1, <4>2 DEF Since
      <4>3. CASE reply[b] \notin {"current", "stale"}
        <5>1. state[b] = "leader" /\ Since(b) = lease[b]
          BY <2>1, <4>3 DEF Claims, Since
        <5> QED
          BY <5>1, LeaseBound
      <4> QED
        BY <4>2, <4>3
    <3> QED
      BY <1>2, <1>4, <3>2, <3>3, <3>4 DEF Superseding, Defaults
  <2>3. CASE state[m] = "candidate"
    <3>1. Since(b) >= TTL
      BY <2>1, <2>3 DEF Accept, Accepts, KeyInv
    <3>2. ~Established(m)'
      BY <2>3 DEF Accept, Established
    <3> QED
      BY <1>1, <1>2, <1>4, <1>6, <2>1, <3>1, <3>2 DEF Superseding
  <2> QED
    BY <1>3, <2>2, <2>3
<1>7. SeparationInv'
  <2> SUFFICES ASSUME NEW a \in Member, NEW b \in Member, a # b, Claims(a)', Claims(b)'
               PROVE  Superseding(a, b)' \/ Superseding(b, a)'
    BY DEF SeparationInv
  <2>1. CASE a = m \/ b = m
    BY <1>6, <2>1
  <2>2. CASE a # m /\ b # m
    <3>1. Unmoved(a) /\ Unmoved(b)
      BY <1>1, <2>2
    <3>2. Superseding(a, b) \/ Superseding(b, a)
      BY <3>1 DEF SeparationInv, Unmoved
    <3> QED
      BY <3>1, <3>2 DEF Superseding, Unmoved
  <2> QED
    BY <2>1, <2>2
<1> QED
  BY <1>5, <1>7

LEMMA ClaimStep ==
  ASSUME Defaults, TypeOK, ControlInv, ClockInv, KeyInv, SeparationInv, [Next]_vars
  PROVE  KeyInv' /\ SeparationInv'
<1> DEFINE Goal == KeyInv' /\ SeparationInv'
<1>1. CASE Tick
  BY <1>1, TickClaims
<1>2. CASE Expire
  BY <1>2, ExpireClaims
<1>3. CASE Evict
  BY <1>3 DEF Evict, Defaults
<1>4. ASSUME UNCHANGED vars \/ Settle PROVE Goal
  <2>1. \A a \in Member : Unmoved(a)
    BY <1>4 DEF Settle, vars, object, goroutine, Unmoved, Claims, Since, Established
  <2>2. key' = key /\ age' = age
    BY <1>4 DEF Settle, vars, bucket
  <2> QED
    BY <2>1, <2>2, UnmovedSeparation, UnmovedKey
<1>5. ASSUME NEW m \in Member, Step(m) PROVE Goal
  <2>1. CASE Accept(m)
    BY <2>1, AcceptClaims
  <2>2. CASE ~Accept(m)
    <3>1. (\A a \in Member : Unmoved(a)) /\ key' = key /\ age' = age
      BY <1>5, <2>2, QuietSteps DEF Step
    <3> QED
      BY <3>1, UnmovedSeparation, UnmovedKey
  <2> QED
    BY <2>1, <2>2
<1>6. ASSUME NEW m \in Member, Fault(m) \/ StartCall(m) \/ Exit(m) PROVE Goal
  <2>1. CASE LoseReply(m)
    BY <2>1, LoseReplyClaims
  <2>2. CASE LateDelivery(m)
    BY <2>2, LateDeliveryClaims
  <2>3. CASE ~LoseReply(m) /\ ~LateDelivery(m)
    <3>1. (\A a \in Member : Unmoved(a)) /\ key' = key /\ age' = age
      BY <1>6, <2>3, QuietSteps DEF Fault
    <3> QED
      BY <3>1, UnmovedSeparation, UnmovedKey
  <2> QED
    BY <2>1, <2>2, <2>3
<1>7. ASSUME NEW m \in Member, Stop(m) PROVE Goal
  BY <1>7 DEF Stop, Defaults
<1> QED
  BY <1>1, <1>2, <1>3, <1>4, <1>5, <1>6, <1>7 DEF Next

-----------------------------------------------------------------------------
LEMMA InitInductive ==
  ASSUME Init PROVE IndInv
<1>1. TypeOK
  BY InitTyped DEF TypeInv
<1> QED
  BY <1>1 DEF Init, IndInv, ControlInv, ClockInv, KeyInv, SeparationInv, Ticking,
              Handling, Claims

LEMMA StepInductive ==
  ASSUME Defaults, IndInv, [Next]_vars PROVE IndInv'
<1>1. TimerInv
  BY TimeAssumption DEF IndInv, ClockInv, TimerInv
<1>2. TypeOK'
  BY <1>1, TypeStep DEF IndInv, TypeInv
<1> QED
  BY <1>2, ControlStep, ClockStep, ClaimStep DEF IndInv

\* IndInv is an invariant of the campaigns.
THEOREM InductiveInvariant ==
  ASSUME Defaults PROVE Spec => []IndInv
BY InitInductive, StepInductive, PTL DEF Spec

\* No two members are IsLeader() at once: for any number of members, any loss,
\* delay or reordering of requests, any crash and restart, if a campaign takes
\* less than half a TTL.
THEOREM ElectionSafe ==
  ASSUME Defaults PROVE Spec => []MutualExclusion
<1>1. IndInv => MutualExclusion
  BY DEF IndInv, MutualExclusion, IsLeader, SeparationInv, Superseding, Claims,
         Established
<1> QED
  BY <1>1, InductiveInvariant, PTL

\* A leader that the bucket no longer confirms has stood down an interval and a
\* campaign's duration after the tick of its last accepted campaign.
THEOREM LeaderStandsDown ==
  ASSUME Defaults PROVE Spec => []StandsDownInTime
<1>1. IndInv => StandsDownInTime
  BY LeaseBound DEF IndInv, StandsDownInTime, IsLeader
<1> QED
  BY <1>1, InductiveInvariant, PTL

-----------------------------------------------------------------------------
(* What an election promises to who asks IsLeader(): a semaphore with one  *)
(* place.                                                                  *)

Leading == {m \in Member : IsLeader(m)}

Lock == INSTANCE Semaphore WITH Worker <- Member, holders <- Leading, places <- 1

\* A step changes what at most one member is told.
LEMMA OneMoves ==
  ASSUME TypeOK, [Next]_vars
  PROVE  \/ Leading' = Leading
         \/ \E m \in Member : \A a \in Member \ {m} : a \in Leading' <=> a \in Leading
<1> USE DEF TypeOK, Leading, IsLeader, bucket, object, goroutine
<1>1. ASSUME UNCHANGED <<state, notifyNext>> PROVE Leading' = Leading
  BY <1>1
<1>2. ASSUME NEW m \in Member, NEW s, NEW n,
             state' = state \/ state' = [state EXCEPT ![m] = s],
             notifyNext' = notifyNext \/ notifyNext' = [notifyNext EXCEPT ![m] = n]
      PROVE  \A a \in Member \ {m} : a \in Leading' <=> a \in Leading
  <2>1. \A a \in Member \ {m} : state'[a] = state[a] /\ notifyNext'[a] = notifyNext[a]
    BY <1>2
  <2> QED BY <2>1
<1> HIDE DEF TypeOK, Leading, IsLeader
<1>3. ASSUME NEW m \in Member, CampaignWon(m) \/ LeadershipLost(m) \/ LeadershipKept(m)
      PROVE  \A a \in Member \ {m} : a \in Leading' <=> a \in Leading
  BY <1>2, <1>3 DEF CampaignWon, LeadershipLost, LeadershipKept
<1>4. ASSUME NEW m \in Member, Started(m) \/ Exit(m) \/ Crash(m)
      PROVE  \A a \in Member \ {m} : a \in Leading' <=> a \in Leading
  BY <1>2, <1>4 DEF Started, Exit, Crash
<1>5. ASSUME NEW m \in Member, \/ FirstCampaign(m) \/ Campaign(m) \/ Accept(m) \/ Reject(m) \/ CampaignLost(m)
                               \/ StartFails(m) \/ Cancel(m) \/ LoseRequest(m) \/ LoseReply(m) \/ LateDelivery(m)
                               \/ StartCall(m) \/ Stop(m)
      PROVE  Leading' = Leading
  BY <1>1, <1>5 DEF FirstCampaign, Campaign, Accept, Reject, CampaignLost, StartFails, Cancel, LoseRequest,
                    LoseReply, LateDelivery, StartCall, Stop
<1>6. CASE Tick \/ Expire \/ Evict \/ Settle \/ UNCHANGED vars
  BY <1>1, <1>6 DEF Tick, Expire, Evict, Settle, vars
<1> QED BY <1>3, <1>4, <1>5, <1>6 DEF Next, Step, Fault

\* With at most one leader before and after a step, that step takes the place
\* when it is free, gives it up, or neither.
LEMMA LockStep ==
  ASSUME TypeOK, MutualExclusion, MutualExclusion', [Next]_vars
  PROVE  [Lock!Next]_Lock!svars
<1>0. /\ Leading \subseteq Member /\ \A a, b \in Leading : a = b
      /\ Leading' \subseteq Member /\ \A a, b \in Leading' : a = b
  BY DEF Leading, MutualExclusion
<1>1. CASE Leading' = Leading
  BY <1>1 DEF Lock!svars
<1>2. ASSUME NEW m \in Member, \A a \in Member \ {m} : a \in Leading' <=> a \in Leading
      PROVE  [Lock!Next]_Lock!svars
  <2>1. CASE m \in Leading /\ m \notin Leading'
    <3>1. Leading' = Leading \ {m} /\ {m} \in SUBSET Leading /\ {m} # {}
      BY <1>0, <1>2, <2>1
    <3> QED BY <3>1 DEF Lock!Next, Lock!Release
  <2>2. CASE m \notin Leading /\ m \in Leading'
    <3>1. Leading = {} /\ Leading' = Leading \cup {m}
      BY <1>0, <1>2, <2>2
    <3>2. Lock!Cardinality(Leading) = 0
      <4>1. Lock!Cardinality({}) = Cardinality({})
        BY DEF Lock!Cardinality, Cardinality
      <4> QED BY <3>1, <4>1, FS_EmptySet
    <3>3. Lock!Acquire(m)
      BY <2>2, <3>1, <3>2 DEF Lock!Acquire
    <3> QED BY <3>3 DEF Lock!Next
  <2>3. CASE m \in Leading <=> m \in Leading'
    <3>1. Leading' = Leading
      BY <1>0, <1>2, <2>3
    <3> QED BY <1>1, <3>1
  <2> QED BY <2>1, <2>2, <2>3
<1> QED BY <1>1, <1>2, OneMoves

\* An election is a lock: who comes to lead finds nobody leading, and leadership
\* never passes from one member to another in one step, under the assumptions
\* of mutual exclusion.
THEOREM ElectionIsALock ==
  ASSUME Defaults PROVE Spec => Lock!Spec
<1>1. Init => Lock!Init
  BY DEF Init, Lock!Init, Leading, IsLeader
<1>2. TypeOK /\ MutualExclusion /\ MutualExclusion' /\ [Next]_vars => [Lock!Next]_Lock!svars
  BY LockStep
<1> QED
  BY <1>1, <1>2, TypeCorrect, ElectionSafe, PTL DEF Spec, Lock!Spec
=============================================================================
