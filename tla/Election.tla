------------------------------ MODULE Election ------------------------------
(***************************************************************************)
(* Leader election over a key in a NATS key-value bucket                   *)
(* (providers/election/streams).  Every member of an election runs one     *)
(* campaign goroutine (Start) that, on a ticker, either creates the key    *)
(* (a candidate) or updates it against the revision it last obtained (the  *)
(* leader).  The bucket drops the key TTL after its last write.            *)
(*                                                                         *)
(* Time is discrete and relative: the key, the tickers and the campaigns   *)
(* have clocks that Tick advances together.  The one timing assumption is  *)
(* MaxDelay: a campaign is over (request answered or given up on, callbacks *)
(* returned) at most MaxDelay after its ticker fired.                      *)
(*                                                                         *)
(* Revisions are not numbered.  All the code does with a revision is to    *)
(* have the bucket compare it with the key's present one, so a revision is *)
(* "current" or "stale"; math.MaxUint64 (none known) is "max".             *)
(***************************************************************************)
EXTENDS Naturals, Sequences

CONSTANTS
  Member,       \* the campaigners
  TTL,          \* bucket TTL
  CInterval,    \* campaign interval, 0.75 * TTL unless configured
  MaxDelay,     \* bound on the duration of one campaign, see above
  Backoff,      \* WithBackoff: the sets of possible Duration(0), Duration(1)...
                \* or <<>> when the option is not used
  StopCallers,  \* members somebody calls Stop() on
  Evictable     \* can an operator delete the key (choria election evict)

\* configure() refuses a TTL under a second and an interval within a second
\* of it; the unit of time is that second.
ASSUME TimeAssumption ==
  /\ TTL \in Nat /\ CInterval \in Nat /\ MaxDelay \in Nat
  /\ 1 <= CInterval /\ CInterval + 1 <= TTL
  /\ MaxDelay < CInterval

ASSUME BackoffAssumption ==
  /\ Backoff \in Seq(SUBSET (Nat \ {0}))
  /\ \A i \in DOMAIN Backoff : Backoff[i] # {}

ASSUME EnvironmentAssumption ==
  /\ StopCallers \subseteq Member
  /\ Evictable \in BOOLEAN

VARIABLES
  \* the bucket
  key,         \* does the key exist
  age,         \* time since the key was last written, up to TTL
  \* the election object of each member
  state,       \* "unknown", "candidate" or "leader"
  lastSeq,     \* revision obtained by the last won campaign
  notifyNext,  \* won the key, OnWon not yet called
  tries,       \* lost campaigns in a row, up to what Backoff distinguishes
  mu,          \* who holds the mutex: "free", "try", "stop" or "start"
  ctx,         \* is the context cancelled
  \* the goroutine in Start() of each member
  pc,          \* "off", "lock", "splay", "wait", "sent", "answered"
  timer,       \* time to the next tick of the ticker
  fired,       \* a tick is waiting in the ticker's channel
  late,        \* time since the tick that is being handled fired
  reply,       \* outcome of the outstanding request
  orphan,      \* a request given up on that may still reach the bucket
  \* history and environment
  lease,       \* time since the tick of the last campaign the leader won
  calm         \* from now on nothing fails

bucket    == <<key, age>>
object    == <<state, lastSeq, notifyNext, tries, mu, ctx>>
goroutine == <<pc, timer, fired, late, reply, orphan>>
vars      == <<bucket, object, goroutine, lease, calm>>

-----------------------------------------------------------------------------
(* The bucket (external: NATS JetStream, as used by Create and Update).    *)

\* Any write or removal makes every revision handed out before it stale.
Outdated(f) == [m \in Member |-> IF f[m] = "current" THEN "stale" ELSE f[m]]

\* An abandoned Update names a revision, so it cannot succeed once the key
\* changed; an abandoned Create can, whenever the key is gone.
Superseded(f) == [m \in Member |-> IF f[m] = "update" THEN "none" ELSE f[m]]

Write ==
  /\ key' = TRUE
  /\ age' = 0
  /\ lastSeq' = Outdated(lastSeq)

Remove ==
  /\ key' = FALSE
  /\ age' = 0
  /\ lastSeq' = Outdated(lastSeq)
  /\ reply' = Outdated(reply)
  /\ orphan' = Superseded(orphan)

\* Variant for mutation: the leader Puts the key, whatever its revision.
AcceptsPut(m) == IF state[m] = "leader" THEN key ELSE ~key

\* What the bucket accepts: Create needs the key to be absent, Update needs
\* the revision of the caller to be the key's.
Accepts(m) == IF state[m] = "leader" THEN lastSeq[m] = "current" ELSE ~key

\* MaxAge expires the key; never before TTL, possibly later.
Expire ==
  /\ key
  /\ age = TTL
  /\ Remove
  /\ UNCHANGED <<state, notifyNext, tries, mu, ctx, pc, timer, fired, late,
                 lease, calm>>

\* An operator deletes the key.
Evict ==
  /\ Evictable
  /\ ~calm
  /\ key
  /\ Remove
  /\ UNCHANGED <<state, notifyNext, tries, mu, ctx, pc, timer, fired, late,
                 lease, calm>>

\* A request its sender gave up on is applied after all.
LateDelivery(m) ==
  /\ orphan[m] # "none"
  /\ orphan[m] = "create" => ~key
  /\ Write
  /\ reply' = Outdated(reply)
  /\ orphan' = Superseded([orphan EXCEPT ![m] = "none"])
  /\ UNCHANGED <<state, notifyNext, tries, mu, ctx, pc, timer, fired, late,
                 lease, calm>>

-----------------------------------------------------------------------------
(* Start(), Stop() and the end of the campaign goroutine.                  *)

\* Duration(n) of the backoff policy saturates at its last entry.
Duration(n) == Backoff[IF n < Len(Backoff) THEN n + 1 ELSE Len(Backoff)]

\* The interval a new ticker, or with backoff every Reset of it, gets.
Interval(n) == IF Backoff = <<>> THEN {CInterval} ELSE Duration(n)

StartCall(m) ==
  /\ pc[m] = "off"
  /\ pc' = [pc EXCEPT ![m] = "lock"]
  /\ ctx' = [ctx EXCEPT ![m] = FALSE]
  /\ UNCHANGED <<bucket, state, lastSeq, notifyNext, tries, mu, timer, fired,
                 late, reply, orphan, lease, calm>>

\* configure() succeeds and campaign() begins with its splay.
Started(m) ==
  /\ pc[m] = "lock"
  /\ mu[m] = "free"
  /\ pc' = [pc EXCEPT ![m] = "splay"]
  /\ state' = [state EXCEPT ![m] = "candidate"]
  /\ UNCHANGED <<bucket, lastSeq, notifyNext, tries, mu, ctx, timer, fired,
                 late, reply, orphan, lease, calm>>

\* configure() fails: Start() returns the error with the mutex held.
StartFails(m) ==
  /\ ~calm
  /\ pc[m] = "lock"
  /\ mu[m] = "free"
  /\ mu' = [mu EXCEPT ![m] = "start"]
  /\ pc' = [pc EXCEPT ![m] = "off"]
  /\ UNCHANGED <<bucket, state, lastSeq, notifyNext, tries, ctx, timer, fired,
                 late, reply, orphan, lease, calm>>

\* The owner of the context passed to Start() cancels it.
Cancel(m) ==
  /\ ~calm
  /\ pc[m] # "off"
  /\ ~ctx[m]
  /\ ctx' = [ctx EXCEPT ![m] = TRUE]
  /\ UNCHANGED <<bucket, state, lastSeq, notifyNext, tries, mu, goroutine,
                 lease, calm>>

\* Variant for mutation: stop() forgets to leave the leader state.
ExitStillLeader(m) ==
  /\ pc[m] = "wait"
  /\ ctx[m]
  /\ mu[m] = "free"
  /\ pc' = [pc EXCEPT ![m] = "off"]
  /\ lastSeq' = [lastSeq EXCEPT ![m] = "max"]
  /\ fired' = [fired EXCEPT ![m] = FALSE]
  /\ timer' = [timer EXCEPT ![m] = 0]
  /\ late' = [late EXCEPT ![m] = 0]
  /\ UNCHANGED <<bucket, state, notifyNext, tries, mu, ctx, reply, orphan, lease, calm>>

\* stop(), reached from the select loop; an interrupted splay does not end the
\* goroutine (the sleep's error is not context.Canceled), the first campaign
\* is still made.  IsLeader() is asked only after state was reset, so OnLost
\* is not called here.
Exit(m) ==
  /\ pc[m] = "wait"
  /\ ctx[m]
  /\ mu[m] = "free"
  /\ pc' = [pc EXCEPT ![m] = "off"]
  /\ state' = [state EXCEPT ![m] = "candidate"]
  /\ lastSeq' = [lastSeq EXCEPT ![m] = "max"]
  /\ fired' = [fired EXCEPT ![m] = FALSE]
  /\ timer' = [timer EXCEPT ![m] = 0]
  /\ late' = [late EXCEPT ![m] = 0]
  /\ lease' = [lease EXCEPT ![m] = 0]
  /\ UNCHANGED <<bucket, notifyNext, tries, mu, ctx, reply, orphan, calm>>

\* Stop() takes the mutex, cancels the context and then calls stop(), which
\* takes the same mutex again: nothing ever releases it.
Stop(m) ==
  /\ m \in StopCallers
  /\ pc[m] \in {"splay", "wait"}
  /\ mu[m] = "free"
  /\ ctx' = [ctx EXCEPT ![m] = TRUE]
  /\ mu' = [mu EXCEPT ![m] = "stop"]
  /\ UNCHANGED <<bucket, state, lastSeq, notifyNext, tries, goroutine, lease, calm>>

\* The process dies; what comes back is a new election object.
Crash(m) ==
  /\ ~calm
  /\ pc' = [pc EXCEPT ![m] = "off"]
  /\ state' = [state EXCEPT ![m] = "unknown"]
  /\ lastSeq' = [lastSeq EXCEPT ![m] = "max"]
  /\ notifyNext' = [notifyNext EXCEPT ![m] = FALSE]
  /\ tries' = [tries EXCEPT ![m] = 0]
  /\ mu' = [mu EXCEPT ![m] = "free"]
  /\ ctx' = [ctx EXCEPT ![m] = FALSE]
  /\ timer' = [timer EXCEPT ![m] = 0]
  /\ fired' = [fired EXCEPT ![m] = FALSE]
  /\ late' = [late EXCEPT ![m] = 0]
  /\ reply' = [reply EXCEPT ![m] = "none"]
  /\ lease' = [lease EXCEPT ![m] = 0]
  /\ UNCHANGED <<bucket, orphan, calm>>

-----------------------------------------------------------------------------
(* One campaign: try(), its request, the answer.                           *)

\* The splay is over: the ticker is made and the first campaign begins.
FirstCampaign(m) ==
  /\ pc[m] = "splay"
  /\ mu[m] = "free"
  /\ mu' = [mu EXCEPT ![m] = "try"]
  /\ pc' = [pc EXCEPT ![m] = "sent"]
  /\ \E d \in Interval(0) : timer' = [timer EXCEPT ![m] = d]
  /\ UNCHANGED <<bucket, state, lastSeq, notifyNext, tries, ctx, fired, late,
                 reply, orphan, lease, calm>>

\* A tick is taken from the ticker: try() takes the mutex and sends Create
\* or Update according to state.
Campaign(m) ==
  /\ pc[m] = "wait"
  /\ fired[m]
  /\ mu[m] = "free"
  /\ mu' = [mu EXCEPT ![m] = "try"]
  /\ pc' = [pc EXCEPT ![m] = "sent"]
  /\ fired' = [fired EXCEPT ![m] = FALSE]
  /\ UNCHANGED <<bucket, state, lastSeq, notifyNext, tries, ctx, timer, late,
                 reply, orphan, lease, calm>>

Answered(m, r) ==
  /\ pc[m] = "sent"
  /\ pc' = [pc EXCEPT ![m] = "answered"]
  /\ reply' = [Outdated(reply) EXCEPT ![m] = r]

\* The bucket handles the request.
Accept(m) ==
  /\ Accepts(m)
  /\ Answered(m, "current")
  /\ Write
  /\ orphan' = Superseded(orphan)
  /\ UNCHANGED <<state, notifyNext, tries, mu, ctx, timer, fired, late, lease, calm>>

Reject(m) ==
  /\ ~Accepts(m)
  /\ pc[m] = "sent"
  /\ pc' = [pc EXCEPT ![m] = "answered"]
  /\ reply' = [reply EXCEPT ![m] = "error"]
  /\ UNCHANGED <<bucket, object, timer, fired, late, orphan, lease, calm>>

\* The request never gets an answer: it is lost, or it is still under way
\* when the caller times out.
LoseRequest(m) ==
  /\ ~calm
  /\ pc[m] = "sent"
  /\ pc' = [pc EXCEPT ![m] = "answered"]
  /\ reply' = [reply EXCEPT ![m] = "error"]
  /\ \/ UNCHANGED orphan
     \/ /\ state[m] = "candidate"
        /\ orphan' = [orphan EXCEPT ![m] = "create"]
     \/ /\ lastSeq[m] = "current"
        /\ orphan' = [orphan EXCEPT ![m] = "update"]
  /\ UNCHANGED <<bucket, object, timer, fired, late, lease, calm>>

\* The request was applied and its acknowledgement is lost.
LoseReply(m) ==
  /\ ~calm
  /\ reply[m] \in {"current", "stale"}
  /\ reply' = [reply EXCEPT ![m] = "error"]
  /\ UNCHANGED <<bucket, object, pc, timer, fired, late, orphan, lease,
                 calm>>

\* The end of tick(): the mutex is released and, with backoff, the ticker is
\* Reset, which also discards a tick that fired meanwhile (Go 1.23).
EndTick(m, n) ==
  /\ pc[m] = "answered"
  /\ pc' = [pc EXCEPT ![m] = "wait"]
  /\ mu' = [mu EXCEPT ![m] = "free"]
  /\ reply' = [reply EXCEPT ![m] = "none"]
  /\ late' = [late EXCEPT ![m] = 0]
  /\ IF Backoff = <<>>
     THEN UNCHANGED <<timer, fired>>
     ELSE /\ \E d \in Duration(n) : timer' = [timer EXCEPT ![m] = d]
          /\ fired' = [fired EXCEPT ![m] = FALSE]

\* campaignForLeadership(): Create failed.
CampaignLost(m) ==
  LET n == IF tries[m] < Len(Backoff) THEN tries[m] + 1 ELSE tries[m] IN
  /\ state[m] = "candidate"
  /\ reply[m] = "error"
  /\ EndTick(m, n)
  /\ tries' = [tries EXCEPT ![m] = n]
  /\ UNCHANGED <<bucket, state, lastSeq, notifyNext, ctx, orphan, lease,
                 calm>>

\* Variant for mutation: the revision won with is not kept.
CampaignWonForgets(m) ==
  /\ state[m] = "candidate"
  /\ reply[m] \in {"current", "stale"}
  /\ EndTick(m, 0)
  /\ state' = [state EXCEPT ![m] = "leader"]
  /\ tries' = [tries EXCEPT ![m] = 0]
  /\ notifyNext' = [notifyNext EXCEPT ![m] = TRUE]
  /\ lease' = [lease EXCEPT ![m] = late[m]]
  /\ UNCHANGED <<bucket, lastSeq, ctx, orphan, calm>>

\* Variant for mutation: who wins the key leads at once.
CampaignWonAtOnce(m) ==
  /\ state[m] = "candidate"
  /\ reply[m] \in {"current", "stale"}
  /\ EndTick(m, 0)
  /\ lastSeq' = [lastSeq EXCEPT ![m] = reply[m]]
  /\ state' = [state EXCEPT ![m] = "leader"]
  /\ tries' = [tries EXCEPT ![m] = 0]
  /\ lease' = [lease EXCEPT ![m] = late[m]]
  /\ UNCHANGED <<bucket, notifyNext, ctx, orphan, calm>>

\* campaignForLeadership(): Create succeeded.
CampaignWon(m) ==
  /\ state[m] = "candidate"
  /\ reply[m] \in {"current", "stale"}
  /\ EndTick(m, 0)
  /\ lastSeq' = [lastSeq EXCEPT ![m] = reply[m]]
  /\ state' = [state EXCEPT ![m] = "leader"]
  /\ tries' = [tries EXCEPT ![m] = 0]
  /\ notifyNext' = [notifyNext EXCEPT ![m] = TRUE]
  /\ lease' = [lease EXCEPT ![m] = late[m]]
  /\ UNCHANGED <<bucket, ctx, orphan, calm>>

\* Variant for mutation: a failed Update is retried before standing down.
LeadershipLostRetry(m) ==
  /\ state[m] = "leader"
  /\ reply[m] = "error"
  /\ EndTick(m, tries[m])
  /\ UNCHANGED <<bucket, state, lastSeq, notifyNext, tries, ctx, orphan, lease, calm>>

\* maintainLeadership(): Update failed, OnLost is called.
LeadershipLost(m) ==
  /\ state[m] = "leader"
  /\ reply[m] = "error"
  /\ EndTick(m, tries[m])
  /\ state' = [state EXCEPT ![m] = "candidate"]
  /\ lastSeq' = [lastSeq EXCEPT ![m] = "max"]
  /\ lease' = [lease EXCEPT ![m] = 0]
  /\ UNCHANGED <<bucket, notifyNext, tries, ctx, orphan, calm>>

\* maintainLeadership(): Update succeeded; the first time OnWon is called.
LeadershipKept(m) ==
  /\ state[m] = "leader"
  /\ reply[m] \in {"current", "stale"}
  /\ EndTick(m, tries[m])
  /\ lastSeq' = [lastSeq EXCEPT ![m] = reply[m]]
  /\ notifyNext' = [notifyNext EXCEPT ![m] = FALSE]
  /\ lease' = [lease EXCEPT ![m] = late[m]]
  /\ UNCHANGED <<bucket, state, tries, ctx, orphan, calm>>

-----------------------------------------------------------------------------
(* Time.                                                                   *)

Ticking(m) == pc[m] \in {"wait", "sent", "answered"}

\* A tick is being handled, or waits for a goroutine that can handle it.
Handling(m) ==
  /\ mu[m] # "stop"
  /\ pc[m] \in {"sent", "answered"} \/ (pc[m] = "wait" /\ fired[m])

\* A second tick finds the ticker's channel full and is dropped.  (With
\* backoff EndTick sets the timer again, whatever Tick set it to.)
Fires(m) == Ticking(m) /\ timer[m] = 1

Tick ==
  /\ \A m \in Member : Handling(m) => late[m] < MaxDelay
  /\ calm => \A m \in Member : Handling(m) => CInterval + late[m] + 1 < TTL
  /\ age' = IF key /\ age < TTL THEN age + 1 ELSE age
  /\ timer' = [m \in Member |-> IF ~Ticking(m) THEN timer[m]
                                ELSE IF Fires(m) THEN CInterval
                                ELSE timer[m] - 1]
  /\ fired' = [m \in Member |-> fired[m] \/ Fires(m)]
  /\ late' = [m \in Member |-> IF Handling(m) THEN late[m] + 1 ELSE late[m]]
  /\ lease' = [m \in Member |-> IF state[m] = "leader" /\ mu[m] # "stop"
                                THEN lease[m] + 1 ELSE lease[m]]
  /\ UNCHANGED <<key, object, pc, reply, orphan, calm>>

\* From here on the network and the processes behave: nothing is lost, and a
\* campaign is answered before the key it renews can expire.  A member whose
\* mutex is lost (StartFails, Stop) stays lost, so one that is not must be left.
Settle ==
  /\ ~calm
  /\ \E m \in Member : mu[m] \notin {"start", "stop"}
  /\ calm' = TRUE
  /\ UNCHANGED <<bucket, object, goroutine, lease>>

-----------------------------------------------------------------------------
Init ==
  /\ key = FALSE
  /\ age = 0
  /\ state = [m \in Member |-> "unknown"]
  /\ lastSeq = [m \in Member |-> "max"]
  /\ notifyNext = [m \in Member |-> FALSE]
  /\ tries = [m \in Member |-> 0]
  /\ mu = [m \in Member |-> "free"]
  /\ ctx = [m \in Member |-> FALSE]
  /\ pc = [m \in Member |-> "off"]
  /\ timer = [m \in Member |-> 0]
  /\ fired = [m \in Member |-> FALSE]
  /\ late = [m \in Member |-> 0]
  /\ reply = [m \in Member |-> "none"]
  /\ orphan = [m \in Member |-> "none"]
  /\ lease = [m \in Member |-> 0]
  /\ calm = FALSE

\* The steps of the member's own code and of its exchange with the bucket.
Step(m) ==
  \/ Started(m)
  \/ FirstCampaign(m)
  \/ Campaign(m)
  \/ Accept(m)
  \/ Reject(m)
  \/ CampaignLost(m)
  \/ CampaignWon(m)
  \/ LeadershipLost(m)
  \/ LeadershipKept(m)

Fault(m) ==
  \/ StartFails(m)
  \/ Cancel(m)
  \/ Crash(m)
  \/ LoseRequest(m)
  \/ LoseReply(m)
  \/ LateDelivery(m)

Next ==
  \/ Tick
  \/ Expire
  \/ Evict
  \/ Settle
  \/ \E m \in Member : Step(m) \/ Fault(m) \/ StartCall(m) \/ Exit(m) \/ Stop(m)

Spec == Init /\ [][Next]_vars

\* Time passes, the bucket expires keys, and the goroutines run.
Fairness ==
  /\ WF_vars(Tick)
  /\ WF_vars(Expire)
  /\ \A m \in Member : WF_vars(Step(m) \/ StartCall(m) \/ Exit(m))

FairSpec == Spec /\ Fairness

-----------------------------------------------------------------------------
(* Properties.                                                             *)

TypeOK ==
  /\ key \in BOOLEAN
  /\ age \in 0..TTL
  /\ state \in [Member -> {"unknown", "candidate", "leader"}]
  /\ lastSeq \in [Member -> {"max", "current", "stale"}]
  /\ notifyNext \in [Member -> BOOLEAN]
  /\ tries \in [Member -> 0..Len(Backoff)]
  /\ mu \in [Member -> {"free", "try", "stop", "start"}]
  /\ ctx \in [Member -> BOOLEAN]
  /\ pc \in [Member -> {"off", "lock", "splay", "wait", "sent", "answered"}]
  /\ timer \in [Member -> Nat]
  /\ fired \in [Member -> BOOLEAN]
  /\ late \in [Member -> 0..MaxDelay]
  /\ reply \in [Member -> {"none", "current", "stale", "error"}]
  /\ orphan \in [Member -> {"none", "create", "update"}]
  /\ lease \in [Member -> Nat]
  /\ calm \in BOOLEAN

\* IsLeader(): leader, and confirmed by a campaign after the one it won.
IsLeader(m) == state[m] = "leader" /\ ~notifyNext[m]

\* Two members are never both IsLeader(), whatever is lost, late or crashed,
\* because winning the key counts only from the next campaign on, when a
\* leader that could not renew it has stood down.
MutualExclusion == \A a, b \in Member : IsLeader(a) /\ IsLeader(b) => a = b

\* A leader cut off from the bucket stands down on time: one that still
\* reports IsLeader() started its last accepted campaign at most an interval
\* and a campaign's duration ago.
StandsDownInTime == \A m \in Member : IsLeader(m) => lease[m] <= CInterval + MaxDelay

\* "Calling leader lost during shutdown": who stops being leader is told.  Not
\* so when the context ends: stop() resets the state before IsLeader() is asked.
ShutdownNotifiesLoss ==
  [][\A m \in Member : IsLeader(m) /\ ~IsLeader(m)' => LeadershipLost(m) \/ Crash(m)]_vars

\* A leader whose key expired, was evicted or was won by another member.
Deposed(m) == state[m] = "leader" /\ lastSeq[m] = "stale" /\ reply[m] # "current"

\* A leader that lost the key does not get it back without having become a
\* candidate, and called OnLost, in between.
NoResurrection ==
  [][\A m \in Member : Deposed(m) /\ state'[m] = "leader" => Deposed(m)']_vars

\* Once nothing fails or is late any more some member becomes leader and
\* leadership never goes away again.
LeadershipSettles == <>calm => <>[](\E m \in Member : IsLeader(m))


-----------------------------------------------------------------------------
(* Why MutualExclusion holds: the inductive invariant of ElectionProofs.    *)

\* m believes, or is about to be told, that its last campaign was accepted.
Claims(m) == state[m] = "leader" \/ reply[m] \in {"current", "stale"}

\* Time since the tick of the last campaign of m the bucket accepted.
Since(m) == IF reply[m] \in {"current", "stale"} THEN late[m] ELSE lease[m]

\* The bucket has accepted an Update of m after the Create it won with.
Established(m) ==
  /\ state[m] = "leader"
  /\ ~notifyNext[m] \/ reply[m] \in {"current", "stale"}

\* The locals of the goroutine agree with each other.
ControlInv ==
  \A m \in Member :
    /\ mu[m] = "try" <=> pc[m] \in {"sent", "answered"}
    /\ mu[m] = "start" => pc[m] \in {"off", "lock"}
    /\ mu[m] # "stop"
    /\ reply[m] # "none" <=> pc[m] = "answered"
    /\ state[m] = "leader" => Ticking(m)
    /\ pc[m] = "splay" => state[m] = "candidate"
    /\ Ticking(m) => state[m] \in {"candidate", "leader"}
    /\ fired[m] => pc[m] = "wait"
    /\ ~Handling(m) => late[m] = 0

\* The ticker is periodic and a leader's lease runs from the tick it was won.
ClockInv ==
  \A m \in Member :
    /\ Ticking(m) => timer[m] \in 1..CInterval
    /\ Handling(m) => timer[m] + late[m] = CInterval
    /\ state[m] = "leader" =>
         IF Handling(m) THEN lease[m] = CInterval + late[m]
                        ELSE lease[m] + timer[m] = CInterval

\* No claim is younger than the key, and an absent key has expired since the
\* last accepted campaign of every member.
KeyInv == \A m \in Member : Claims(m) => Since(m) >= IF key THEN age ELSE TTL

\* a claimed the key, lost it, and b won it TTL or more after a's last
\* accepted campaign, without having confirmed it yet.
Superseding(a, b) ==
  /\ Since(a) + MaxDelay >= TTL + Since(b)
  /\ ~Established(b)
  /\ lastSeq[a] # "current"
  /\ reply[a] # "current"

\* Of two members that claim the key one is on its way out.
SeparationInv ==
  \A a, b \in Member :
    a # b /\ Claims(a) /\ Claims(b) => Superseding(a, b) \/ Superseding(b, a)

\* The strengthening of MutualExclusion and StandsDownInTime that every step
\* of the campaigns preserves.
IndInv ==
  /\ TypeOK
  /\ ControlInv
  /\ ClockInv
  /\ KeyInv
  /\ SeparationInv
=============================================================================
