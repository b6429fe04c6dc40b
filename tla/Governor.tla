------------------------------ MODULE Governor ------------------------------
(***************************************************************************)
(* The governor (providers/governor/streams): a stream with a maximum      *)
(* number of messages, which refuses new ones when full, limits how many   *)
(* workers run at once.  A worker publishes a message, works when it was   *)
(* stored, and deletes it when done.  Messages older than the stream's     *)
(* MaxAge are dropped.                                                     *)
(*                                                                         *)
(* Sequence numbers of the stream are never used twice.  Here they are     *)
(* taken from a finite set, as one that nobody knows any more.             *)
(***************************************************************************)
EXTENDS Naturals, FiniteSets

CONSTANTS
  Worker,      \* workers, each with a Governor object
  Limits,      \* the limits an operator sets
  NoLeave,     \* workers with WithoutLeavingOnCompletion
  CLI,         \* workers that are a "choria governor run", which can be interrupted
  Seq,         \* sequence numbers
  None         \* no sequence number

ASSUME GovernorAssumption ==
  /\ IsFiniteSet(Worker) /\ NoLeave \subseteq Worker /\ CLI \subseteq Worker
  /\ Limits \subseteq Nat \ {0} /\ Limits # {}
  /\ IsFiniteSet(Seq)
  /\ {"full", None} \cap Seq = {}

VARIABLES
  \* the stream
  limit,    \* MaxMsgs
  slots,    \* sequence numbers of the stored messages
  \* the Governor object and the goroutine in Start() of each worker
  running,  \* the flag of the object
  pc,       \* "idle", "sent", "wait" or "working"
  seq,      \* sequence number of the slot Start() returned
  reply,    \* answer of the stream: a sequence number or "full"
  orphan,   \* a request given up on that may still reach the stream, at most one
            \* for a worker: "none", "last" (of the last Start()) or "earlier"
  \* history
  taken,    \* how many slots the last Start() of a worker took
  lost,     \* the slot that Start() took was taken away again
  high      \* the highest limit there was

stream  == <<limit, slots, high>>
object  == <<running, pc, seq, reply, orphan>>
vars    == <<stream, object, taken, lost>>

-----------------------------------------------------------------------------
(* The stream (external: NATS JetStream, configured by streamOpts()).      *)

Full == Cardinality(slots) >= limit

\* Numbers that neither the stream nor a worker holds.
Fresh == Seq \ (slots \cup {seq[w] : w \in Worker} \cup {reply[w] : w \in Worker})

\* Variant for mutation: without DiscardNew a full stream drops an old message.
AdmitDiscardingOld(w) ==
  /\ pc[w] = "sent"
  /\ reply[w] = None
  /\ \E s \in Fresh, out \in SUBSET slots :
       /\ Cardinality(out) = IF Full THEN 1 ELSE 0
       /\ slots' = (slots \ out) \cup {s}
       /\ reply' = [reply EXCEPT ![w] = s]
  /\ taken' = [taken EXCEPT ![w] = @ + 1]
  /\ UNCHANGED <<limit, high, running, pc, seq, orphan, lost>>

\* DiscardNew: a message is stored while there is room.
Admit(w) ==
  /\ pc[w] = "sent"
  /\ reply[w] = None
  /\ ~Full
  /\ \E s \in Fresh :
       /\ slots' = slots \cup {s}
       /\ reply' = [reply EXCEPT ![w] = s]
  /\ taken' = [taken EXCEPT ![w] = @ + 1]
  /\ UNCHANGED <<limit, high, running, pc, seq, orphan, lost>>

\* Error 10077: the stream is full.
Refuse(w) ==
  /\ pc[w] = "sent"
  /\ reply[w] = None
  /\ Full
  /\ reply' = [reply EXCEPT ![w] = "full"]
  /\ UNCHANGED <<stream, running, pc, seq, orphan, taken, lost>>

\* A request that was given up on arrives, and is stored or refused.
LateAdmit(w) ==
  /\ orphan[w] # "none"
  /\ orphan' = [orphan EXCEPT ![w] = "none"]
  /\ \/ /\ ~Full
        /\ \E s \in Fresh : slots' = slots \cup {s}
        /\ taken' = [taken EXCEPT ![w] = IF orphan[w] = "last" THEN @ + 1 ELSE @]
     \/ /\ Full
        /\ UNCHANGED <<slots, taken>>
  /\ UNCHANGED <<limit, high, running, pc, seq, reply, lost>>

Removed(gone) ==
  /\ slots' = slots \ gone
  /\ lost' = [w \in Worker |-> lost[w] \/ {seq[w], reply[w]} \cap gone # {}]
  /\ UNCHANGED <<limit, high, object, taken>>

\* Variant for mutation: a stream without MaxAge.
EvictNever(s) == s \in slots /\ FALSE /\ Removed({s})

\* MaxAge, or an operator's Evict().
Evict(s) == s \in slots /\ Removed({s})

\* An operator's Reset() purges the stream.
Reset == slots # {} /\ Removed(slots)

\* An operator's SetLimit(); messages already stored stay.
SetLimit(l) ==
  /\ l \in Limits \ {limit}
  /\ limit' = l
  /\ high' = IF l > high THEN l ELSE high
  /\ UNCHANGED <<slots, object, taken, lost>>

-----------------------------------------------------------------------------
(* Start().  It holds the mutex of its object while it campaigns; a second *)
(* Start() returns "already running" while running is set and changes      *)
(* nothing.                                                                *)

Start(w) ==
  /\ pc[w] = "idle"
  /\ ~running[w]
  /\ running' = [running EXCEPT ![w] = TRUE]
  /\ pc' = [pc EXCEPT ![w] = "sent"]
  /\ taken' = [taken EXCEPT ![w] = 0]
  /\ lost' = [lost EXCEPT ![w] = FALSE]
  /\ orphan' = [orphan EXCEPT ![w] = IF @ = "last" THEN "earlier" ELSE @]
  /\ UNCHANGED <<stream, seq, reply>>

\* try() succeeds and Start() returns the finisher.
Enter(w) ==
  /\ pc[w] = "sent"
  /\ reply[w] \in Seq
  /\ seq' = [seq EXCEPT ![w] = reply[w]]
  /\ reply' = [reply EXCEPT ![w] = None]
  /\ pc' = [pc EXCEPT ![w] = "working"]
  /\ UNCHANGED <<stream, running, orphan, taken, lost>>

\* errRetry: wait for the ticker.
Wait(w) ==
  /\ pc[w] = "sent"
  /\ reply[w] = "full"
  /\ reply' = [reply EXCEPT ![w] = None]
  /\ pc' = [pc EXCEPT ![w] = "wait"]
  /\ UNCHANGED <<stream, running, seq, orphan, taken, lost>>

Retry(w) ==
  /\ pc[w] = "wait"
  /\ pc' = [pc EXCEPT ![w] = "sent"]
  /\ UNCHANGED <<stream, running, seq, reply, orphan, taken, lost>>

\* The request that was not answered is lost, or still on its way.
Abandon(w) ==
  \/ UNCHANGED orphan
  \/ /\ pc[w] = "sent" /\ reply[w] = None
     /\ orphan' = [orphan EXCEPT ![w] = "last"]

\* Variant for mutation: a timeout is retried like a full stream.
TryFailsRetry(w) ==
  /\ pc[w] = "sent"
  /\ pc' = [pc EXCEPT ![w] = "wait"]
  /\ reply' = [reply EXCEPT ![w] = None]
  /\ UNCHANGED <<stream, running, seq, orphan, taken, lost>>

\* Any other error, and a timeout above all, ends Start().  The request, or a
\* slot whose acknowledgement was lost, is left behind, and running is set.
TryFails(w) ==
  /\ pc[w] = "sent"
  /\ pc' = [pc EXCEPT ![w] = "idle"]
  /\ reply' = [reply EXCEPT ![w] = None]
  /\ Abandon(w)
  /\ UNCHANGED <<stream, running, seq, taken, lost>>

\* The context ends between tries; running stays set.
GiveUp(w) ==
  /\ pc[w] = "wait"
  /\ pc' = [pc EXCEPT ![w] = "idle"]
  /\ UNCHANGED <<stream, running, seq, reply, orphan, taken, lost>>

-----------------------------------------------------------------------------
(* The finisher, new objects and crashes.                                  *)

\* The finisher, which a second call finds done: the message is deleted, unless
\* the worker is to leave it, the delete fails or it is gone already.
Finisher(w) ==
  /\ running' = [running EXCEPT ![w] = FALSE]
  /\ \/ UNCHANGED slots
     \/ running[w] /\ w \notin NoLeave /\ slots' = slots \ {seq[w]}

\* Variant for mutation: the finisher deletes the oldest message, not its own.
FinishAny(w) ==
  /\ pc[w] = "working"
  /\ pc' = [pc EXCEPT ![w] = "idle"]
  /\ seq' = [seq EXCEPT ![w] = None]
  /\ running' = [running EXCEPT ![w] = FALSE]
  /\ \E s \in slots : slots' = slots \ {s}
  /\ UNCHANGED <<limit, high, reply, orphan, taken, lost>>

\* The work is done.
Finish(w) ==
  /\ pc[w] = "working"
  /\ pc' = [pc EXCEPT ![w] = "idle"]
  /\ seq' = [seq EXCEPT ![w] = None]
  /\ Finisher(w)
  /\ UNCHANGED <<limit, high, reply, orphan, taken, lost>>

\* SIGINT: the signal handler calls the finisher; the command is not waited for.
Interrupt(w) ==
  /\ w \in CLI
  /\ pc[w] = "working"
  /\ running[w]
  /\ Finisher(w)
  /\ UNCHANGED <<limit, high, pc, seq, reply, orphan, taken, lost>>

\* The caller makes a new Governor object for its next Start().
Renew(w) ==
  /\ pc[w] = "idle"
  /\ running[w]
  /\ running' = [running EXCEPT ![w] = FALSE]
  /\ UNCHANGED <<stream, pc, seq, reply, orphan, taken, lost>>

\* The worker dies with its slot taken.
Crash(w) ==
  /\ pc[w] # "idle"
  /\ pc' = [pc EXCEPT ![w] = "idle"]
  /\ running' = [running EXCEPT ![w] = FALSE]
  /\ seq' = [seq EXCEPT ![w] = None]
  /\ reply' = [reply EXCEPT ![w] = None]
  /\ Abandon(w)
  /\ UNCHANGED <<stream, taken, lost>>

-----------------------------------------------------------------------------
Init ==
  /\ limit \in Limits
  /\ high = limit
  /\ slots = {}
  /\ running = [w \in Worker |-> FALSE]
  /\ pc = [w \in Worker |-> "idle"]
  /\ seq = [w \in Worker |-> None]
  /\ reply = [w \in Worker |-> None]
  /\ orphan = [w \in Worker |-> "none"]
  /\ taken = [w \in Worker |-> 0]
  /\ lost = [w \in Worker |-> FALSE]

\* A campaign proceeds.
Campaign(w) == Admit(w) \/ Refuse(w) \/ Enter(w) \/ Wait(w) \/ Retry(w)

Next ==
  \/ \E w \in Worker : \/ Start(w) \/ Campaign(w) \/ TryFails(w) \/ GiveUp(w)
                       \/ LateAdmit(w) \/ Finish(w) \/ Interrupt(w)
                       \/ Renew(w) \/ Crash(w)
  \/ \E s \in Seq : Evict(s)
  \/ Reset
  \/ \E l \in Limits : SetLimit(l)

Spec == Init /\ [][Next]_vars

\* Requests are answered, tickers tick and messages reach their MaxAge.  Work
\* may go on for ever.
Fairness ==
  /\ \A w \in Worker : WF_vars(Campaign(w))
  /\ \A s \in Seq : WF_vars(Evict(s))

FairSpec == Spec /\ Fairness

-----------------------------------------------------------------------------
(* Properties.                                                             *)

TypeOK ==
  /\ limit \in Limits /\ high \in Limits
  /\ slots \subseteq Seq
  /\ running \in [Worker -> BOOLEAN]
  /\ pc \in [Worker -> {"idle", "sent", "wait", "working"}]
  /\ seq \in [Worker -> Seq \cup {None}]
  /\ reply \in [Worker -> Seq \cup {None, "full"}]
  /\ orphan \in [Worker -> {"none", "last", "earlier"}]
  /\ taken \in [Worker -> Nat]
  /\ lost \in [Worker -> BOOLEAN]

\* Workers that work, whose slot was neither taken away nor given back.
Governed == {w \in Worker : pc[w] = "working" /\ running[w] /\ ~lost[w]}

\* One Start() takes at most one slot, whatever became of its requests; the
\* reason why only a full stream is worth another try.
NoHoarding == \A w \in Worker : taken[w] <= 1

\* Nobody else's slot is deleted: a worker that works has its slot for itself
\* until it is evicted.
SlotsAreOwned ==
  /\ \A w \in Governed : seq[w] \in slots
  /\ \A v, w \in Governed : seq[v] = seq[w] => v = w

\* Slots leaked by lost replies, late requests and crashes do not block the
\* governor for ever: once failures stop, somebody gets in while a worker waits.
FailuresStop == <>[][\A w \in Worker : ~TryFails(w) /\ ~Crash(w)]_vars
SomebodyGetsIn ==
  FailuresStop => \A w \in Worker : pc[w] \in {"sent", "wait"} ~>
                    (pc[w] = "idle" \/ \E v \in Worker : pc[v] = "working")

\* The governor implements a semaphore with as many places as its highest
\* limit, not counting workers that were evicted or interrupted at their work.
Sem == INSTANCE Semaphore WITH holders <- Governed, places <- high
ImplementsSemaphore == Sem!Spec

\* "Workers ... remove themselves from the Stream once they are done": what
\* works and was not evicted has its slot.  Not so: the signal handler of
\* choria governor run gives the slot back while the command still runs.
SlotsLastAsLongAsWork ==
  \A w \in Worker : pc[w] = "working" /\ ~lost[w] => seq[w] \in slots
=============================================================================
