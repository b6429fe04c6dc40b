------------------------------- MODULE Client -------------------------------
(***************************************************************************)
(* A batched RPC request (providers/agent/mcorpc/client) over the low      *)
(* level client (client/client): the targets are asked a batch at a time   *)
(* on one connection.  For every batch a receiver subscribes the one reply *)
(* subject, a handler takes the replies until it has heard of every node   *)
(* of the batch or its timeout fires, and the copier of the subscription   *)
(* gives it up when the context of the batch ends, which nobody waits for. *)
(***************************************************************************)
EXTENDS Naturals, Sequences, FiniteSets, SequencesExt

CONSTANTS
  Targets,    \* the discovered nodes, a sequence
  BatchSize,
  Sleeps      \* TRUE when the sleep between batches outlasts what a copier does

ASSUME ClientAssumption ==
  /\ Targets \in Seq(Range(Targets)) \ {<<>>} /\ IsInjective(Targets)
  /\ BatchSize \in Nat \ {0}
  /\ Sleeps \in BOOLEAN

Node == Range(Targets)

InGroups(set, size) ==
  [i \in 1..((Len(set) + size - 1) \div size) |->
     SubSeq(set, (i - 1) * size + 1, IF i * size > Len(set) THEN Len(set) ELSE i * size)]

Groups  == InGroups(Targets, BatchSize)
Batch   == DOMAIN Groups
Nodes(b) == Range(Groups[b])

VARIABLES
  pc,           \* Do(): "sleep", "request", "publish", "wait", "failed" or "done"
  batch,        \* the batch it is at
  err,          \* it returns an error
  ctx,          \* the context of the caller has ended
  over,         \* batches whose own context has ended
  timedOut,     \* batches that ran into their timeout
  \* the low level client
  recv,         \* receiver(): "none", "start", "subscribe", "ready" or "done"
  hnd,          \* msgHandler(): "none", "run" or "done"
  receiverReady,\* tokens in the channel, which has room for one
  replies,      \* the channel of replies, shared by the batches
  \* the connection
  entry,        \* batches whose subscription is found under "replies": at most one
  live,         \* subscriptions the broker knows
  copier,       \* "none", "run" or "done"
  quit, closed, \* subscriptions told to quit, with a closed channel
  in,           \* their channels
  link,         \* the connection: "open", "closing" or "closed"
  panicked,     \* something was sent to a closed channel
  \* the nodes
  asked,        \* how often a node was sent the request
  answered,     \* nodes that sent their reply
  \* the statistics
  outstanding, unexpected,       \* of every batch
  noResponse, totalUnexpected,   \* of the request
  handled,      \* how often the reply of a node was counted
  late          \* nodes whose reply was counted after Do() returned

do    == <<pc, batch, err, timedOut>>
low   == <<recv, hnd, receiverReady, replies>>
conn  == <<entry, live, copier, quit, closed, in, link, panicked>>
nodes == <<asked, answered>>
stats == <<outstanding, unexpected, noResponse, totalUnexpected, handled, late>>
vars  == <<do, ctx, over, low, conn, nodes, stats>>

Ended(b) == ctx \/ b \in over
Running  == ~panicked

-----------------------------------------------------------------------------
(* doBatchedRequest() and Request().                                       *)

\* InterruptableSleep(), which the first batch does not.  A timer of zero is
\* due at once: select may prefer it to a context that has ended.  Nothing was
\* heard of the batch that is not begun, there is nothing to merge.
Sleep ==
  /\ Running /\ pc = "sleep"
  /\ \/ /\ Sleeps => (batch = 1 \/ ~ctx) /\ \A b \in 1..(batch - 1) : copier[b] # "run"
        /\ pc' = "request" /\ err' = err
     \/ /\ batch > 1 /\ ctx
        /\ pc' = "done" /\ err' = TRUE
  /\ UNCHANGED <<batch, timedOut, ctx, over, low, conn, nodes, stats>>

Request ==
  /\ Running /\ pc = "request"
  /\ pc' = "publish"
  /\ recv' = [recv EXCEPT ![batch] = "start"]
  /\ UNCHANGED <<batch, err, timedOut, ctx, over, hnd, receiverReady, replies, conn, nodes, stats>>

\* publish(), once a receiver is ready: the nodes of the batch are sent the
\* request one after the other, and it may fail after k of them.
Publish(k) ==
  /\ Running /\ pc = "publish" /\ receiverReady > 0
  /\ k <= Len(Groups[batch]) /\ (k > 0 => link # "closed")
  /\ receiverReady' = receiverReady - 1
  /\ asked' = [n \in Node |-> IF \E i \in 1..k : n = Groups[batch][i] THEN asked[n] + 1 ELSE asked[n]]
  /\ pc' = IF k = Len(Groups[batch]) THEN "wait" ELSE "failed"
  /\ UNCHANGED <<batch, err, timedOut, ctx, over, recv, hnd, replies, conn, answered, stats>>

PublishNothing ==
  /\ Running /\ pc = "publish" /\ Ended(batch)
  /\ pc' = "wait"
  /\ UNCHANGED <<batch, err, timedOut, ctx, over, low, conn, nodes, stats>>

Merge(b) ==
  /\ noResponse' = noResponse \ (Nodes(b) \ outstanding[b])
  /\ totalUnexpected' = totalUnexpected \cup unexpected[b]

\* Variant for mutation: statistics that are not merged.
FinishUnmerged ==
  /\ Running /\ pc = "wait" /\ recv[batch] = "done" /\ hnd[batch] = "done"
  /\ over' = over \cup {batch}
  /\ IF batch < Len(Groups) THEN pc' = "sleep" /\ batch' = batch + 1
                            ELSE pc' = "done" /\ batch' = batch
  /\ UNCHANGED <<err, timedOut, ctx, low, conn, nodes, stats>>

\* wg.Wait() is over: Request() cancels its context, and what the batch saw is
\* merged into the statistics of the request.
Finish ==
  /\ Running /\ pc = "wait" /\ recv[batch] = "done" /\ hnd[batch] = "done"
  /\ over' = over \cup {batch}
  /\ Merge(batch)
  /\ IF batch < Len(Groups) THEN pc' = "sleep" /\ batch' = batch + 1
                            ELSE pc' = "done" /\ batch' = batch
  /\ UNCHANGED <<err, timedOut, ctx, low, conn, nodes, outstanding, unexpected, handled, late>>

\* Nobody waits when publishing failed: the statistics are merged while the
\* handler may still be at work.
Abandon ==
  /\ Running /\ pc = "failed"
  /\ pc' = "done" /\ err' = TRUE
  /\ over' = over \cup {batch}
  /\ Merge(batch)
  /\ UNCHANGED <<batch, timedOut, ctx, low, conn, nodes, outstanding, unexpected, handled, late>>

Interrupt ==
  /\ Running /\ ~ctx /\ pc # "done"
  /\ ctx' = TRUE
  /\ UNCHANGED <<do, over, low, conn, nodes, stats>>

-----------------------------------------------------------------------------
(* receiver() and msgHandler().                                            *)

\* The handler is started and QueueSubscribe() replaces what is under "replies".
Receive(b) ==
  /\ Running /\ recv[b] = "start"
  /\ recv' = [recv EXCEPT ![b] = "subscribe"]
  /\ hnd' = [hnd EXCEPT ![b] = "run"]
  /\ entry' = {b}
  /\ copier' = [copier EXCEPT ![b] = "run"]
  /\ UNCHANGED <<do, ctx, over, receiverReady, replies, live, quit, closed, in, link, panicked, nodes, stats>>

\* Variant for mutation: ready before the broker knows of the subscription.
SubscribeLate(b) ==
  /\ Running /\ recv[b] = "subscribe"
  /\ recv' = [recv EXCEPT ![b] = "ready"]
  /\ UNCHANGED <<do, ctx, over, hnd, receiverReady, replies, conn, nodes, stats>>

\* That the broker does not accept it, once the connection is closed, is ignored.
Subscribe(b) ==
  /\ Running /\ recv[b] = "subscribe"
  /\ recv' = [recv EXCEPT ![b] = "ready"]
  /\ live' = IF link = "closed" THEN live ELSE live \cup {b}
  /\ UNCHANGED <<do, ctx, over, hnd, receiverReady, replies, entry, copier, quit, closed, in, link, panicked, nodes, stats>>

Ready(b) ==
  /\ Running /\ recv[b] = "ready" /\ receiverReady < 1
  /\ receiverReady' = receiverReady + 1
  /\ recv' = [recv EXCEPT ![b] = "done"]
  /\ UNCHANGED <<do, ctx, over, hnd, replies, conn, nodes, stats>>

RecordReceived(b, n) ==
  /\ outstanding' = [outstanding EXCEPT ![b] = @ \ {n}]
  /\ unexpected' = IF n \in outstanding[b] THEN unexpected ELSE [unexpected EXCEPT ![b] = @ \cup {n}]
  /\ handled' = [handled EXCEPT ![n] = @ + 1]
  /\ late' = IF pc = "done" THEN late \cup {n} ELSE late

\* The handler of the request; when All() nodes are heard of it ends the batch,
\* but not with a reply that ParseReply() refuses.
Handle(b) ==
  /\ Running /\ hnd[b] = "run" /\ replies # <<>>
  /\ RecordReceived(b, Head(replies))
  /\ \/ UNCHANGED over
     \/ outstanding'[b] = {} /\ over' = over \cup {b}
  /\ replies' = Tail(replies)
  /\ UNCHANGED <<do, ctx, recv, hnd, receiverReady, conn, nodes, noResponse, totalUnexpected>>

\* A reply that cannot be decoded counts as failed and is of nobody.
HandleUnreadable(b) ==
  /\ Running /\ hnd[b] = "run" /\ replies # <<>>
  /\ replies' = Tail(replies)
  /\ UNCHANGED <<do, ctx, over, recv, hnd, receiverReady, conn, nodes, stats>>

\* Variant for mutation: without the timeout.
HandlerEndOnContext(b) ==
  /\ Running /\ hnd[b] = "run"
  /\ Ended(b) /\ timedOut' = timedOut
  /\ hnd' = [hnd EXCEPT ![b] = "done"]
  /\ UNCHANGED <<pc, batch, err, ctx, over, recv, receiverReady, replies, conn, nodes, stats>>

HandlerEnd(b) ==
  /\ Running /\ hnd[b] = "run"
  /\ \/ Ended(b) /\ timedOut' = timedOut
     \/ timedOut' = timedOut \cup {b}
  /\ hnd' = [hnd EXCEPT ![b] = "done"]
  /\ UNCHANGED <<pc, batch, err, ctx, over, recv, receiverReady, replies, conn, nodes, stats>>

-----------------------------------------------------------------------------
(* The subscription of a batch: QueueSubscribe(), Unsubscribe(), Close().  *)

Copy(b) ==
  /\ Running /\ copier[b] = "run" /\ in[b] # <<>>
  /\ replies' = Append(replies, Head(in[b]))
  /\ in' = [in EXCEPT ![b] = Tail(@)]
  /\ UNCHANGED <<do, ctx, over, recv, hnd, receiverReady, entry, live, copier, quit, closed, link, panicked, nodes, stats>>

\* Unsubscribe() gives up what is under "replies" now; a subscription the broker
\* does not know yet is only told to quit.
Unsubscribe ==
  /\ live' = live \ entry
  /\ quit' = quit \cup entry
  /\ entry' = {}

CopierEnd(b) ==
  /\ Running /\ copier[b] = "run" /\ Ended(b)
  /\ Unsubscribe
  /\ copier' = [copier EXCEPT ![b] = "done"]
  /\ UNCHANGED <<do, ctx, over, low, closed, in, link, panicked, nodes, stats>>

CopierQuit(b) ==
  /\ Running /\ copier[b] = "run" /\ b \in quit
  /\ copier' = [copier EXCEPT ![b] = "done"]
  /\ closed' = closed \cup {b}
  /\ UNCHANGED <<do, ctx, over, low, entry, live, quit, in, link, panicked, nodes, stats>>

\* The goroutine that closes the connection when Do() returns, or is
\* interrupted: Close() gives up what is subscribed ...
CloseConnection ==
  /\ Running /\ (pc = "done" \/ ctx) /\ link = "open"
  /\ link' = "closing"
  /\ Unsubscribe
  /\ UNCHANGED <<do, ctx, over, low, copier, closed, in, panicked, nodes, stats>>

\* ... and then the connection, with subscriptions that were made meanwhile.
CloseNats ==
  /\ Running /\ link = "closing"
  /\ link' = "closed"
  /\ live' = {}
  /\ UNCHANGED <<do, ctx, over, low, entry, copier, quit, closed, in, panicked, nodes, stats>>

\* A node answers once, on the one reply subject: every subscription has a copy.
Reply(n) ==
  /\ Running /\ asked[n] > 0 /\ n \notin answered
  /\ answered' = answered \cup {n}
  /\ in' = [b \in Batch |-> IF b \in live \ closed THEN Append(in[b], n) ELSE in[b]]
  /\ panicked' = (live \cap closed # {})
  /\ UNCHANGED <<do, ctx, over, low, entry, live, copier, quit, closed, link, asked, stats>>

-----------------------------------------------------------------------------
Init ==
  /\ pc = "sleep" /\ batch = 1 /\ err = FALSE /\ ctx = FALSE /\ over = {} /\ timedOut = {}
  /\ recv = [b \in Batch |-> "none"] /\ hnd = [b \in Batch |-> "none"]
  /\ receiverReady = 0 /\ replies = <<>>
  /\ entry = {} /\ live = {} /\ copier = [b \in Batch |-> "none"]
  /\ quit = {} /\ closed = {} /\ in = [b \in Batch |-> <<>>]
  /\ link = "open" /\ panicked = FALSE
  /\ asked = [n \in Node |-> 0] /\ answered = {}
  /\ outstanding = [b \in Batch |-> Nodes(b)] /\ unexpected = [b \in Batch |-> {}]
  /\ noResponse = Node /\ totalUnexpected = {}
  /\ handled = [n \in Node |-> 0] /\ late = {}

Do == Sleep \/ Request \/ (\E k \in 0..BatchSize : Publish(k)) \/ PublishNothing \/ Finish \/ Abandon

Receiver(b) == Receive(b) \/ Subscribe(b) \/ Ready(b)

Handler(b) == Handle(b) \/ HandleUnreadable(b) \/ HandlerEnd(b)

Copier(b) == Copy(b) \/ CopierEnd(b) \/ CopierQuit(b)

Next ==
  \/ Do \/ Interrupt \/ CloseConnection \/ CloseNats
  \/ \E b \in Batch : Receiver(b) \/ Handler(b) \/ Copier(b)
  \/ \E n \in Node : Reply(n)

Spec == Init /\ [][Next]_vars

\* Every goroutine of the client runs and its timers fire; nodes may be silent.
FairSpec ==
  /\ Spec
  /\ WF_vars(Do) /\ WF_vars(CloseConnection \/ CloseNats)
  /\ \A b \in Batch : WF_vars(Receiver(b)) /\ WF_vars(Copier(b)) /\ WF_vars(HandlerEnd(b))

-----------------------------------------------------------------------------
(* Properties.                                                             *)

TypeOK ==
  /\ pc \in {"sleep", "request", "publish", "wait", "failed", "done"} /\ batch \in Batch
  /\ err \in BOOLEAN /\ ctx \in BOOLEAN /\ over \subseteq Batch /\ timedOut \subseteq Batch
  /\ recv \in [Batch -> {"none", "start", "subscribe", "ready", "done"}]
  /\ hnd \in [Batch -> {"none", "run", "done"}]
  /\ receiverReady \in 0..1 /\ replies \in Seq(Node)
  /\ entry \subseteq Batch /\ Cardinality(entry) <= 1 /\ live \subseteq Batch
  /\ copier \in [Batch -> {"none", "run", "done"}]
  /\ quit \subseteq Batch /\ closed \subseteq Batch /\ in \in [Batch -> Seq(Node)]
  /\ link \in {"open", "closing", "closed"} /\ panicked \in BOOLEAN /\ asked \in [Node -> Nat] /\ answered \subseteq Node
  /\ outstanding \in [Batch -> SUBSET Node] /\ unexpected \in [Batch -> SUBSET Node]
  /\ noResponse \subseteq Node /\ totalUnexpected \subseteq Node /\ handled \in [Node -> Nat]
  /\ late \subseteq Node

\* Of a request without error or interrupt every target was asked, once.
AskedOnce ==
  /\ \A n \in Node : asked[n] <= 1
  /\ pc = "done" /\ ~err /\ ~ctx => \A n \in Node : asked[n] = 1

\* From the moment a batch is published until its context ends the broker
\* knows its subscription.  This needs the sleep between batches: without it
\* the copier of the last batch may give up the subscription of this one, which
\* has the same name.
Listening ==
  \A b \in Batch : b = batch /\ pc = "wait" /\ hnd[b] = "run" /\ ~Ended(b) => b \in live

\* The reply of a node is counted once, although batches share a subject.
CountedOnce == \A n \in Node : handled[n] <= 1

\* A batch that did not run into its timeout, and was not interrupted, has
\* heard of all its nodes; and the total says no response of exactly the nodes
\* that were not heard of in their own batch when Do() returned, also where
\* publishing failed after some had been asked.  A reply is counted after
\* that only when Do() returned an error.
NobodyMissed ==
  /\ \A b \in Batch : hnd[b] = "done" /\ b \notin timedOut /\ ~ctx /\ ~err => outstanding[b] = {}
  /\ pc = "done" => \A b \in Batch : \A n \in Nodes(b) : n \in noResponse <=> n \in outstanding[b] \/ n \in late
  /\ late # {} => pc = "done" /\ err

\* An unexpected response is the late one of a node whose batch timed out, and
\* who is therefore also among those that did not respond.
UnexpectedIsLate ==
  pc = "done" => \A n \in totalUnexpected : n \in noResponse /\ \E b \in timedOut : n \in Nodes(b)

\* What the caller is told, in replies and in statistics, is what happened.
StatsAgree == AskedOnce /\ CountedOnce /\ NobodyMissed /\ UnexpectedIsLate

\* Do() returns, whatever the nodes do, unless an interrupt closes a
\* subscription that is being made, and a reply is sent to its closed channel.
Returns == <>(pc = "done" \/ (panicked /\ ctx))

=============================================================================
