------------------------------- MODULE Server -------------------------------
(***************************************************************************)
(* Requests in a server (server/processor.go, server/agents, the           *)
(* subscriptions of choria/connection.go): a copier moves what the broker  *)
(* delivers to a channel, the processor starts a dispatcher for a request, *)
(* which starts the agent and waits for its answer, its timeout or the end *)
(* of processing, and hands one reply to the processor, which starts a     *)
(* goroutine to publish it.  Everyone but those last counts in one wait    *)
(* group; when it is empty the process ends.                               *)
(***************************************************************************)
EXTENDS Naturals, Sequences, FiniteSets

CONSTANTS
  Req,       \* requests
  InCap,     \* room in the channel of a subscription, that of the output: 10
  ReqCap,    \* room in srv.requests: 10
  ReplyCap   \* room in the channel of replies: 100

ASSUME ServerAssumption ==
  /\ IsFiniteSet(Req)
  /\ InCap \in Nat \ {0} /\ ReqCap \in Nat \ {0} /\ ReplyCap \in Nat \ {0}

VARIABLES
  \* the subscription
  seen,       \* requests the broker delivered
  in,         \* channel from the NATS client to the copier
  hold,       \* what the copier has in hand: a set of at most one request
  copier,     \* "run" or "done"
  quit,       \* the subscription was given up
  open,       \* the connection is open
  \* the processor
  requests, replies,
  proc,       \* "run", "closing" or "done"
  stop,       \* cancelled contexts: "none", "process", "server" or "parent", each with
              \* those before it
  \* for each request
  disp,       \* Dispatch(): "none", "get", "wait", "send" or "done"
  cause,      \* why it stopped to wait: "none", "result", "error", "interrupt" or "timeout"
  agent,      \* HandleMessage(): "none", "run", "answer" or "done"
  pub,        \* handleReply(): "none", "run", "done" or "failed"
  published,  \* replies the connection took
  \* the instance
  wg,         \* the wait group
  others,     \* the other goroutines that count in it and run, by the context they
              \* have: "server" or "parent"
  ended       \* the wait for it is over

sub  == <<seen, in, hold, copier, quit, open>>
work == <<disp, cause, agent, pub, published>>
inst == <<stop, others, ended>>
vars == <<sub, requests, replies, proc, work, wg, inst>>

-----------------------------------------------------------------------------
(* The subscription: QueueSubscribe().                                     *)

\* The NATS client drops a message its subscriber has no room for.
Deliver(r) ==
  /\ ~ended /\ open /\ ~quit
  /\ r \notin seen
  /\ seen' = seen \cup {r}
  /\ in' = IF Len(in) < InCap THEN Append(in, r) ELSE in
  /\ UNCHANGED <<hold, copier, quit, open, requests, replies, proc, work, wg, inst>>

CopierTake ==
  /\ ~ended /\ copier = "run" /\ hold = {} /\ in # <<>>
  /\ hold' = {Head(in)}
  /\ in' = Tail(in)
  /\ UNCHANGED <<seen, copier, quit, open, requests, replies, proc, work, wg, inst>>

\* While it waits for room the copier sees neither quit nor its context.
CopierPut ==
  /\ ~ended /\ hold # {}
  /\ Len(requests) < ReqCap
  /\ \E r \in hold : requests' = Append(requests, r)
  /\ hold' = {}
  /\ UNCHANGED <<seen, in, copier, quit, open, replies, proc, work, wg, inst>>

\* The context of the server ended.
ServerStopped == stop \in {"server", "parent"}

\* quit, or the context of the server: then it gives the subscription up itself.
CopierEnd ==
  /\ ~ended /\ copier = "run" /\ hold = {}
  /\ quit \/ ServerStopped
  /\ copier' = "done"
  /\ quit' = TRUE
  /\ UNCHANGED <<seen, in, hold, open, requests, replies, proc, work, wg, inst>>

-----------------------------------------------------------------------------
(* The processor: processRequests().                                       *)

\* Variant for mutation: the dispatcher counts itself in the wait group.
TakeRequestUncounted(valid) ==
  /\ ~ended /\ proc = "run" /\ requests # <<>>
  /\ disp' = [disp EXCEPT ![Head(requests)] = IF valid THEN "get" ELSE "done"]
  /\ requests' = Tail(requests)
  /\ UNCHANGED <<sub, replies, proc, cause, agent, pub, published, wg, inst>>

\* handleRawMessage(): what does not decode, is not for this server or is too
\* old is dropped.
TakeRequest(valid) ==
  /\ ~ended /\ proc = "run" /\ requests # <<>>
  /\ disp' = [disp EXCEPT ![Head(requests)] = IF valid THEN "get" ELSE "done"]
  /\ wg' = IF valid THEN wg + 1 ELSE wg
  /\ requests' = Tail(requests)
  /\ UNCHANGED <<sub, replies, proc, cause, agent, pub, published, inst>>

TakeReply ==
  /\ ~ended /\ proc = "run" /\ replies # <<>>
  /\ pub' = [pub EXCEPT ![Head(replies)] = "run"]
  /\ replies' = Tail(replies)
  /\ UNCHANGED <<sub, requests, proc, disp, cause, agent, published, wg, inst>>

\* The context ended, and select took that: Close() gives subscriptions up ...
ProcessorStop ==
  /\ ~ended /\ proc = "run" /\ stop # "none"
  /\ proc' = "closing"
  /\ quit' = TRUE
  /\ UNCHANGED <<seen, in, hold, copier, open, requests, replies, work, wg, inst>>

\* Variant for mutation: the connection stays open.
ProcessorLeave ==
  /\ ~ended /\ proc = "closing"
  /\ proc' = "done"
  /\ wg' = wg - 1
  /\ UNCHANGED <<sub, requests, replies, work, inst>>

\* Variant for mutation: a return without the deferred wg.Done().
ProcessorEndUncounted ==
  /\ ~ended /\ proc = "closing"
  /\ proc' = "done"
  /\ open' = FALSE
  /\ UNCHANGED <<seen, in, hold, copier, quit, requests, replies, work, wg, inst>>

\* ... and then closes the connection.
ProcessorEnd ==
  /\ ~ended /\ proc = "closing"
  /\ proc' = "done"
  /\ open' = FALSE
  /\ wg' = wg - 1
  /\ UNCHANGED <<seen, in, hold, copier, quit, requests, replies, work, inst>>

\* handleReply(): errors are discarded, the reply cannot be made or published,
\* or the connection takes it unless it is closed.
HandleReply(r, fails) ==
  /\ ~ended /\ pub[r] = "run"
  /\ LET took == cause[r] = "result" /\ open /\ ~fails IN
       /\ pub' = [pub EXCEPT ![r] = IF took \/ cause[r] # "result" THEN "done" ELSE "failed"]
       /\ published' = IF took THEN [published EXCEPT ![r] = @ + 1] ELSE published
  /\ UNCHANGED <<sub, requests, replies, proc, disp, cause, agent, wg, inst>>

-----------------------------------------------------------------------------
(* Dispatch() and the agent.                                               *)

\* The agent may be gone since.
DispatchGet(r, found) ==
  /\ ~ended /\ disp[r] = "get"
  /\ disp' = [disp EXCEPT ![r] = IF found THEN "wait" ELSE "done"]
  /\ agent' = [agent EXCEPT ![r] = IF found THEN "run" ELSE "none"]
  /\ wg' = IF found THEN wg ELSE wg - 1
  /\ UNCHANGED <<sub, requests, replies, proc, cause, pub, published, inst>>

\* HandleMessage() ends with an answer or, with DisableResponse, without.
AgentEnds(r, answers) ==
  /\ ~ended /\ agent[r] = "run"
  /\ agent' = [agent EXCEPT ![r] = IF answers THEN "answer" ELSE "done"]
  /\ UNCHANGED <<sub, requests, replies, proc, disp, cause, pub, published, wg, inst>>

\* Variant for mutation: a second answer may follow the first.
DispatchResultAgain(r) ==
  /\ ~ended /\ disp[r] \in {"wait", "done"} /\ agent[r] = "answer"
  /\ disp' = [disp EXCEPT ![r] = "send"]
  /\ cause' = [cause EXCEPT ![r] = "result"]
  /\ wg' = IF disp[r] = "done" THEN wg + 1 ELSE wg
  /\ UNCHANGED <<sub, requests, replies, proc, agent, pub, published, inst>>

\* The channel of the result has no buffer: both are there, or the agent waits.
\* An answer that could not be encoded carries an error.
DispatchResult(r) ==
  /\ ~ended /\ disp[r] = "wait" /\ agent[r] = "answer"
  /\ disp' = [disp EXCEPT ![r] = "send"]
  /\ \E how \in {"result", "error"} : cause' = [cause EXCEPT ![r] = how]
  /\ agent' = [agent EXCEPT ![r] = "done"]
  /\ UNCHANGED <<sub, requests, replies, proc, pub, published, wg, inst>>

DispatchGivesUp(r) ==
  /\ ~ended /\ disp[r] = "wait"
  /\ disp' = [disp EXCEPT ![r] = "send"]
  /\ \/ stop # "none" /\ cause' = [cause EXCEPT ![r] = "interrupt"]
     \/ cause' = [cause EXCEPT ![r] = "timeout"]
  /\ UNCHANGED <<sub, requests, replies, proc, agent, pub, published, wg, inst>>

\* Variant for mutation: a reply is dropped when the channel is full.
DispatchSendOrDrop(r) ==
  /\ ~ended /\ disp[r] = "send"
  /\ replies' = IF Len(replies) < ReplyCap THEN Append(replies, r) ELSE replies
  /\ disp' = [disp EXCEPT ![r] = "done"]
  /\ wg' = wg - 1
  /\ UNCHANGED <<sub, requests, proc, cause, agent, pub, published, inst>>

DispatchSend(r) ==
  /\ ~ended /\ disp[r] = "send"
  /\ Len(replies) < ReplyCap
  /\ replies' = Append(replies, r)
  /\ disp' = [disp EXCEPT ![r] = "done"]
  /\ wg' = wg - 1
  /\ UNCHANGED <<sub, requests, proc, cause, agent, pub, published, inst>>

-----------------------------------------------------------------------------
(* The instance.                                                           *)

\* PrepareForShutdown() ends processing, Shutdown() the context of the server,
\* and a signal to the process that of its parent.
PrepareForShutdown ==
  /\ ~ended /\ stop = "none"
  /\ stop' = "process"
  /\ UNCHANGED <<sub, requests, replies, proc, work, wg, others, ended>>

Shutdown ==
  /\ ~ended /\ ~ServerStopped
  /\ stop' = "server"
  /\ UNCHANGED <<sub, requests, replies, proc, work, wg, others, ended>>

Signalled ==
  /\ ~ended /\ stop # "parent"
  /\ stop' = "parent"
  /\ UNCHANGED <<sub, requests, replies, proc, work, wg, others, ended>>

\* Registration, alive events, status file and machines end with the context of
\* the server, submissions and the ready function with that of its parent.
OthersEnd(k) ==
  /\ ~ended /\ k \in others
  /\ ServerStopped /\ (k = "parent" => stop = "parent")
  /\ others' = others \ {k}
  /\ wg' = wg - 1
  /\ UNCHANGED <<sub, requests, replies, proc, work, stop, ended>>

\* wg.Wait() returns and the process ends.
End ==
  /\ ~ended /\ wg = 0
  /\ ended' = TRUE
  /\ UNCHANGED <<sub, requests, replies, proc, work, wg, stop, others>>

-----------------------------------------------------------------------------
Init ==
  /\ seen = {} /\ in = <<>> /\ hold = {} /\ copier = "run" /\ quit = FALSE /\ open = TRUE
  /\ requests = <<>> /\ replies = <<>> /\ proc = "run"
  /\ disp = [r \in Req |-> "none"] /\ cause = [r \in Req |-> "none"]
  /\ agent = [r \in Req |-> "none"] /\ pub = [r \in Req |-> "none"]
  /\ published = [r \in Req |-> 0]
  /\ wg = 3 /\ stop = "none" /\ others = {"server", "parent"} /\ ended = FALSE

Copier == CopierTake \/ CopierPut \/ CopierEnd

Processor == (\E valid \in BOOLEAN : TakeRequest(valid)) \/ TakeReply \/ ProcessorStop \/ ProcessorEnd

Dispatch(r) ==
  \/ \E found \in BOOLEAN : DispatchGet(r, found)
  \/ DispatchResult(r) \/ DispatchGivesUp(r) \/ DispatchSend(r)

Reply(r) == \E fails \in BOOLEAN : HandleReply(r, fails)

Others == \E k \in {"server", "parent"} : OthersEnd(k)

Next ==
  \/ \E r \in Req : \/ Deliver(r) \/ Dispatch(r) \/ Reply(r)
                    \/ \E answers \in BOOLEAN : AgentEnds(r, answers)
  \/ Copier \/ Processor
  \/ PrepareForShutdown \/ Shutdown \/ Signalled \/ Others \/ End

Spec == Init /\ [][Next]_vars

\* Every goroutine of the server runs and a timer fires, also that of an agent
\* that never answers; the agents are not relied on.
FairSpec ==
  /\ Spec
  /\ WF_vars(Copier) /\ WF_vars(Processor) /\ WF_vars(Others) /\ WF_vars(End)
  /\ \A r \in Req : WF_vars(Dispatch(r)) /\ WF_vars(Reply(r))

-----------------------------------------------------------------------------
(* Properties.                                                             *)

TypeOK ==
  /\ seen \subseteq Req /\ in \in Seq(Req) /\ Len(in) <= InCap
  /\ hold \subseteq Req /\ copier \in {"run", "done"} /\ quit \in BOOLEAN /\ open \in BOOLEAN
  /\ requests \in Seq(Req) /\ Len(requests) <= ReqCap
  /\ replies \in Seq(Req) /\ Len(replies) <= ReplyCap
  /\ proc \in {"run", "closing", "done"} /\ stop \in {"none", "process", "server", "parent"}
  /\ disp \in [Req -> {"none", "get", "wait", "send", "done"}]
  /\ cause \in [Req -> {"none", "result", "error", "interrupt", "timeout"}]
  /\ agent \in [Req -> {"none", "run", "answer", "done"}]
  /\ pub \in [Req -> {"none", "run", "done", "failed"}] /\ published \in [Req -> Nat]
  /\ wg \in Nat /\ others \subseteq {"server", "parent"} /\ ended \in BOOLEAN

Busy(r) == disp[r] \in {"get", "wait", "send"}

\* The wait group counts who runs: it is never empty, and the process never
\* ends, while a request is dispatched.
CountedExactly ==
  wg = Cardinality({r \in Req : Busy(r)}) + ((IF proc = "done" THEN 0 ELSE 1) + Cardinality(others))

\* A request has at most one reply, and none after its timeout.
OneReply == \A r \in Req : published[r] <= IF cause[r] = "result" THEN 1 ELSE 0

\* "no new messages or replies are handled": once the processor is done no
\* request is started and no reply reaches the network.
NothingAfterStop ==
  [][proc = "done" => /\ published' = published
                      /\ \A r \in Req : disp[r] = "none" => disp'[r] = "none"]_vars

\* A request that was accepted comes to an end with a reply unless its answer
\* has an error, it ran into its timeout, its agent is gone, the one attempt to
\* make and publish the reply failed or processing was stopped: a full channel
\* of replies delays Dispatch() and loses nothing.
Answered ==
  \A r \in Req : (disp[r] = "get") ~>
     \/ published[r] = 1
     \/ cause[r] \in {"error", "interrupt", "timeout"}
     \/ disp[r] = "done" /\ agent[r] = "none"
     \/ pub[r] = "failed"
     \/ stop # "none"

\* A shutdown comes to its end unless the replies nobody reads any more fill
\* their channel, and dispatchers wait there for ever.  After Shutdown() alone
\* there is nobody left but who runs with the context of the parent.
ShutdownEnds ==
  ServerStopped ~>
    \/ ended
    \/ proc = "done" /\ Len(replies) = ReplyCap /\ \E r \in Req : Busy(r)
    \/ stop = "server" /\ others = {"parent"} /\ wg = 1

\* A subscription that was given up loses its copier, unless that waits for
\* room in a channel nobody reads any more.
CopierLeaves == quit ~> (copier = "done" \/ ended \/ (proc = "done" /\ Len(requests) = ReqCap /\ hold # {}))

\* What a stop sets off comes to its end, but for senders nobody reads from.
StopEnds == ShutdownEnds /\ CopierLeaves

=============================================================================
