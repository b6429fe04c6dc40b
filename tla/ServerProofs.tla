---------------------------- MODULE ServerProofs ----------------------------
(***************************************************************************)
(* Proofs about Server, for any set of requests and any size of the        *)
(* channels: the wait group counts who runs, a request has at most one     *)
(* reply, and nothing is handled once the processor is done.  The second   *)
(* part is about the supervisor that the executor agent of the server      *)
(* starts: output stays in place, the exit comes last, and what is told of *)
(* a job goes forward.                                                     *)
(***************************************************************************)
EXTENDS Server, Supervisor, FiniteSetTheorems, SequenceTheorems, TLAPS

Members(s) == {s[i] : i \in 1..Len(s)}
Distinct(s) == \A i, j \in 1..Len(s) : s[i] = s[j] => i = j

\* A processor that is done has closed the connection.
Closed == proc = "done" => ~open

\* On its way to the processor a request is in one place, once, and was not
\* dispatched.
Pipeline ==
  /\ Distinct(in) /\ Distinct(requests)
  /\ \A r, s \in hold : r = s
  /\ Members(in) \cap hold = {}
  /\ Members(in) \cap Members(requests) = {}
  /\ hold \cap Members(requests) = {}
  /\ \A r \in Members(in) \cup hold \cup Members(requests) : r \in seen /\ disp[r] = "none"
  /\ \A r \in Req : r \notin seen => disp[r] = "none"

\* On its way back it is in the channel or at its goroutine, once, after its
\* dispatcher ended; only a result is published.
Replied ==
  /\ Distinct(replies)
  /\ \A r \in Members(replies) : disp[r] = "done" /\ pub[r] = "none"
  /\ \A r \in Req : /\ pub[r] # "none" => disp[r] = "done"
                    /\ pub[r] # "done" => published[r] = 0
                    /\ published[r] # 0 => published[r] = 1 /\ cause[r] = "result"

Counted == TypeOK /\ CountedExactly

Inv == Counted /\ Closed /\ Pipeline /\ Replied

-----------------------------------------------------------------------------
(* Channels.                                                               *)

LEMMA Appending ==
  ASSUME NEW S, NEW s \in Seq(S), NEW e \in S
  PROVE  /\ Append(s, e) \in Seq(S) /\ Len(Append(s, e)) = Len(s) + 1
         /\ Members(Append(s, e)) = Members(s) \cup {e}
         /\ Distinct(s) /\ e \notin Members(s) => Distinct(Append(s, e))
<1> DEFINE t == Append(s, e)
<1>1. /\ t \in Seq(S) /\ Len(s) \in Nat /\ Len(t) = Len(s) + 1
      /\ \A i \in 1..Len(s) : t[i] = s[i]
      /\ t[Len(s) + 1] = e
  OBVIOUS
<1> HIDE DEF t
<1>2. Members(t) = Members(s) \cup {e}
  <2>1. 1..Len(t) = (1..Len(s)) \cup {Len(s) + 1}
    BY <1>1
  <2> QED
    BY <1>1, <2>1 DEF Members
<1>3. Distinct(s) /\ e \notin Members(s) => Distinct(t)
  BY <1>1 DEF Distinct, Members
<1> QED
  BY <1>1, <1>2, <1>3 DEF t

LEMMA Taking ==
  ASSUME NEW S, NEW s \in Seq(S), s # <<>>
  PROVE  /\ Head(s) \in S /\ Head(s) \in Members(s)
         /\ Tail(s) \in Seq(S) /\ Len(Tail(s)) = Len(s) - 1 /\ Len(s) \in Nat \ {0}
         /\ Distinct(s) => /\ Members(Tail(s)) = Members(s) \ {Head(s)}
                           /\ Distinct(Tail(s))
<1> DEFINE t == Tail(s)
<1>1. /\ t \in Seq(S) /\ Len(s) \in Nat \ {0} /\ Len(t) = Len(s) - 1
      /\ Head(s) = s[1] /\ s[1] \in S
      /\ \A i \in 1..(Len(s) - 1) : t[i] = s[i + 1]
  OBVIOUS
<1> HIDE DEF t
<1>2. Head(s) \in Members(s)
  BY <1>1 DEF Members
<1>3. ASSUME Distinct(s)
      PROVE  Members(t) = Members(s) \ {Head(s)}
  <2>1. ASSUME NEW x \in Members(t) PROVE x \in Members(s) \ {Head(s)}
    <3>1. PICK i \in 1..Len(t) : x = t[i]
      BY DEF Members
    <3>2. i \in Nat /\ i + 1 \in 1..Len(s) /\ 1 \in 1..Len(s) /\ i + 1 # 1 /\ x = s[i + 1]
      BY <1>1, <3>1
    <3>3. s[i + 1] # s[1]
      BY <1>3, <3>2 DEF Distinct
    <3> QED
      BY <1>1, <3>2, <3>3 DEF Members
  <2>2. ASSUME NEW x \in Members(s) \ {Head(s)} PROVE x \in Members(t)
    <3>1. PICK i \in 1..Len(s) : x = s[i]
      BY DEF Members
    <3>2. i # 1
      BY <1>1, <3>1, <2>2
    <3>3. i - 1 \in 1..Len(t) /\ t[i - 1] = s[i]
      BY <1>1, <3>1, <3>2
    <3> QED
      BY <3>1, <3>3 DEF Members
  <2> QED
    BY <2>1, <2>2
<1>4. Distinct(s) => Distinct(t)
  BY <1>1 DEF Distinct
<1> QED
  BY <1>1, <1>2, <1>3, <1>4 DEF t

-----------------------------------------------------------------------------
(* The wait group.                                                         *)

BusySet == {r \in Req : Busy(r)}

LEMMA BusyFinite == IsFiniteSet(BusySet) /\ Cardinality(BusySet) \in Nat
<1>1. BusySet \subseteq Req /\ IsFiniteSet(Req)
  BY ServerAssumption DEF BusySet
<1> QED
  BY <1>1, FS_Subset, FS_CardinalityType

LEMMA BusySame ==
  ASSUME \A r \in Req : Busy(r)' <=> Busy(r)
  PROVE  Cardinality(BusySet') = Cardinality(BusySet)
<1>1. BusySet' = BusySet
  BY DEF BusySet
<1> QED
  BY <1>1

LEMMA BusyMore ==
  ASSUME NEW x \in Req, ~Busy(x), Busy(x)', \A r \in Req \ {x} : Busy(r)' <=> Busy(r)
  PROVE  Cardinality(BusySet') = Cardinality(BusySet) + 1
<1>1. BusySet' = BusySet \cup {x} /\ x \notin BusySet
  BY DEF BusySet
<1> QED
  BY <1>1, BusyFinite, FS_AddElement

LEMMA BusyLess ==
  ASSUME NEW x \in Req, Busy(x), ~Busy(x)', \A r \in Req \ {x} : Busy(r)' <=> Busy(r)
  PROVE  Cardinality(BusySet') = Cardinality(BusySet) - 1 /\ Cardinality(BusySet) >= 1
<1>1. BusySet' = BusySet \ {x} /\ x \in BusySet
  BY DEF BusySet
<1>2. Cardinality(BusySet') = Cardinality(BusySet) - 1
  BY <1>1, BusyFinite, FS_RemoveElement
<1>3. IsFiniteSet(BusySet') /\ Cardinality(BusySet') \in Nat
  BY <1>1, BusyFinite, FS_Subset, FS_CardinalityType
<1> QED
  BY <1>2, <1>3, BusyFinite

-----------------------------------------------------------------------------
(* The wait group and the types, action by action.                         *)

Running == (IF proc = "done" THEN 0 ELSE 1) + Cardinality(others)

LEMMA CountIs == CountedExactly <=> wg = Cardinality(BusySet) + Running
BY DEF CountedExactly, BusySet, Running

LEMMA CountIsNext == CountedExactly' <=> wg' = Cardinality(BusySet') + Running'
BY DEF CountedExactly, BusySet, Running

LEMMA OthersFinite ==
  ASSUME TypeOK
  PROVE  IsFiniteSet(others) /\ Cardinality(others) \in Nat /\ Running \in Nat
<1>1. IsFiniteSet({"server", "parent"})
  <2>1. IsFiniteSet({"server"}) /\ {"server", "parent"} = {"server"} \cup {"parent"}
    BY FS_Singleton
  <2> QED
    BY <2>1, FS_AddElement
<1>2. IsFiniteSet(others) /\ Cardinality(others) \in Nat
  BY <1>1, FS_Subset, FS_CardinalityType DEF TypeOK
<1> QED
  BY <1>2 DEF Running

\* Whoever leaves who runs alone leaves the count alone.
LEMMA CountKept ==
  ASSUME CountedExactly, UNCHANGED <<wg, others>>, (proc' = "done") <=> (proc = "done"),
         \A r \in Req : Busy(r)' <=> Busy(r)
  PROVE  CountedExactly'
<1>1. Cardinality(BusySet') = Cardinality(BusySet) /\ Running' = Running
  BY BusySame DEF Running
<1> QED
  BY <1>1, CountIs, CountIsNext

LEMMA CopierCounted ==
  ASSUME Counted, (\E r \in Req : Deliver(r)) \/ Copier
  PROVE  Counted'
<1> USE DEF Counted, work, inst
<1>1. UNCHANGED <<wg, others, proc, disp>>
  BY DEF Copier, Deliver, CopierTake, CopierPut, CopierEnd
<1>2. CountedExactly'
  BY <1>1, CountKept DEF Busy
<1>3. ASSUME NEW r \in Req, Deliver(r) PROVE TypeOK'
  <2>1. Append(in, r) \in Seq(Req) /\ Len(Append(in, r)) = Len(in) + 1
    BY Appending DEF TypeOK
  <2> QED
    BY <1>3, <2>1, ServerAssumption DEF Deliver, TypeOK
<1>4. CASE CopierTake
  <2>1. Head(in) \in Req /\ Tail(in) \in Seq(Req) /\ Len(Tail(in)) = Len(in) - 1
    BY <1>4, Taking DEF CopierTake, TypeOK
  <2> QED
    BY <1>2, <1>4, <2>1, ServerAssumption DEF CopierTake, TypeOK
<1>5. CASE CopierPut
  <2>1. PICK r \in hold : requests' = Append(requests, r)
    BY <1>5 DEF CopierPut
  <2>2. requests' \in Seq(Req) /\ Len(requests') = Len(requests) + 1
    BY <2>1, Appending DEF TypeOK
  <2> QED
    BY <1>2, <1>5, <2>2, ServerAssumption DEF CopierPut, TypeOK
<1>6. CASE CopierEnd
  BY <1>2, <1>6 DEF CopierEnd, TypeOK
<1> QED
  BY <1>2, <1>3, <1>4, <1>5, <1>6 DEF Copier

LEMMA TakeRequestCounted ==
  ASSUME Counted, Pipeline, NEW valid \in BOOLEAN, TakeRequest(valid)
  PROVE  Counted'
<1> USE DEF Counted, sub, inst
<1>1. /\ Head(requests) \in Req /\ Head(requests) \in Members(requests)
      /\ Tail(requests) \in Seq(Req) /\ Len(Tail(requests)) = Len(requests) - 1
  BY Taking DEF TakeRequest, TypeOK
<1>2. PICK x \in Req : x = Head(requests) /\ disp[x] = "none"
  BY <1>1 DEF Pipeline
<1>3. /\ disp' = [disp EXCEPT ![x] = IF valid THEN "get" ELSE "done"]
      /\ requests' = Tail(requests)
      /\ wg' = IF valid THEN wg + 1 ELSE wg
      /\ UNCHANGED <<sub, replies, proc, cause, agent, pub, published, inst>>
  BY <1>2 DEF TakeRequest
<1>4. disp' \in [Req -> {"none", "get", "wait", "send", "done"}]
  BY <1>1, <1>3 DEF TypeOK
<1>5. TypeOK'
  BY <1>1, <1>3, <1>4, ServerAssumption DEF TypeOK
<1>6. Running' = Running /\ Running \in Nat
  BY <1>3, OthersFinite DEF Running
<1>7. CASE valid
  <2>1. ~Busy(x) /\ Busy(x)' /\ \A r \in Req \ {x} : Busy(r)' <=> Busy(r)
    BY <1>1, <1>2, <1>3, <1>7 DEF Busy, TypeOK
  <2>2. Cardinality(BusySet') = Cardinality(BusySet) + 1
    BY <1>1, <2>1, BusyMore
  <2> QED
    BY <1>3, <1>5, <1>6, <1>7, <2>2, BusyFinite, CountIs, CountIsNext
<1>8. CASE ~valid
  <2>1. \A r \in Req : Busy(r)' <=> Busy(r)
    BY <1>1, <1>2, <1>3, <1>8 DEF Busy, TypeOK
  <2> QED
    BY <1>3, <1>5, <1>8, <2>1, CountKept
<1> QED
  BY <1>7, <1>8

LEMMA ProcessorCounted ==
  ASSUME Counted, TakeReply \/ ProcessorStop \/ ProcessorEnd
  PROVE  Counted'
<1> USE DEF Counted, sub, work, inst
<1>1. CASE TakeReply
  <2>1. /\ Head(replies) \in Req
        /\ Tail(replies) \in Seq(Req) /\ Len(Tail(replies)) = Len(replies) - 1
    BY <1>1, Taking DEF TakeReply, TypeOK
  <2>2. pub' \in [Req -> {"none", "run", "done", "failed"}]
    BY <1>1, <2>1 DEF TakeReply, TypeOK
  <2>3. TypeOK'
    BY <1>1, <2>1, <2>2, ServerAssumption DEF TakeReply, TypeOK
  <2> QED
    BY <1>1, <2>3, CountKept DEF TakeReply, Busy
<1>2. CASE ProcessorStop
  <2>1. TypeOK'
    BY <1>2 DEF ProcessorStop, TypeOK
  <2> QED
    BY <1>2, <2>1, CountKept DEF ProcessorStop, Busy
<1>3. CASE ProcessorEnd
  <2>1. Cardinality(BusySet') = Cardinality(BusySet)
    BY <1>3, BusySame DEF ProcessorEnd, Busy
  <2>2. Running' = Running - 1 /\ Running \in Nat \ {0}
    BY <1>3, OthersFinite DEF ProcessorEnd, Running
  <2>3. wg' = wg - 1 /\ CountedExactly' /\ wg' \in Nat
    BY <1>3, <2>1, <2>2, BusyFinite, CountIs, CountIsNext DEF ProcessorEnd, TypeOK
  <2> QED
    BY <1>3, <2>3 DEF ProcessorEnd, TypeOK
<1> QED
  BY <1>1, <1>2, <1>3

LEMMA DispatchCounted ==
  ASSUME Counted, NEW x \in Req, Dispatch(x)
  PROVE  Counted'
<1> USE DEF Counted, sub, inst
<1>1. ASSUME NEW found \in BOOLEAN, DispatchGet(x, found) PROVE Counted'
  <2>1. /\ disp' \in [Req -> {"none", "get", "wait", "send", "done"}]
        /\ agent' \in [Req -> {"none", "run", "answer", "done"}]
    BY <1>1 DEF DispatchGet, TypeOK
  <2>2. Running' = Running /\ Running \in Nat
    BY <1>1, OthersFinite DEF DispatchGet, Running
  <2>3. CASE found
    <3>1. \A r \in Req : Busy(r)' <=> Busy(r)
      BY <1>1, <2>3 DEF DispatchGet, Busy, TypeOK
    <3> QED
      BY <1>1, <2>1, <2>3, <3>1, CountKept DEF DispatchGet, TypeOK
  <2>4. CASE ~found
    <3>1. Busy(x) /\ ~Busy(x)' /\ \A r \in Req \ {x} : Busy(r)' <=> Busy(r)
      BY <1>1, <2>4 DEF DispatchGet, Busy, TypeOK
    <3>2. Cardinality(BusySet') = Cardinality(BusySet) - 1 /\ Cardinality(BusySet) >= 1
      BY <3>1, BusyLess
    <3>3. CountedExactly' /\ wg' \in Nat
      BY <1>1, <2>2, <2>4, <3>2, BusyFinite, CountIs, CountIsNext DEF DispatchGet, TypeOK
    <3> QED
      BY <1>1, <2>1, <3>3 DEF DispatchGet, TypeOK
  <2> QED
    BY <2>3, <2>4
<1>2. CASE DispatchResult(x) \/ DispatchGivesUp(x)
  <2>1. PICK how \in {"result", "error", "interrupt", "timeout"} : cause' = [cause EXCEPT ![x] = how]
    BY <1>2 DEF DispatchResult, DispatchGivesUp
  <2>2. /\ disp' \in [Req -> {"none", "get", "wait", "send", "done"}]
        /\ agent' \in [Req -> {"none", "run", "answer", "done"}]
        /\ cause' \in [Req -> {"none", "result", "error", "interrupt", "timeout"}]
    BY <1>2, <2>1 DEF DispatchResult, DispatchGivesUp, TypeOK
  <2>3. \A r \in Req : Busy(r)' <=> Busy(r)
    BY <1>2 DEF DispatchResult, DispatchGivesUp, Busy, TypeOK
  <2>4. TypeOK'
    <3>1. UNCHANGED <<sub, requests, replies, proc, pub, published, wg, inst>>
      BY <1>2 DEF DispatchResult, DispatchGivesUp
    <3> QED
      BY <2>2, <3>1 DEF TypeOK
  <2> QED
    BY <1>2, <2>3, <2>4, CountKept DEF DispatchResult, DispatchGivesUp
<1>3. CASE DispatchSend(x)
  <2>1. replies' \in Seq(Req) /\ Len(replies') = Len(replies) + 1
    BY <1>3, Appending DEF DispatchSend, TypeOK
  <2>2. disp' \in [Req -> {"none", "get", "wait", "send", "done"}]
    BY <1>3 DEF DispatchSend, TypeOK
  <2>3. Busy(x) /\ ~Busy(x)' /\ \A r \in Req \ {x} : Busy(r)' <=> Busy(r)
    BY <1>3 DEF DispatchSend, Busy, TypeOK
  <2>4. Cardinality(BusySet') = Cardinality(BusySet) - 1 /\ Cardinality(BusySet) >= 1
    BY <2>3, BusyLess
  <2>5. Running' = Running /\ Running \in Nat
    BY <1>3, OthersFinite DEF DispatchSend, Running
  <2>6. CountedExactly' /\ wg' \in Nat
    BY <1>3, <2>4, <2>5, BusyFinite, CountIs, CountIsNext DEF DispatchSend, TypeOK
  <2> QED
    BY <1>3, <2>1, <2>2, <2>6, ServerAssumption DEF DispatchSend, TypeOK
<1> QED
  BY <1>1, <1>2, <1>3 DEF Dispatch

LEMMA OthersCounted ==
  ASSUME Counted,
         \/ \E r \in Req : Reply(r) \/ \E answers \in BOOLEAN : AgentEnds(r, answers)
         \/ PrepareForShutdown \/ Shutdown \/ Signalled \/ Others \/ End
         \/ UNCHANGED vars
  PROVE  Counted'
<1> USE DEF Counted, sub, work, inst
<1>1. ASSUME NEW x \in Req, NEW failed \in BOOLEAN, HandleReply(x, failed) PROVE Counted'
  <2>1. pub' \in [Req -> {"none", "run", "done", "failed"}] /\ published' \in [Req -> Nat]
    BY <1>1 DEF HandleReply, TypeOK
  <2>2. TypeOK'
    BY <1>1, <2>1 DEF HandleReply, TypeOK
  <2> QED
    BY <1>1, <2>2, CountKept DEF HandleReply, Busy
<1>2. ASSUME NEW x \in Req, NEW answers \in BOOLEAN, AgentEnds(x, answers) PROVE Counted'
  <2>1. agent' \in [Req -> {"none", "run", "answer", "done"}]
    BY <1>2 DEF AgentEnds, TypeOK
  <2>2. TypeOK'
    BY <1>2, <2>1 DEF AgentEnds, TypeOK
  <2> QED
    BY <1>2, <2>2, CountKept DEF AgentEnds, Busy
<1>3. CASE PrepareForShutdown \/ Shutdown \/ Signalled \/ End
  <2>1. TypeOK'
    BY <1>3 DEF PrepareForShutdown, Shutdown, Signalled, End, TypeOK
  <2> QED
    BY <1>3, <2>1, CountKept DEF PrepareForShutdown, Shutdown, Signalled, End, Busy
<1>4. ASSUME NEW k \in {"server", "parent"}, OthersEnd(k) PROVE Counted'
  <2>1. Cardinality(BusySet') = Cardinality(BusySet)
    BY <1>4, BusySame DEF OthersEnd, Busy
  <2>2. Running' = Running - 1 /\ Running \in Nat \ {0}
    <3>1. Cardinality(others') = Cardinality(others) - 1 /\ Cardinality(others') \in Nat
      BY <1>4, OthersFinite, FS_RemoveElement, FS_CardinalityType DEF OthersEnd
    <3> QED
      BY <1>4, <3>1, OthersFinite DEF OthersEnd, Running
  <2>3. CountedExactly' /\ wg' \in Nat
    BY <1>4, <2>1, <2>2, BusyFinite, CountIs, CountIsNext DEF OthersEnd, TypeOK
  <2> QED
    BY <1>4, <2>3 DEF OthersEnd, TypeOK
<1>5. CASE UNCHANGED vars
  <2>1. TypeOK'
    BY <1>5 DEF vars, TypeOK
  <2> QED
    BY <1>5, <2>1, CountKept DEF vars, Busy
<1> QED
  BY <1>1, <1>2, <1>3, <1>4, <1>5 DEF Reply, Others

-----------------------------------------------------------------------------
(* The way of a request and of its reply.                                  *)

LEMMA PipelineKept ==
  ASSUME Pipeline, UNCHANGED <<seen, in, hold, requests>>,
         \A r \in Req : disp[r] = "none" => disp'[r] = "none", TypeOK
  PROVE  Pipeline'
<1>1. Members(in) \cup hold \cup Members(requests) \subseteq Req
  BY DEF TypeOK, Members
<1>2. /\ \A r \in Members(in) \cup hold \cup Members(requests) : r \in seen' /\ disp'[r] = "none"
      /\ \A r \in Req : r \notin seen' => disp'[r] = "none"
  BY <1>1 DEF Pipeline
<1>3. Members(in)' = Members(in) /\ Members(requests)' = Members(requests)
  BY DEF Members
<1>4. Distinct(in)' /\ Distinct(requests)'
  BY DEF Pipeline, Distinct
<1> QED
  BY <1>2, <1>3, <1>4 DEF Pipeline

LEMMA RepliedKept ==
  ASSUME Replied, TypeOK, UNCHANGED <<replies, pub, published>>,
         \A r \in Req : disp[r] = "done" => disp'[r] = "done" /\ cause'[r] = cause[r]
  PROVE  Replied'
<1>1. Members(replies) \subseteq Req
  BY DEF TypeOK, Members
<1>2. \A r \in Req : published[r] # 0 => disp[r] = "done"
  BY DEF Replied
<1>3. Members(replies)' = Members(replies) /\ Distinct(replies)'
  BY DEF Members, Distinct, Replied
<1>4. \A r \in Members(replies) : disp'[r] = "done" /\ pub'[r] = "none"
  BY <1>1 DEF Replied
<1>5. \A r \in Req : /\ pub'[r] # "none" => disp'[r] = "done"
                     /\ pub'[r] # "done" => published'[r] = 0
                     /\ published'[r] # 0 => published'[r] = 1 /\ cause'[r] = "result"
  BY <1>2 DEF Replied
<1> QED
  BY <1>3, <1>4, <1>5 DEF Replied

LEMMA PipelineStep ==
  ASSUME Inv, [Next]_vars
  PROVE  Pipeline'
<1> USE DEF sub, work, inst
<1>0. TypeOK /\ Pipeline
  BY DEF Inv, Counted
<1>1. ASSUME NEW x \in Req, Deliver(x) PROVE Pipeline'
  <2>1. /\ Members(Append(in, x)) = Members(in) \cup {x}
        /\ Distinct(in) /\ x \notin Members(in) => Distinct(Append(in, x))
    BY <1>0, Appending DEF TypeOK
  <2>2. /\ x \notin Members(in) /\ x \notin hold /\ x \notin Members(requests)
        /\ disp[x] = "none"
    BY <1>0, <1>1 DEF Deliver, Pipeline
  <2>3. Distinct(in') /\ Members(in') \subseteq Members(in) \cup {x}
    BY <1>0, <1>1, <2>1, <2>2 DEF Deliver, Pipeline
  <2>4. UNCHANGED <<hold, requests, disp>> /\ seen' = seen \cup {x}
    BY <1>1 DEF Deliver
  <2> HIDE DEF Members, Distinct
  <2> QED
    BY <1>0, <2>2, <2>3, <2>4 DEF Pipeline
<1>2. CASE CopierTake
  <2>1. PICK x \in Req : x = Head(in) /\ x \in Members(in)
    BY <1>0, <1>2, Taking DEF CopierTake, TypeOK
  <2>2. Distinct(in') /\ Members(in') = Members(in) \ {x}
    BY <1>0, <1>2, <2>1, Taking DEF CopierTake, Pipeline, TypeOK
  <2>3. UNCHANGED <<seen, requests, disp>> /\ hold' = {x} /\ hold = {}
    BY <1>2, <2>1 DEF CopierTake
  <2> QED
    BY <1>0, <2>1, <2>2, <2>3 DEF Pipeline
<1>3. CASE CopierPut
  <2>1. PICK x \in hold : requests' = Append(requests, x)
    BY <1>3 DEF CopierPut
  <2>2. x \in Req /\ x \notin Members(requests)
    BY <1>0, <2>1 DEF Pipeline, TypeOK
  <2>3. Distinct(requests') /\ Members(requests') = Members(requests) \cup {x}
    BY <1>0, <2>1, <2>2, Appending DEF Pipeline, TypeOK
  <2>4. UNCHANGED <<seen, in, disp>> /\ hold' = {}
    BY <1>3 DEF CopierPut
  <2> QED
    BY <1>0, <2>1, <2>2, <2>3, <2>4 DEF Pipeline
<1>4. ASSUME NEW valid \in BOOLEAN, TakeRequest(valid) PROVE Pipeline'
  <2>1. PICK x \in Req : x = Head(requests) /\ x \in Members(requests)
    BY <1>0, <1>4, Taking DEF TakeRequest, TypeOK
  <2>2. Distinct(requests') /\ Members(requests') = Members(requests) \ {x}
    BY <1>0, <1>4, <2>1, Taking DEF TakeRequest, Pipeline, TypeOK
  <2>3. UNCHANGED <<seen, in, hold>> /\ \A r \in Req : r # x => disp'[r] = disp[r]
    BY <1>0, <1>4, <2>1 DEF TakeRequest, TypeOK
  <2>4. Members(in) \cup hold \cup Members(requests) \subseteq Req
    BY <1>0 DEF TypeOK, Members
  <2> QED
    BY <1>0, <2>1, <2>2, <2>3, <2>4 DEF Pipeline
<1>5. ASSUME NEW x \in Req, Dispatch(x) PROVE Pipeline'
  <2>1. UNCHANGED <<seen, in, hold, requests>> /\ \A r \in Req : disp[r] = "none" => disp'[r] = "none"
    BY <1>0, <1>5 DEF Dispatch, DispatchGet, DispatchResult, DispatchGivesUp, DispatchSend, TypeOK
  <2> QED
    BY <1>0, <2>1, PipelineKept
<1>6. CASE \/ CopierEnd \/ TakeReply \/ ProcessorStop \/ ProcessorEnd
           \/ \E r \in Req : Reply(r) \/ \E answers \in BOOLEAN : AgentEnds(r, answers)
           \/ PrepareForShutdown \/ Shutdown \/ Signalled \/ Others \/ End \/ UNCHANGED vars
  <2>1. UNCHANGED <<seen, in, hold, requests, disp>>
    BY <1>6 DEF CopierEnd, TakeReply, ProcessorStop, ProcessorEnd, Reply, HandleReply, AgentEnds,
       PrepareForShutdown, Shutdown, Signalled, Others, OthersEnd, End, vars
  <2> QED
    BY <1>0, <2>1, PipelineKept
<1> QED
  BY <1>1, <1>2, <1>3, <1>4, <1>5, <1>6 DEF Next, Copier, Processor

LEMMA RepliedStep ==
  ASSUME Inv, [Next]_vars
  PROVE  Replied'
<1> USE DEF sub, work, inst
<1>0. TypeOK /\ Replied /\ Members(replies) \subseteq Req
  BY DEF Inv, Counted, TypeOK, Members
<1>1. CASE TakeReply
  <2>1. PICK x \in Req : x = Head(replies) /\ x \in Members(replies)
    BY <1>0, <1>1, Taking DEF TakeReply, TypeOK
  <2>2. Distinct(replies') /\ Members(replies') = Members(replies) \ {x}
    BY <1>0, <1>1, <2>1, Taking DEF TakeReply, Replied, TypeOK
  <2>3. /\ UNCHANGED <<disp, cause, published>>
        /\ pub'[x] = "run" /\ \A r \in Req : r # x => pub'[r] = pub[r]
    BY <1>0, <1>1, <2>1 DEF TakeReply, TypeOK
  <2> QED
    BY <1>0, <2>1, <2>2, <2>3 DEF Replied
<1>2. ASSUME NEW x \in Req, NEW failed \in BOOLEAN, HandleReply(x, failed) PROVE Replied'
  <2>1. published[x] = 0 /\ pub[x] = "run"
    BY <1>0, <1>2 DEF HandleReply, Replied
  <2>2. /\ UNCHANGED <<disp, cause, replies>>
        /\ pub'[x] \in {"done", "failed"} /\ \A r \in Req : r # x => pub'[r] = pub[r] /\ published'[r] = published[r]
        /\ published'[x] = 0 \/ (pub'[x] = "done" /\ published'[x] = 1 /\ cause[x] = "result")
    BY <1>0, <1>2, <2>1 DEF HandleReply, TypeOK
  <2>3. Members(replies') = Members(replies) /\ Distinct(replies')
    BY <1>0, <2>2 DEF Replied
  <2> QED
    BY <1>0, <2>1, <2>2, <2>3 DEF Replied
<1>3. ASSUME NEW x \in Req, DispatchSend(x) PROVE Replied'
  <2>1. x \notin Members(replies) /\ pub[x] = "none" /\ disp[x] = "send"
    BY <1>0, <1>3 DEF DispatchSend, Replied
  <2>2. Distinct(replies') /\ Members(replies') = Members(replies) \cup {x}
    BY <1>0, <1>3, <2>1, Appending DEF DispatchSend, Replied, TypeOK
  <2>3. /\ UNCHANGED <<cause, pub, published>>
        /\ disp'[x] = "done" /\ \A r \in Req : r # x => disp'[r] = disp[r]
    BY <1>0, <1>3 DEF DispatchSend, TypeOK
  <2> QED
    BY <1>0, <2>1, <2>2, <2>3 DEF Replied
<1>4. ASSUME NEW valid \in BOOLEAN, TakeRequest(valid) PROVE Replied'
  <2>1. PICK x \in Req : x = Head(requests) /\ x \in Members(requests)
    BY <1>0, <1>4, Taking DEF TakeRequest, TypeOK
  <2>2. disp[x] = "none"
    BY <2>1 DEF Inv, Pipeline
  <2>3. /\ UNCHANGED <<replies, pub, published, cause>>
        /\ \A r \in Req : disp[r] = "done" => disp'[r] = "done"
    BY <1>0, <1>4, <2>1, <2>2 DEF TakeRequest, TypeOK
  <2> QED
    BY <1>0, <2>3, RepliedKept
<1>5. ASSUME NEW x \in Req,
             \/ \E found \in BOOLEAN : DispatchGet(x, found)
             \/ DispatchResult(x) \/ DispatchGivesUp(x)
      PROVE  Replied'
  <2>1. /\ UNCHANGED <<replies, pub, published>>
        /\ \A r \in Req : disp[r] = "done" => disp'[r] = "done" /\ cause'[r] = cause[r]
    BY <1>0, <1>5 DEF DispatchGet, DispatchResult, DispatchGivesUp, TypeOK
  <2> QED
    BY <1>0, <2>1, RepliedKept
<1>6. CASE \/ Copier \/ ProcessorStop \/ ProcessorEnd
           \/ \E r \in Req : Deliver(r) \/ \E answers \in BOOLEAN : AgentEnds(r, answers)
           \/ PrepareForShutdown \/ Shutdown \/ Signalled \/ Others \/ End \/ UNCHANGED vars
  <2>1. UNCHANGED <<replies, pub, published, disp, cause>>
    BY <1>6 DEF Copier, CopierTake, CopierPut, CopierEnd, ProcessorStop, ProcessorEnd, Deliver,
       AgentEnds, PrepareForShutdown, Shutdown, Signalled, Others, OthersEnd, End, vars
  <2> QED
    BY <1>0, <2>1, RepliedKept
<1> QED
  BY <1>1, <1>2, <1>3, <1>4, <1>5, <1>6 DEF Next, Processor, Dispatch, Reply

LEMMA ClosedStep ==
  ASSUME Closed, [Next]_vars
  PROVE  Closed'
<1> USE DEF Closed, sub, work, inst
<1>1. CASE ProcessorEnd
  BY <1>1 DEF ProcessorEnd
<1>2. CASE ProcessorStop
  BY <1>2 DEF ProcessorStop
<1>3. CASE ~ProcessorEnd /\ ~ProcessorStop
  <2>1. UNCHANGED <<proc, open>>
    BY <1>3 DEF Next, Copier, Processor, Dispatch, Deliver, CopierTake, CopierPut, CopierEnd,
       TakeRequest, TakeReply, Reply, HandleReply, DispatchGet, AgentEnds, DispatchResult, DispatchGivesUp,
       DispatchSend, PrepareForShutdown, Shutdown, Signalled, Others, OthersEnd, End, vars
  <2> QED
    BY <2>1
<1> QED
  BY <1>1, <1>2, <1>3

-----------------------------------------------------------------------------
(* The theorems.                                                           *)

LEMMA InvInit == Init => Inv
<1> SUFFICES ASSUME Init PROVE Inv
  OBVIOUS
<1> USE DEF Init
<1>1. TypeOK
  <2>1. <<>> \in Seq(Req) /\ Len(<<>>) = 0
    OBVIOUS
  <2>2. /\ disp \in [Req -> {"none", "get", "wait", "send", "done"}]
        /\ cause \in [Req -> {"none", "result", "error", "interrupt", "timeout"}]
        /\ agent \in [Req -> {"none", "run", "answer", "done"}]
        /\ pub \in [Req -> {"none", "run", "done", "failed"}] /\ published \in [Req -> Nat]
    OBVIOUS
  <2>3. /\ seen \subseteq Req /\ hold \subseteq Req /\ copier \in {"run", "done"}
        /\ quit \in BOOLEAN /\ open \in BOOLEAN /\ others \subseteq {"server", "parent"} /\ ended \in BOOLEAN
        /\ proc \in {"run", "closing", "done"} /\ stop \in {"none", "process", "server", "parent"}
    OBVIOUS
  <2>4. /\ wg \in Nat
        /\ in \in Seq(Req) /\ requests \in Seq(Req) /\ replies \in Seq(Req)
        /\ Len(in) <= InCap /\ Len(requests) <= ReqCap /\ Len(replies) <= ReplyCap
    BY <2>1, ServerAssumption
  <2> HIDE DEF Init
  <2> QED
    BY <2>2, <2>3, <2>4 DEF TypeOK
<1>2. CountedExactly
  <2>1. BusySet = {}
    BY DEF BusySet, Busy
  <2>3. Cardinality({"parent"}) = 1 /\ IsFiniteSet({"parent"})
    BY FS_Singleton
  <2>4. Cardinality({"parent"} \cup {"server"}) = 2
    <3>1. Cardinality({"parent"} \cup {"server"}) = Cardinality({"parent"}) + 1
      BY <2>3, FS_AddElement
    <3> QED
      BY <2>3, <3>1
  <2>5. others = {"parent"} \cup {"server"}
    OBVIOUS
  <2>2. Cardinality(BusySet) = 0 /\ Running = 3
    BY <2>1, <2>4, <2>5, FS_EmptySet DEF Running
  <2> QED
    BY <2>2, CountIs
<1>3. Members(in) = {} /\ Members(requests) = {} /\ Members(replies) = {}
  BY DEF Members
<1>4. Distinct(in) /\ Distinct(requests) /\ Distinct(replies)
  BY DEF Distinct
<1>5. Closed /\ Pipeline /\ Replied
  BY <1>3, <1>4 DEF Closed, Pipeline, Replied
<1> QED
  BY <1>1, <1>2, <1>5 DEF Inv, Counted

LEMMA InvStep == Inv /\ [Next]_vars => Inv'
<1> SUFFICES ASSUME Inv, [Next]_vars PROVE Inv'
  OBVIOUS
<1>1. Counted'
  <2>1. Counted /\ Pipeline
    BY DEF Inv
  <2> QED
    BY <2>1, CopierCounted, TakeRequestCounted, ProcessorCounted, DispatchCounted, OthersCounted
       DEF Next, Processor
<1> QED
  BY <1>1, PipelineStep, RepliedStep, ClosedStep DEF Inv

LEMMA Invariance == Spec => []Inv
BY InvInit, InvStep, PTL DEF Spec

\* Every variable of the server keeps its type: no channel holds more than it
\* has room for, and the wait group never goes below zero, which is a panic.
THEOREM TypeCorrect == Spec => []TypeOK
<1>1. Inv => TypeOK
  BY DEF Inv, Counted
<1> QED
  BY <1>1, Invariance, PTL

\* The wait group counts who runs: processor, dispatchers and the others.
THEOREM WaitGroupExact == Spec => []CountedExactly
<1>1. Inv => CountedExactly
  BY DEF Inv, Counted
<1> QED
  BY <1>1, Invariance, PTL

\* A request has at most one reply, and none unless its agent answered.
THEOREM AtMostOneReply == Spec => []OneReply
<1>1. Inv => OneReply
  <2> SUFFICES ASSUME Inv, NEW r \in Req
               PROVE  published[r] <= IF cause[r] = "result" THEN 1 ELSE 0
    BY DEF OneReply
  <2>1. published[r] = 0 \/ (published[r] = 1 /\ cause[r] = "result")
    BY DEF Inv, Replied
  <2> QED
    BY <2>1
<1> QED
  BY <1>1, Invariance, PTL

\* Once the processor is done no request is started and nothing is published.
THEOREM QuietAfterStop == Spec => NothingAfterStop
<1> DEFINE Quiet == proc = "done" => /\ published' = published
                                     /\ \A r \in Req : disp[r] = "none" => disp'[r] = "none"
<1>1. Inv /\ [Next]_vars => [Quiet]_vars
  <2> SUFFICES ASSUME Inv, [Next]_vars, proc = "done" PROVE Quiet
    OBVIOUS
  <2> USE DEF sub, work, inst
  <2>0. TypeOK /\ ~open
    BY DEF Inv, Counted, Closed
  <2>1. ASSUME NEW x \in Req, NEW failed \in BOOLEAN, HandleReply(x, failed) PROVE Quiet
    <3>1. disp' = disp
      BY <2>1 DEF HandleReply
    <3>2. published' = published
      BY <2>0, <2>1 DEF HandleReply
    <3> QED
      BY <3>1, <3>2
  <2>2. ASSUME NEW x \in Req, Dispatch(x) PROVE Quiet
    BY <2>0, <2>2 DEF Dispatch, DispatchGet, DispatchResult, DispatchGivesUp, DispatchSend, TypeOK
  <2>3. ASSUME NEW valid \in BOOLEAN, TakeRequest(valid) PROVE Quiet
    BY <2>3 DEF TakeRequest
  <2>4. CASE \/ Copier \/ TakeReply \/ ProcessorStop \/ ProcessorEnd
             \/ \E r \in Req : Deliver(r) \/ \E answers \in BOOLEAN : AgentEnds(r, answers)
             \/ PrepareForShutdown \/ Shutdown \/ Signalled \/ Others \/ End \/ UNCHANGED vars
    BY <2>4 DEF Copier, CopierTake, CopierPut, CopierEnd, TakeReply, ProcessorStop, ProcessorEnd,
       Deliver, AgentEnds, PrepareForShutdown, Shutdown, Signalled, Others, OthersEnd, End, vars
  <2> QED
    BY <2>1, <2>2, <2>3, <2>4 DEF Next, Processor, Reply
<1> QED
  BY <1>1, Invariance, PTL DEF Spec, NothingAfterStop

-----------------------------------------------------------------------------
(***************************************************************************)
(* The supervisor.  It shares no state with the server.                    *)
(***************************************************************************)

\* The command was not started: there is nothing of it anywhere.
Unstarted ==
  sup \in {"created", "saved", "specsent"} =>
    /\ child = "none" /\ pidfile = "none" /\ exitfile = "none"
    /\ sent = <<>> /\ buff = <<>> /\ lines = <<>> /\ watcher = "done"
    /\ \A s \in Stream : /\ reader[s] = "done" /\ scanned[s] = <<>> /\ ospipe[s] = <<>>
                              /\ written[s] = 0 /\ file[s] = 0

\* When the output was waited for nobody submits any more; the exit, in the
\* stream and on disk, comes after that; and only a command that was started
\* has a file with its pid.
Finishing ==
  /\ sup \in {"flushed", "exitsent", "exitcreated"} => watcher = "done" /\ beat = "done"
  /\ exitsent => sup \in {"exitsent", "exitcreated", "done", "crashed"}
  /\ exitfile # "none" => sup \in {"exitcreated", "done", "crashed"} /\ child = "exited"
  /\ pidfile = "full" => sup \notin {"started", "pidcreated", "failed"}
  /\ sup \in {"reaped", "closing", "flushed", "exitsent", "exitcreated", "done"} => child = "exited"

\* In the pipe and in the scanner lines have the numbers that follow those before.
Piped ==
  \A s \in Stream :
    /\ \A i \in DOMAIN ospipe[s] : /\ ospipe[s][i].origin = s
                                   /\ ospipe[s][i].n + Len(ospipe[s]) = written[s] + i
                                   /\ ospipe[s][i].long => longs > 0
    /\ \A i \in DOMAIN scanned[s] : /\ scanned[s][i].origin = s
                                    /\ scanned[s][i].n + Len(scanned[s]) = file[s] + i
                                    /\ scanned[s][i].long => longs > 0
    /\ track => file[s] + Len(ospipe[s]) = written[s]
    /\ ~track => reader[s] = "done" /\ ospipe[s] = <<>> /\ scanned[s] = <<>>

\* A line has its place among the lines of its stream.
Numbered ==
  \A i \in DOMAIN Way : Way[i].n = CountOf(Way[i].origin, Way, i)

\* A reader that goes on, or met no long line, handed over all that it read.
Passed ==
  \A s \in Stream :
    /\ track /\ (reader[s] = "scan" \/ longs = 0) =>
         CountOf(s, Way, Len(Way)) + Len(scanned[s]) = file[s]
    /\ reader[s] = "done" => scanned[s] = <<>>

\* As long as submissions work the buffer is of one stream.
OneStream ==
  fails = 0 => /\ \A i \in DOMAIN buff : buff[i].origin = prev
               /\ \A i \in DOMAIN sent : sent[i].subject = sent[i].line.origin

\* The last line of the buffer is of the stream it will be submitted under, and
\* so each line that went out under the other subject has one after it that
\* belongs there.
Followed(q) ==
  \A i \in DOMAIN q :
    q[i].subject # q[i].line.origin =>
      \E j \in DOMAIN q : j > i /\ q[j].subject = q[i].subject /\ q[j].line.origin = q[i].subject

Closing(b, subject) == b # <<>> => b[Len(b)].origin = subject

Borrowed == Closing(buff, prev) /\ Followed(sent)

\* The collector outlives the readers, and leaves nothing unless a submission failed.
Left ==
  /\ watcher = "done" => \A s \in Stream : reader[s] = "done"
  /\ LeftByFailure

\* What was told, and what is about to be, is on disk.
Asking ==
  /\ spec = "created" => sup \in {"created", "failed"} /\ pidfile = "none"
  /\ told > 0 \/ runs \/ ask = "code" => pidfile = "full"
  /\ told = 2 => exitfile = "full"
  /\ told = 2 /\ ask \in {"started", "pid"} => ~runs

\* Types, in parts; before the first line the buffer is empty.
Sent == [subject : Stream, line : Line]

ControlType ==
  /\ sup \in {"created", "saved", "specsent", "started", "pidcreated", "pidwritten", "waiting",
              "reaped", "closing", "flushed", "exitsent", "exitcreated", "done", "failed", "crashed"}
  /\ child \in {"none", "running", "exited"}
  /\ beat \in {"none", "run", "done"} /\ beats \in 0..MaxBeats
  /\ spec \in {"created", "started", "terminated"}
  /\ pidfile \in {"none", "empty", "full"} /\ exitfile \in {"none", "empty", "full"}

FlagType ==
  /\ track \in BOOLEAN /\ cancelled \in BOOLEAN /\ closed \in BOOLEAN
  /\ exitsent \in BOOLEAN

PipeType ==
  /\ written \in [Stream -> Nat] /\ longs \in 0..MaxLong /\ file \in [Stream -> Nat]
  /\ ospipe \in [Stream -> Seq(Line)] /\ \A s \in Stream : Len(ospipe[s]) <= PipeCap
  /\ scanned \in [Stream -> Seq(Line)]
  /\ reader \in [Stream -> {"scan", "done"}]

LineType ==
  /\ watcher \in {"run", "done"}
  /\ lines \in Seq(Line) /\ Len(lines) <= LinesCap
  /\ buff \in Seq(Line) /\ prev \in Stream \cup {"none"}
  /\ prev = "none" => buff = <<>>
  /\ sent \in Seq(Sent) /\ fails \in 0..MaxFails

AskType == ask \in {"idle", "started", "pid", "code"} /\ runs \in BOOLEAN /\ told \in 0..2

Typed == ControlType /\ FlagType /\ PipeType /\ LineType

ExecInv == Typed /\ Unstarted /\ Finishing /\ Piped /\ Numbered /\ Passed /\ OneStream /\ Borrowed /\ Left

-----------------------------------------------------------------------------
(* Sequences of lines.                                                     *)

\* Lines under a subject are as many and the same.
LEMMA UnderLines ==
  ASSUME NEW b \in Seq(Line), NEW subject
  PROVE  /\ DOMAIN Under(subject, b) = 1..Len(b)
         /\ \A i \in 1..Len(b) : Under(subject, b)[i] = [subject |-> subject, line |-> b[i]]
BY DEF Under

LEMMA UnderTyped ==
  ASSUME NEW b \in Seq(Line), NEW subject \in Stream \cup {"none"}, subject = "none" => b = <<>>
  PROVE  Under(subject, b) \in Seq(Sent)
<1>1. \A i \in 1..Len(b) : Under(subject, b)[i] \in Sent
  BY DEF Under, Sent
<1>2. Under(subject, b) = [i \in 1..Len(b) |-> Under(subject, b)[i]]
  BY DEF Under
<1> QED BY <1>1, <1>2

\* publish() leaves the buffer or submits it.
LEMMA PublishTyped ==
  ASSUME NEW b \in Seq(Line), NEW subject \in Stream \cup {"none"}, NEW ok \in BOOLEAN,
         subject = "none" => b = <<>>
  PROVE  /\ Publish(b, subject, ok) \in [buff : Seq(Line), sent : Seq(Sent), fails : 0..1]
         /\ b = <<>> => Publish(b, subject, ok).buff = <<>>
<1>1. Under(subject, b) \in Seq(Sent)
  BY UnderTyped
<1> QED BY <1>1 DEF Publish

LEMMA TakeLineTyped ==
  ASSUME LineType, NEW ok1 \in BOOLEAN, NEW ok2 \in BOOLEAN, lines # <<>>
  PROVE  TakeLine(ok1, ok2) \in [buff : Seq(Line), sent : Seq(Sent), fails : Nat]
<1> DEFINE l    == Head(lines)
           R    == [buff : Seq(Line), sent : Seq(Sent), fails : 0..1]
           turn == IF prev \notin {"none", l.origin} THEN Publish(buff, prev, ok1)
                   ELSE [buff |-> buff, sent |-> <<>>, fails |-> 0]
           full == IF Len(turn.buff) > BuffMax THEN Publish(turn.buff, prev, ok2)
                   ELSE [buff |-> turn.buff, sent |-> <<>>, fails |-> 0]
<1>0. /\ l \in Line /\ buff \in Seq(Line) /\ prev \in Stream \cup {"none"}
      /\ prev = "none" => buff = <<>>
  BY DEF LineType
<1>1. turn \in R /\ (prev = "none" => turn.buff = <<>>)
  <2>1. Publish(buff, prev, ok1) \in R
    BY <1>0, PublishTyped
  <2>2. [buff |-> buff, sent |-> <<>>, fails |-> 0] \in R
    BY <1>0
  <2> QED BY <2>1, <2>2, <1>0
<1> HIDE DEF turn
<1>2. full \in R
  <2>1. Publish(turn.buff, prev, ok2) \in R
    BY <1>0, <1>1, PublishTyped
  <2>2. [buff |-> turn.buff, sent |-> <<>>, fails |-> 0] \in R
    BY <1>1
  <2> QED BY <2>1, <2>2
<1> HIDE DEF full
<1>3. /\ Append(full.buff, l) \in Seq(Line)
      /\ turn.sent \o full.sent \in Seq(Sent)
      /\ turn.fails + full.fails \in Nat
  BY <1>0, <1>1, <1>2
<1>4. TakeLine(ok1, ok2) =
        [buff |-> Append(full.buff, l), sent |-> turn.sent \o full.sent, fails |-> turn.fails + full.fails]
  BY DEF TakeLine, turn, full
<1> QED BY <1>3, <1>4

-----------------------------------------------------------------------------
(* Types.                                                                  *)


LEMMA TypedInit ==
  ASSUME SupervisorInit
  PROVE  Typed
<1> USE SupervisorAssumption DEF SupervisorInit
<1>1. ControlType
  BY DEF ControlType
<1>2. FlagType
  BY Zenon DEF FlagType
<1>3. PipeType
  <2>1. /\ written \in [Stream -> Nat] /\ longs \in 0..MaxLong /\ file \in [Stream -> Nat]
        /\ reader \in [Stream -> {"scan", "done"}]
    OBVIOUS
  <2>2. /\ ospipe \in [Stream -> Seq(Line)] /\ \A s \in Stream : Len(ospipe[s]) <= PipeCap
        /\ scanned \in [Stream -> Seq(Line)]
    OBVIOUS
  <2> QED BY <2>1, <2>2 DEF PipeType
<1>4. LineType
  BY DEF LineType
<1> QED BY <1>1, <1>2, <1>3, <1>4 DEF Typed

\* The steps of StartSupervised(), of the heartbeat and of whoever stops it.
Controls ==
  \/ Main \/ Crash \/ Interrupt \/ ChildExit \/ HeartbeatEnd
  \/ \E ok \in BOOLEAN : Heartbeat(ok)

\* The steps of the command and of the goroutines of its output.
Moves ==
  \/ Watch
  \/ \E ok \in BOOLEAN : WatchPublish(ok, FALSE)
  \/ \E s \in Stream : Read(s) \/ \E long \in BOOLEAN : ChildWrite(s, long)

LEMMA TwoKinds ==
  ASSUME [SupervisorNext]_supervisorVars
  PROVE  Controls \/ Moves \/ UNCHANGED job
BY DEF SupervisorNext, Controls, Moves, Ask, AskRunning, AskStarted, AskPid, AskCode, supervisorVars, job

LEMMA AskedAlone ==
  ASSUME [SupervisorNext]_supervisorVars
  PROVE  Ask \/ UNCHANGED asked
<1>1. CASE Main
  BY <1>1 DEF Main, SaveSpec, SubmitSpec, StartCommand, CreatePid, WritePid, SubmitPid, Close, SubmitExit,
              CreateExit, WriteExit, WaitCommand, WaitOutput
<1>2. CASE \/ Crash \/ Interrupt \/ ChildExit \/ HeartbeatEnd
           \/ \E ok \in BOOLEAN : WatchPublish(ok, FALSE) \/ Heartbeat(ok)
  BY <1>2 DEF Crash, Interrupt, ChildExit, HeartbeatEnd, Heartbeat, WatchPublish
<1>3. CASE Watch
  BY <1>3 DEF Watch, WatchLine, WatchPublish
<1>4. CASE \E s \in Stream : Read(s) \/ \E long \in BOOLEAN : ChildWrite(s, long)
  BY <1>4 DEF Read, ReaderSend, ReaderEnd, ReaderFill, ChildWrite
<1>5. CASE UNCHANGED supervisorVars
  BY <1>5 DEF supervisorVars, asked
<1> QED BY <1>1, <1>2, <1>3, <1>4, <1>5 DEF SupervisorNext

\* What such a step leaves alone.  The readers and the collector are started with
\* the command.
LEMMA ControlsAlone ==
  ASSUME Controls
  PROVE  /\ UNCHANGED <<track, written, longs, file, ospipe, scanned, lines, buff, prev, sent>>
         /\ fails' = fails \/ (fails < MaxFails /\ fails' = fails + 1)
         /\ \/ UNCHANGED <<reader, watcher>>
            \/ /\ sup = "specsent" /\ sup' = "started"
               /\ reader' = [s \in Stream |-> IF track THEN "scan" ELSE "done"]
               /\ watcher' = (IF track THEN "run" ELSE "done")
<1> USE DEF output, disk, chan, Submit
<1>1. ASSUME NEW ok \in BOOLEAN,
             SaveSpec(ok) \/ SubmitSpec(ok) \/ CreatePid(ok) \/ WritePid(ok) \/ SubmitPid(ok)
      PROVE  UNCHANGED <<track, written, longs, file, ospipe, scanned, lines, buff, prev, sent, reader, watcher>>
             /\ (fails' = fails \/ (fails < MaxFails /\ fails' = fails + 1))
  BY <1>1 DEF SaveSpec, SubmitSpec, CreatePid, WritePid, SubmitPid
<1>2. ASSUME NEW ok \in BOOLEAN,
             Close(ok) \/ SubmitExit(ok) \/ CreateExit(ok) \/ WriteExit(ok) \/ Heartbeat(ok)
      PROVE  UNCHANGED <<track, written, longs, file, ospipe, scanned, lines, buff, prev, sent, reader, watcher>>
             /\ (fails' = fails \/ (fails < MaxFails /\ fails' = fails + 1))
  BY <1>2 DEF Close, SubmitExit, CreateExit, WriteExit, Heartbeat
<1>3. CASE \/ WaitCommand \/ WaitOutput \/ Crash \/ Interrupt
           \/ ChildExit \/ HeartbeatEnd
  BY <1>3 DEF WaitCommand, WaitOutput, Crash, Interrupt, ChildExit, HeartbeatEnd
<1>4. ASSUME NEW ok \in BOOLEAN, StartCommand(ok)
      PROVE  /\ UNCHANGED <<track, written, longs, file, ospipe, scanned, lines, buff, prev, sent, fails>>
             /\ \/ UNCHANGED <<reader, watcher>>
                \/ /\ sup = "specsent" /\ sup' = "started"
                   /\ reader' = [s \in Stream |-> IF track THEN "scan" ELSE "done"]
                   /\ watcher' = (IF track THEN "run" ELSE "done")
  BY <1>4 DEF StartCommand
<1> QED BY <1>1, <1>2, <1>3, <1>4 DEF Controls, Main

LEMMA ControlTyped ==
  ASSUME ControlType, Controls
  PROVE  ControlType'
<1> USE DEF ControlType, output, disk
<1>1. ASSUME NEW ok \in BOOLEAN, SaveSpec(ok) \/ SubmitSpec(ok) \/ StartCommand(ok)
      PROVE  ControlType'
  BY <1>1 DEF SaveSpec, SubmitSpec, StartCommand
<1>2. ASSUME NEW ok \in BOOLEAN, CreatePid(ok) \/ WritePid(ok) \/ SubmitPid(ok)
      PROVE  ControlType'
  BY <1>2 DEF CreatePid, WritePid, SubmitPid
<1>3. ASSUME NEW ok \in BOOLEAN, Close(ok) \/ SubmitExit(ok) \/ CreateExit(ok) \/ WriteExit(ok)
      PROVE  ControlType'
  BY <1>3 DEF Close, SubmitExit, CreateExit, WriteExit
<1>4. ASSUME NEW ok \in BOOLEAN, Heartbeat(ok) PROVE ControlType'
  BY <1>4, SupervisorAssumption DEF Heartbeat
<1>5. CASE WaitCommand \/ WaitOutput \/ Crash \/ Interrupt
  BY <1>5 DEF WaitCommand, WaitOutput, Crash, Interrupt
<1>6. CASE ChildExit \/ HeartbeatEnd
  BY <1>6 DEF ChildExit, HeartbeatEnd
<1> QED BY <1>1, <1>2, <1>3, <1>4, <1>5, <1>6 DEF Controls, Main

LEMMA FlagTyped ==
  ASSUME FlagType, Controls
  PROVE  FlagType'
<1> USE DEF FlagType, output, disk
<1>1. ASSUME NEW ok \in BOOLEAN, SaveSpec(ok) PROVE FlagType'
  BY <1>1, Zenon DEF SaveSpec
<1>2. ASSUME NEW ok \in BOOLEAN, SubmitSpec(ok) PROVE FlagType'
  BY <1>2, Zenon DEF SubmitSpec
<1>3. ASSUME NEW ok \in BOOLEAN, StartCommand(ok) PROVE FlagType'
  BY <1>3, Zenon DEF StartCommand
<1>4. ASSUME NEW ok \in BOOLEAN, WritePid(ok) PROVE FlagType'
  BY <1>4, Zenon DEF WritePid
<1>5. ASSUME NEW ok \in BOOLEAN, SubmitPid(ok) PROVE FlagType'
  BY <1>5, Zenon DEF SubmitPid
<1>6. ASSUME NEW ok \in BOOLEAN, Close(ok) PROVE FlagType'
  BY <1>6, Zenon DEF Close
<1>7. ASSUME NEW ok \in BOOLEAN, SubmitExit(ok) PROVE FlagType'
  BY <1>7, Zenon DEF SubmitExit
<1>8. ASSUME NEW ok \in BOOLEAN, WriteExit(ok) PROVE FlagType'
  BY <1>8, Zenon DEF WriteExit
<1>9. ASSUME NEW ok \in BOOLEAN, Heartbeat(ok) PROVE FlagType'
  BY <1>9, Zenon DEF Heartbeat
<1>10. CASE WaitCommand \/ WaitOutput
  BY <1>10, Zenon DEF WaitCommand, WaitOutput
<1>11. CASE Crash \/ Interrupt
  BY <1>11, Zenon DEF Crash, Interrupt
<1>12. CASE ChildExit \/ HeartbeatEnd
  BY <1>12, Zenon DEF ChildExit, HeartbeatEnd
<1>13. ASSUME NEW ok \in BOOLEAN, CreatePid(ok) PROVE FlagType'
  BY <1>13, Zenon DEF CreatePid
<1>14. ASSUME NEW ok \in BOOLEAN, CreateExit(ok) PROVE FlagType'
  BY <1>14, Zenon DEF CreateExit
<1> HIDE DEF FlagType
<1> QED BY <1>1, <1>2, <1>3, <1>4, <1>5, <1>6, <1>7, <1>8, <1>9, <1>10, <1>11, <1>12, <1>13, <1>14
     DEF Controls, Main

LEMMA TypedControls ==
  ASSUME Typed, Controls
  PROVE  Typed'
<1>1. ControlType' /\ FlagType'
  BY ControlTyped, FlagTyped DEF Typed
<1>2. PipeType'
  BY ControlsAlone DEF Typed, PipeType
<1>3. LineType'
  <2>1. fails' \in 0..MaxFails
    BY ControlsAlone, SupervisorAssumption DEF Typed, LineType
  <2> QED BY <2>1, ControlsAlone DEF Typed, LineType
<1> QED BY <1>1, <1>2, <1>3 DEF Typed

\* What a step of the output leaves alone.
LEMMA MovesAlone ==
  ASSUME Moves
  PROVE  /\ Active
         /\ UNCHANGED <<sup, track, cancelled, child, closed, beat, spec, pidfile, exitfile, beats, exitsent>>
<1> USE DEF disk
<1>1. ASSUME NEW ok1 \in BOOLEAN, NEW ok2 \in BOOLEAN, WatchLine(ok1, ok2)
      PROVE  /\ Active
             /\ UNCHANGED <<sup, track, cancelled, child, closed, beat, spec, pidfile, exitfile, beats, exitsent>>
  BY <1>1 DEF WatchLine
<1>2. ASSUME NEW ok \in BOOLEAN, NEW last \in BOOLEAN, WatchPublish(ok, last)
      PROVE  /\ Active
             /\ UNCHANGED <<sup, track, cancelled, child, closed, beat, spec, pidfile, exitfile, beats, exitsent>>
  BY <1>2 DEF WatchPublish
<1>3. ASSUME NEW s \in Stream, Read(s)
      PROVE  /\ Active
             /\ UNCHANGED <<sup, track, cancelled, child, closed, beat, spec, pidfile, exitfile, beats, exitsent>>
  BY <1>3 DEF Read, ReaderSend, ReaderEnd, ReaderFill
<1>4. ASSUME NEW s \in Stream, NEW long \in BOOLEAN, ChildWrite(s, long)
      PROVE  /\ Active
             /\ UNCHANGED <<sup, track, cancelled, child, closed, beat, spec, pidfile, exitfile, beats, exitsent>>
  BY <1>4 DEF ChildWrite
<1> QED BY <1>1, <1>2, <1>3, <1>4 DEF Moves, Watch

LEMMA TypedWrite ==
  ASSUME PipeType, LineType, NEW s \in Stream, NEW long \in BOOLEAN,
         ChildWrite(s, long)
  PROVE  PipeType' /\ LineType'
<1> USE DEF ChildWrite
<1>1. LineType'
  BY DEF LineType
<1>2. /\ written' \in [Stream -> Nat] /\ written'[s] \in Nat \ {0}
      /\ longs' \in 0..MaxLong /\ UNCHANGED <<scanned, reader>>
  BY SupervisorAssumption DEF PipeType
<1>3. CASE track
  <2> DEFINE l == [origin |-> s, n |-> written'[s], long |-> long, bad |-> FALSE]
  <2>1. l \in Line
    BY <1>2 DEF Line
  <2> HIDE DEF l
  <2>2. ospipe' = [ospipe EXCEPT ![s] = Append(@, l)] /\ Len(ospipe[s]) < PipeCap /\ UNCHANGED file
    BY <1>3 DEF l
  <2> HIDE DEF ChildWrite
  <2>3. ospipe' \in [Stream -> Seq(Line)] /\ \A t \in Stream : Len(ospipe'[t]) <= PipeCap
    BY <2>1, <2>2, SupervisorAssumption DEF PipeType
  <2> QED BY <1>1, <1>2, <2>2, <2>3 DEF PipeType
<1>4. CASE ~track
  <2>1. file' = [file EXCEPT ![s] = file[s] + 1] /\ UNCHANGED ospipe
    BY <1>4
  <2> HIDE DEF ChildWrite
  <2> QED BY <1>1, <1>2, <2>1 DEF PipeType
<1> QED BY <1>3, <1>4

\* A line that is overwritten keeps its stream, its number and its length.
LEMMA FillChannel ==
  ASSUME LineType, NEW s \in Stream, NEW k, NEW over, ReaderFill(s, k, over)
  PROVE  /\ lines' \in Seq(Line) /\ Len(lines') = Len(lines)
         /\ \A i \in 1..Len(lines) : lines'[i].origin = lines[i].origin /\ lines'[i].n = lines[i].n
<1> DEFINE new == [i \in 1..Len(lines) |-> IF i \in over THEN Overwritten(lines[i]) ELSE lines[i]]
<1>1. lines \in Seq(Line)
  BY DEF LineType
<1>2. lines' = [i \in DOMAIN lines |-> IF i \in over THEN Overwritten(lines[i]) ELSE lines[i]]
  BY Zenon DEF ReaderFill
<1>3. lines' = new
  BY <1>1, <1>2
<1>4. \A i \in 1..Len(lines) : /\ new[i] \in Line
                               /\ new[i].origin = lines[i].origin /\ new[i].n = lines[i].n
  <2>1. ASSUME NEW l \in Line
        PROVE  /\ Overwritten(l) \in Line
               /\ Overwritten(l).origin = l.origin /\ Overwritten(l).n = l.n
    <3>1. /\ l.origin \in Stream /\ l.n \in Nat \ {0} /\ l.long \in BOOLEAN
      BY DEF Line
    <3> QED BY <3>1, Zenon DEF Line, Overwritten
  <2>2. \A i \in 1..Len(lines) : lines[i] \in Line
    BY <1>1
  <2> QED BY <2>1, <2>2
<1>5. new \in Seq(Line) /\ Len(new) = Len(lines)
  <2>1. new = [i \in 1..Len(lines) |-> new[i]]
    OBVIOUS
  <2>2. Len(lines) \in Nat
    BY <1>1
  <2> HIDE DEF new
  <2> QED BY <1>4, <2>1, <2>2
<1> QED BY <1>3, <1>4, <1>5

LEMMA TypedFill ==
  ASSUME PipeType, LineType, NEW s \in Stream, NEW k \in Nat, NEW over,
         ReaderFill(s, k, over)
  PROVE  PipeType' /\ LineType'
<1>0. /\ scanned' = [scanned EXCEPT ![s] = SubSeq(ospipe[s], 1, k)]
      /\ ospipe' = [ospipe EXCEPT ![s] = SubSeq(ospipe[s], k + 1, Len(ospipe[s]))]
      /\ file' = [file EXCEPT ![s] = file[s] + k]
      /\ k \in 1..Len(ospipe[s])
      /\ UNCHANGED <<written, longs, reader, watcher, buff, prev, sent, fails>>
  BY Zenon DEF ReaderFill
<1>1. ospipe[s] \in Seq(Line) /\ Len(ospipe[s]) <= PipeCap
  BY DEF PipeType
<1>2. /\ SubSeq(ospipe[s], 1, k) \in Seq(Line)
      /\ SubSeq(ospipe[s], k + 1, Len(ospipe[s])) \in Seq(Line)
      /\ Len(SubSeq(ospipe[s], k + 1, Len(ospipe[s]))) <= PipeCap
  BY <1>0, <1>1, SupervisorAssumption
<1>4. LineType'
  BY <1>0, FillChannel DEF LineType
<1>5. /\ scanned' \in [Stream -> Seq(Line)] /\ ospipe' \in [Stream -> Seq(Line)]
      /\ \A t \in Stream : Len(ospipe'[t]) <= PipeCap
  BY <1>0, <1>2 DEF PipeType
<1>6. file' \in [Stream -> Nat]
  BY <1>0 DEF PipeType
<1> QED BY <1>0, <1>4, <1>5, <1>6 DEF PipeType

LEMMA TypedHandOver ==
  ASSUME PipeType, LineType, NEW s \in Stream,
         ReaderSend(s) \/ ReaderEnd(s)
  PROVE  PipeType' /\ LineType'
<1>1. scanned[s] \in Seq(Line) /\ lines \in Seq(Line) /\ LinesCap \in Nat
  BY SupervisorAssumption DEF PipeType, LineType
<1>2. CASE ReaderSend(s)
  <2>1. Head(scanned[s]) \in Line /\ Tail(scanned[s]) \in Seq(Line)
    BY <1>1, <1>2 DEF ReaderSend
  <2>2. LineType'
    BY <1>1, <1>2, <2>1 DEF ReaderSend, LineType
  <2>3. PipeType'
    BY <1>2, <2>1 DEF ReaderSend, PipeType
  <2> QED BY <2>2, <2>3
<1>3. CASE ReaderEnd(s)
  <2>1. /\ reader' = [reader EXCEPT ![s] = "done"] /\ scanned' = [scanned EXCEPT ![s] = <<>>]
        /\ UNCHANGED <<written, longs, file, ospipe, watcher, lines, buff, prev, sent, fails>>
    BY <1>3, Zenon DEF ReaderEnd
  <2>2. scanned' \in [Stream -> Seq(Line)] /\ reader' \in [Stream -> {"scan", "done"}]
    BY <2>1 DEF PipeType
  <2> QED BY <2>1, <2>2 DEF PipeType, LineType
<1> QED BY <1>2, <1>3

LEMMA TypedWatchLine ==
  ASSUME PipeType, LineType, NEW ok1 \in BOOLEAN, NEW ok2 \in BOOLEAN,
         WatchLine(ok1, ok2)
  PROVE  PipeType' /\ LineType'
<1> DEFINE t == TakeLine(ok1, ok2)
<1>1. t \in [buff : Seq(Line), sent : Seq(Sent), fails : Nat]
  BY TakeLineTyped DEF WatchLine
<1>2. /\ fails + t.fails <= MaxFails /\ fails' = fails + t.fails
      /\ sent' = sent \o t.sent /\ buff' = t.buff /\ prev' = Head(lines).origin /\ lines' = Tail(lines)
      /\ lines # <<>> /\ UNCHANGED <<watcher, written, longs, file, ospipe, scanned, reader>>
  BY DEF WatchLine
<1> HIDE DEF t
<1>3. Head(lines) \in Line /\ lines' \in Seq(Line) /\ Len(lines') <= LinesCap
  BY <1>2, SupervisorAssumption DEF LineType
<1>4. prev' \in Stream /\ prev' # "none"
  BY <1>2, <1>3 DEF Line, Stream
<1>5. buff' \in Seq(Line) /\ sent' \in Seq(Sent) /\ fails' \in 0..MaxFails
  BY <1>1, <1>2, SupervisorAssumption DEF LineType
<1> QED BY <1>2, <1>3, <1>4, <1>5 DEF PipeType, LineType

LEMMA TypedWatchPublish ==
  ASSUME PipeType, LineType, NEW ok \in BOOLEAN, NEW last \in BOOLEAN,
         WatchPublish(ok, last)
  PROVE  PipeType' /\ LineType'
<1> DEFINE p == Publish(buff, prev, ok)
<1>1. /\ p \in [buff : Seq(Line), sent : Seq(Sent), fails : 0..1]
      /\ prev = "none" => p.buff = <<>>
  BY PublishTyped DEF LineType
<1>2. /\ fails + p.fails <= MaxFails /\ fails' = fails + p.fails
      /\ sent' = sent \o p.sent /\ buff' = p.buff /\ watcher' \in {"run", "done"}
      /\ UNCHANGED <<prev, lines, written, longs, file, ospipe, scanned, reader>>
  BY DEF WatchPublish
<1> HIDE DEF p
<1>3. buff' \in Seq(Line) /\ sent' \in Seq(Sent) /\ fails' \in 0..MaxFails
  BY <1>1, <1>2, SupervisorAssumption DEF LineType
<1> QED BY <1>1, <1>2, <1>3 DEF PipeType, LineType

LEMMA TypedMoves ==
  ASSUME Typed, Moves
  PROVE  Typed'
<1>1. ControlType'
  BY MovesAlone DEF Typed, ControlType
<1>2. FlagType'
  <2>1. UNCHANGED <<track, cancelled, closed, exitsent>>
    BY MovesAlone
  <2> QED BY <2>1, Zenon DEF Typed, FlagType
<1>3. PipeType' /\ LineType'
  <2> USE DEF Typed
  <2>1. ASSUME NEW ok1 \in BOOLEAN, NEW ok2 \in BOOLEAN, WatchLine(ok1, ok2) PROVE PipeType' /\ LineType'
    BY <2>1, TypedWatchLine
  <2>2. ASSUME NEW ok \in BOOLEAN, NEW last \in BOOLEAN, WatchPublish(ok, last) PROVE PipeType' /\ LineType'
    BY <2>2, TypedWatchPublish
  <2>3. ASSUME NEW s \in Stream, NEW long \in BOOLEAN, ChildWrite(s, long) PROVE PipeType' /\ LineType'
    BY <2>3, TypedWrite
  <2>4. ASSUME NEW s \in Stream, ReaderSend(s) \/ ReaderEnd(s) PROVE PipeType' /\ LineType'
    BY <2>4, TypedHandOver
  <2>5. ASSUME NEW s \in Stream, NEW k \in 1..PipeCap, NEW over, ReaderFill(s, k, over)
        PROVE PipeType' /\ LineType'
    <3>1. k \in Nat
      BY SupervisorAssumption
    <3> QED BY <2>5, <3>1, TypedFill
  <2> HIDE DEF Typed
  <2> QED BY <2>1, <2>2, <2>3, <2>4, <2>5 DEF Moves, Watch, Read
<1> QED BY <1>1, <1>2, <1>3 DEF Typed

\* The types of the parts are the types of the model.
LEMMA TypedIsTypeOK ==
  ASSUME Typed, AskType
  PROVE  SupervisorTypeOK
<1>1. /\ sup \in {"created", "saved", "specsent", "started", "pidcreated", "pidwritten", "waiting",
                  "reaped", "closing", "flushed", "exitsent", "exitcreated", "done", "failed", "crashed"}
      /\ child \in {"none", "running", "exited"} /\ beat \in {"none", "run", "done"} /\ beats \in 0..MaxBeats
      /\ spec \in {"created", "started", "terminated"}
      /\ pidfile \in {"none", "empty", "full"} /\ exitfile \in {"none", "empty", "full"}
  BY DEF Typed, ControlType
<1>2. /\ track \in BOOLEAN /\ cancelled \in BOOLEAN /\ closed \in BOOLEAN /\ exitsent \in BOOLEAN
  BY Zenon DEF Typed, FlagType
<1>3. /\ written \in [Stream -> Nat] /\ longs \in 0..MaxLong /\ file \in [Stream -> Nat]
      /\ ospipe \in [Stream -> Seq(Line)] /\ \A s \in Stream : Len(ospipe[s]) <= PipeCap
      /\ scanned \in [Stream -> Seq(Line)] /\ reader \in [Stream -> {"scan", "done"}]
  BY DEF Typed, PipeType
<1>4. /\ watcher \in {"run", "done"} /\ lines \in Seq(Line) /\ Len(lines) <= LinesCap
      /\ buff \in Seq(Line) /\ prev \in Stream \cup {"none"}
      /\ sent \in Seq([subject : Stream, line : Line]) /\ fails \in 0..MaxFails
  BY DEF Typed, LineType, Sent
<1> QED BY <1>1, <1>2, <1>3, <1>4, Zenon DEF SupervisorTypeOK, AskType

LEMMA AskInit ==
  ASSUME SupervisorInit
  PROVE  AskType
<1>1. ask \in {"idle", "started", "pid", "code"} /\ told \in 0..2
  BY DEF SupervisorInit
<1>2. runs \in BOOLEAN
  BY Zenon DEF SupervisorInit
<1> QED BY <1>1, <1>2, Zenon DEF AskType

LEMMA AskTyped ==
  ASSUME AskType, [SupervisorNext]_supervisorVars
  PROVE  AskType'
<1> USE DEF AskType
<1>1. CASE UNCHANGED asked
  BY <1>1 DEF asked
<1>2. CASE Ask
  <2>1. IsRunning \in BOOLEAN
    BY DEF IsRunning
  <2> QED BY <1>2, <2>1 DEF Ask, AskRunning, AskStarted, AskPid, AskCode
<1> QED BY <1>1, <1>2, AskedAlone

LEMMA TypedStep ==
  ASSUME Typed, [SupervisorNext]_supervisorVars
  PROVE  Typed'
<1>1. CASE UNCHANGED job
  <2>1. /\ UNCHANGED <<sup, child, beat, beats, spec, pidfile, exitfile, written, longs, file, ospipe, scanned, reader>>
        /\ UNCHANGED <<watcher, lines, buff, prev, sent, fails>>
        /\ UNCHANGED <<track, cancelled, closed, exitsent>>
    BY <1>1 DEF job, chan, disk
  <2>2. ControlType' /\ PipeType' /\ LineType'
    BY <2>1 DEF Typed, ControlType, PipeType, LineType
  <2>3. FlagType'
    BY <2>1, Zenon DEF Typed, FlagType
  <2> QED BY <2>2, <2>3 DEF Typed
<1> QED BY <1>1, TwoKinds, TypedControls, TypedMoves

-----------------------------------------------------------------------------
(* The order of the supervisor.                                            *)

\* What a step of StartSupervised() does to where it is and to what others see.
Went ==
  \/ UNCHANGED <<sup, child, pidfile, exitfile, exitsent>>
  \/ sup' = sup /\ child = "running" /\ child' = "exited" /\ UNCHANGED <<pidfile, exitfile, exitsent>>
  \/ sup \in {"created", "saved"} /\ sup' \in {"saved", "specsent", "failed"}
     /\ UNCHANGED <<child, pidfile, exitfile, exitsent>>
  \/ sup = "specsent" /\ sup' = "started" /\ child' = "running" /\ UNCHANGED <<pidfile, exitfile, exitsent>>
  \/ sup = "specsent" /\ sup' = "failed" /\ UNCHANGED <<child, pidfile, exitfile, exitsent>>
  \/ sup = "started" /\ sup' = "pidcreated" /\ pidfile' = "empty" /\ UNCHANGED <<child, exitfile, exitsent>>
  \/ sup = "pidcreated" /\ sup' = "pidwritten" /\ pidfile' = "full" /\ UNCHANGED <<child, exitfile, exitsent>>
  \/ sup \in {"started", "pidcreated"} /\ sup' = "failed" /\ UNCHANGED <<child, pidfile, exitfile, exitsent>>
  \/ sup = "pidwritten" /\ sup' = "waiting" /\ UNCHANGED <<child, pidfile, exitfile, exitsent>>
  \/ sup = "waiting" /\ sup' = "reaped" /\ child = "exited" /\ UNCHANGED <<child, pidfile, exitfile, exitsent>>
  \/ sup = "reaped" /\ sup' = "closing" /\ UNCHANGED <<child, pidfile, exitfile, exitsent>>
  \/ sup = "closing" /\ sup' = "flushed" /\ watcher = "done" /\ beat = "done"
     /\ UNCHANGED <<child, pidfile, exitfile, exitsent>>
  \/ sup = "flushed" /\ sup' = "exitsent" /\ UNCHANGED <<child, pidfile, exitfile>>
  \/ sup = "exitsent" /\ sup' = "exitcreated" /\ exitfile' = "empty" /\ UNCHANGED <<child, pidfile, exitsent>>
  \/ sup = "exitsent" /\ sup' = "done" /\ UNCHANGED <<child, pidfile, exitfile, exitsent>>
  \/ sup = "exitcreated" /\ sup' = "done" /\ exitfile' \in {exitfile, "full"} /\ UNCHANGED <<child, pidfile, exitsent>>
  \/ Active /\ sup # "created" /\ sup' = "crashed" /\ UNCHANGED <<child, pidfile, exitfile, exitsent>>

LEMMA ControlsWent ==
  ASSUME Controls
  PROVE  Went
<1> USE DEF Went, output, disk
<1>1. ASSUME NEW ok \in BOOLEAN, SaveSpec(ok) PROVE Went
  BY <1>1 DEF SaveSpec
<1>2. ASSUME NEW ok \in BOOLEAN, SubmitSpec(ok) PROVE Went
  BY <1>2 DEF SubmitSpec
<1>3. ASSUME NEW ok \in BOOLEAN, StartCommand(ok) PROVE Went
  BY <1>3 DEF StartCommand
<1>4. ASSUME NEW ok \in BOOLEAN, WritePid(ok) PROVE Went
  BY <1>4 DEF WritePid
<1>5. ASSUME NEW ok \in BOOLEAN, SubmitPid(ok) PROVE Went
  BY <1>5 DEF SubmitPid
<1>6. ASSUME NEW ok \in BOOLEAN, Close(ok) PROVE Went
  BY <1>6 DEF Close
<1>7. ASSUME NEW ok \in BOOLEAN, SubmitExit(ok) PROVE Went
  BY <1>7 DEF SubmitExit
<1>8. ASSUME NEW ok \in BOOLEAN, WriteExit(ok) PROVE Went
  BY <1>8 DEF WriteExit
<1>9. ASSUME NEW ok \in BOOLEAN, Heartbeat(ok) PROVE Went
  BY <1>9 DEF Heartbeat
<1>10. CASE WaitCommand \/ WaitOutput
  BY <1>10 DEF WaitCommand, WaitOutput
<1>11. CASE Crash \/ Interrupt
  BY <1>11 DEF Crash, Interrupt
<1>12. CASE ChildExit \/ HeartbeatEnd
  BY <1>12 DEF ChildExit, HeartbeatEnd
<1>13. ASSUME NEW ok \in BOOLEAN, CreatePid(ok) PROVE Went
  BY <1>13 DEF CreatePid
<1>14. ASSUME NEW ok \in BOOLEAN, CreateExit(ok) PROVE Went
  BY <1>14 DEF CreateExit
<1> HIDE DEF Went
<1> QED BY <1>1, <1>2, <1>3, <1>4, <1>5, <1>6, <1>7, <1>8, <1>9, <1>10, <1>11, <1>12, <1>13, <1>14
     DEF Controls, Main

\* A step of the output is not one before the command is started; it leaves the
\* order alone.
LEMMA MovesWent ==
  ASSUME Unstarted, Moves
  PROVE  Went /\ sup \notin {"created", "saved", "specsent"}
<1>1. UNCHANGED <<sup, child, pidfile, exitfile, exitsent>>
  BY MovesAlone
<1>2. ASSUME sup \in {"created", "saved", "specsent"} PROVE FALSE
  <2>1. child = "none" /\ watcher = "done" /\ \A s \in Stream : reader[s] = "done"
    BY <1>2 DEF Unstarted
  <2>2. ASSUME NEW ok1 \in BOOLEAN, NEW ok2 \in BOOLEAN, WatchLine(ok1, ok2) PROVE FALSE
    BY <2>1, <2>2 DEF WatchLine
  <2>3. ASSUME NEW ok \in BOOLEAN, NEW last \in BOOLEAN, WatchPublish(ok, last) PROVE FALSE
    BY <2>1, <2>3 DEF WatchPublish
  <2>4. ASSUME NEW s \in Stream, Read(s) PROVE FALSE
    BY <2>1, <2>4 DEF Read, ReaderSend, ReaderEnd, ReaderFill
  <2>5. ASSUME NEW s \in Stream, NEW long \in BOOLEAN, ChildWrite(s, long) PROVE FALSE
    BY <2>1, <2>5 DEF ChildWrite
  <2> QED BY <2>2, <2>3, <2>4, <2>5 DEF Moves, Watch
<1> QED BY <1>1, <1>2 DEF Went

\* Who is done does not start again: the collector by itself, both once the
\* supervisor waited for them.
LEMMA DoneStays ==
  ASSUME [SupervisorNext]_supervisorVars
  PROVE  /\ watcher = "done" /\ sup # "specsent" => watcher' = "done" /\ sent' = sent
         /\ beat = "done" /\ sup # "pidcreated" => beat' = "done" /\ beats' = beats
<1>1. CASE Moves
  <2>1. UNCHANGED <<beat, beats>>
    BY <1>1, MovesAlone
  <2>2. ASSUME NEW ok1 \in BOOLEAN, NEW ok2 \in BOOLEAN, WatchLine(ok1, ok2) PROVE watcher = "run"
    BY <2>2 DEF WatchLine
  <2>3. ASSUME NEW ok \in BOOLEAN, NEW last \in BOOLEAN, WatchPublish(ok, last) PROVE watcher = "run"
    BY <2>3 DEF WatchPublish
  <2>4. ASSUME NEW s \in Stream, Read(s) PROVE UNCHANGED <<watcher, sent>>
    BY <2>4 DEF Read, ReaderSend, ReaderEnd, ReaderFill
  <2>5. ASSUME NEW s \in Stream, NEW long \in BOOLEAN, ChildWrite(s, long) PROVE UNCHANGED <<watcher, sent>>
    BY <2>5 DEF ChildWrite
  <2> QED BY <1>1, <2>1, <2>2, <2>3, <2>4, <2>5 DEF Moves, Watch
<1>2. CASE Controls
  <2>1. watcher = "done" /\ sup # "specsent" => watcher' = "done" /\ sent' = sent
    BY <1>2, ControlsAlone
  <2> USE DEF output, disk, chan
  <2>2. ASSUME NEW ok \in BOOLEAN,
               \/ SaveSpec(ok) \/ SubmitSpec(ok) \/ StartCommand(ok) \/ CreatePid(ok) \/ SubmitPid(ok)
               \/ Close(ok) \/ SubmitExit(ok) \/ CreateExit(ok) \/ WriteExit(ok)
        PROVE  UNCHANGED <<beat, beats>>
    BY <2>2 DEF SaveSpec, SubmitSpec, StartCommand, CreatePid, SubmitPid, Close,
                SubmitExit, CreateExit, WriteExit
  <2>3. ASSUME NEW ok \in BOOLEAN, WritePid(ok) PROVE sup = "pidcreated"
    BY <2>3 DEF WritePid
  <2>4. ASSUME NEW ok \in BOOLEAN, Heartbeat(ok) PROVE beat = "run"
    BY <2>4 DEF Heartbeat
  <2>5. CASE \/ WaitCommand \/ WaitOutput \/ Crash \/ Interrupt \/ ChildExit
             \/ HeartbeatEnd
    BY <2>1, <2>5 DEF WaitCommand, WaitOutput, Crash, Interrupt, ChildExit,
                      HeartbeatEnd
  <2> QED BY <1>2, <2>1, <2>2, <2>3, <2>4, <2>5 DEF Controls, Main
<1>3. CASE UNCHANGED job
  BY <1>3 DEF job, chan
<1> QED BY <1>1, <1>2, <1>3, TwoKinds

LEMMA NextWent ==
  ASSUME Unstarted, [SupervisorNext]_supervisorVars
  PROVE  Went
<1>1. CASE UNCHANGED job
  BY <1>1 DEF job, disk, Went
<1> QED BY <1>1, TwoKinds, ControlsWent, MovesWent

LEMMA UnstartedStep ==
  ASSUME Unstarted, [SupervisorNext]_supervisorVars
  PROVE  Unstarted'
<1>1. CASE Moves
  BY <1>1, MovesWent, MovesAlone DEF Unstarted
<1>2. CASE Controls
  <2> SUFFICES ASSUME sup' \in {"created", "saved", "specsent"}
               PROVE  Unstarted'
    BY DEF Unstarted
  <2>1. sup \in {"created", "saved", "specsent"} /\ UNCHANGED <<child, pidfile, exitfile>>
    BY <1>2, ControlsWent DEF Went, Unstarted
  <2>2. UNCHANGED <<sent, buff, lines, watcher, reader, scanned, ospipe, written, file>>
    BY <1>2, ControlsAlone
  <2> QED BY <2>1, <2>2 DEF Unstarted
<1>3. CASE UNCHANGED job
  BY <1>3 DEF job, chan, disk, Unstarted
<1> QED BY <1>1, <1>2, <1>3, TwoKinds

LEMMA FinishingStep ==
  ASSUME Unstarted, Finishing, [SupervisorNext]_supervisorVars
  PROVE  Finishing'
<1>1. Went
  BY NextWent
<1>2. (sup \in {"flushed", "exitsent", "exitcreated"} => watcher = "done" /\ beat = "done")'
  BY <1>1, DoneStays DEF Went, Finishing
<1>3. (exitsent => sup \in {"exitsent", "exitcreated", "done", "crashed"})'
  BY <1>1 DEF Went, Finishing
<1>4. (exitfile # "none" => sup \in {"exitcreated", "done", "crashed"} /\ child = "exited")'
  BY <1>1 DEF Went, Finishing, Active
<1>5. (pidfile = "full" => sup \notin {"started", "pidcreated", "failed"})'
  BY <1>1 DEF Went, Finishing, Unstarted
<1>6. (sup \in {"reaped", "closing", "flushed", "exitsent", "exitcreated", "done"} => child = "exited")'
  BY <1>1 DEF Went, Finishing
<1> QED BY <1>2, <1>3, <1>4, <1>5, <1>6 DEF Finishing

-----------------------------------------------------------------------------
(* The way of a line.                                                      *)

\* The lines of what was submitted.
LinesOf(q) == [i \in DOMAIN q |-> q[i].line]

LEMMA LinesTyped ==
  ASSUME NEW q \in Seq(Sent)
  PROVE  /\ LinesOf(q) \in Seq(Line) /\ Len(LinesOf(q)) = Len(q)
         /\ \A i \in 1..Len(q) : LinesOf(q)[i] = q[i].line
<1>1. DOMAIN q = 1..Len(q) /\ Len(q) \in Nat
  OBVIOUS
<1>2. \A i \in 1..Len(q) : q[i].line \in Line
  <2>1. \A i \in 1..Len(q) : q[i] \in Sent
    OBVIOUS
  <2> QED BY <2>1, Zenon DEF Sent
<1>3. LinesOf(q) = [i \in 1..Len(q) |-> q[i].line]
  BY <1>1, Zenon DEF LinesOf
<1> QED BY <1>1, <1>2, <1>3

LEMMA LinesConcat ==
  ASSUME NEW q \in Seq(Sent), NEW r \in Seq(Sent)
  PROVE  LinesOf(q \o r) = LinesOf(q) \o LinesOf(r)
<1>1. q \o r \in Seq(Sent) /\ Len(q \o r) = Len(q) + Len(r)
  BY ConcatProperties
<1>2. /\ LinesOf(q \o r) \in Seq(Line) /\ LinesOf(q) \in Seq(Line) /\ LinesOf(r) \in Seq(Line)
      /\ Len(LinesOf(q \o r)) = Len(q) + Len(r) /\ Len(LinesOf(q)) = Len(q) /\ Len(LinesOf(r)) = Len(r)
  BY <1>1, LinesTyped
<1>3. ASSUME NEW i \in 1..Len(q) + Len(r)
      PROVE  LinesOf(q \o r)[i] = (LinesOf(q) \o LinesOf(r))[i]
  <2>1. LinesOf(q \o r)[i] = (q \o r)[i].line
    BY <1>1, LinesTyped
  <2>2. CASE i <= Len(q)
    <3>1. i \in 1..Len(q)
      BY <2>2
    <3>2. (q \o r)[i] = q[i] /\ LinesOf(q)[i] = q[i].line
      BY <3>1, LinesTyped
    <3>3. (LinesOf(q) \o LinesOf(r))[i] = LinesOf(q)[i]
      BY <1>2, <3>1
    <3> QED BY <2>1, <3>2, <3>3
  <2>3. CASE i > Len(q)
    <3>1. i - Len(q) \in 1..Len(r)
      BY <2>3
    <3>2. (q \o r)[i] = r[i - Len(q)] /\ LinesOf(r)[i - Len(q)] = r[i - Len(q)].line
      BY <2>3, <3>1, LinesTyped
    <3>3. (LinesOf(q) \o LinesOf(r))[i] = LinesOf(r)[i - Len(q)]
      BY <1>2, <2>3
    <3> QED BY <2>1, <3>2, <3>3
  <2>4. Len(q) \in Nat /\ i \in Int
    OBVIOUS
  <2>5. i <= Len(q) \/ i > Len(q)
    BY <2>4
  <2> QED BY <2>2, <2>3, <2>5
<1>4. /\ LinesOf(q) \o LinesOf(r) \in Seq(Line)
      /\ Len(LinesOf(q) \o LinesOf(r)) = Len(LinesOf(q \o r))
  <2> DEFINE x == LinesOf(q)
             y == LinesOf(r)
  <2>1. x \in Seq(Line) /\ y \in Seq(Line) /\ Len(LinesOf(q \o r)) = Len(x) + Len(y)
    BY <1>2
  <2> HIDE DEF x, y
  <2>2. x \o y \in Seq(Line) /\ Len(x \o y) = Len(LinesOf(q \o r))
    BY <2>1
  <2> QED BY <2>2 DEF x, y
<1> QED BY <1>2, <1>3, <1>4, SeqEqual

LEMMA LinesUnder ==
  ASSUME NEW b \in Seq(Line), NEW subject
  PROVE  LinesOf(Under(subject, b)) = b
<1>1. DOMAIN Under(subject, b) = 1..Len(b) /\ b = [i \in 1..Len(b) |-> b[i]]
  BY UnderLines
<1>2. \A i \in 1..Len(b) : Under(subject, b)[i].line = b[i]
  <2> TAKE i \in 1..Len(b)
  <2>1. Under(subject, b)[i] = [subject |-> subject, line |-> b[i]]
    BY UnderLines
  <2> QED BY <2>1
<1>3. LinesOf(Under(subject, b)) = [i \in 1..Len(b) |-> Under(subject, b)[i].line]
  BY <1>1, Zenon DEF LinesOf
<1> QED BY <1>1, <1>2, <1>3

\* publish() loses nothing and keeps the order.
LEMMA PublishLines ==
  ASSUME NEW b \in Seq(Line), NEW subject, NEW ok \in BOOLEAN
  PROVE  LinesOf(Publish(b, subject, ok).sent) \o Publish(b, subject, ok).buff = b
<1>1. LinesOf(<<>>) = <<>>
  BY DEF LinesOf
<1>2. CASE ok
  <2>1. Publish(b, subject, ok).sent = Under(subject, b) /\ Publish(b, subject, ok).buff = <<>>
    BY <1>2, Zenon DEF Publish
  <2> QED BY <2>1, LinesUnder, ConcatEmptySeq
<1>3. CASE ~ok
  <2>1. Publish(b, subject, ok).sent = <<>> /\ Publish(b, subject, ok).buff = b
    BY <1>3, Zenon DEF Publish
  <2> QED BY <1>1, <2>1, ConcatEmptySeq
<1> QED BY <1>2, <1>3

\* Neither does watchOutput() with the line it takes.
LEMMA TakeLineLines ==
  ASSUME LineType, NEW ok1 \in BOOLEAN, NEW ok2 \in BOOLEAN, lines # <<>>
  PROVE  LinesOf(TakeLine(ok1, ok2).sent) \o TakeLine(ok1, ok2).buff = Append(buff, Head(lines))
<1> DEFINE l    == Head(lines)
           R    == [buff : Seq(Line), sent : Seq(Sent), fails : 0..1]
           turn == IF prev \notin {"none", l.origin} THEN Publish(buff, prev, ok1)
                   ELSE [buff |-> buff, sent |-> <<>>, fails |-> 0]
           full == IF Len(turn.buff) > BuffMax THEN Publish(turn.buff, prev, ok2)
                   ELSE [buff |-> turn.buff, sent |-> <<>>, fails |-> 0]
           L    == Line
<1>0. /\ l \in L /\ buff \in Seq(L) /\ prev \in Stream \cup {"none"}
      /\ prev = "none" => buff = <<>>
  BY DEF LineType
<1>e. LinesOf(<<>>) = <<>> /\ LinesOf(<<>>) \in Seq(L)
  BY DEF LinesOf
<1>1. /\ turn \in R /\ (prev = "none" => turn.buff = <<>>)
      /\ LinesOf(turn.sent) \o turn.buff = buff
  <2>1. /\ Publish(buff, prev, ok1) \in R
        /\ LinesOf(Publish(buff, prev, ok1).sent) \o Publish(buff, prev, ok1).buff = buff
    BY <1>0, PublishTyped, PublishLines
  <2>2. CASE prev \notin {"none", l.origin}
    BY <1>0, <2>1, <2>2
  <2>3. CASE prev \in {"none", l.origin}
    <3>1. turn = [buff |-> buff, sent |-> <<>>, fails |-> 0]
      BY <2>3
    <3>2. turn.buff = buff /\ turn.sent = <<>>
      BY <3>1
    <3>4. turn \in R
      <4>1. [buff |-> buff, sent |-> <<>>, fails |-> 0] \in R
        BY <1>0
      <4> QED BY <3>1, <4>1
    <3>3. LinesOf(<<>>) \o buff = buff
      BY <1>0, <1>e, ConcatEmptySeq
    <3> HIDE DEF turn
    <3> QED BY <1>0, <3>2, <3>3, <3>4
  <2> QED BY <2>2, <2>3
<1> HIDE DEF turn
<1>2. /\ full \in R
      /\ LinesOf(full.sent) \o full.buff = turn.buff
  <2>0. turn.buff \in Seq(L)
    BY <1>1
  <2>1. /\ Publish(turn.buff, prev, ok2) \in R
        /\ LinesOf(Publish(turn.buff, prev, ok2).sent) \o Publish(turn.buff, prev, ok2).buff = turn.buff
    BY <1>0, <1>1, <2>0, PublishTyped, PublishLines
  <2>2. CASE Len(turn.buff) > BuffMax
    BY <2>1, <2>2
  <2>3. CASE ~(Len(turn.buff) > BuffMax)
    <3>1. full = [buff |-> turn.buff, sent |-> <<>>, fails |-> 0]
      BY <2>3
    <3>2. full.buff = turn.buff /\ full.sent = <<>>
      BY <3>1
    <3>4. full \in R
      <4>1. [buff |-> turn.buff, sent |-> <<>>, fails |-> 0] \in R
        BY <2>0
      <4> QED BY <3>1, <4>1
    <3>3. LinesOf(<<>>) \o turn.buff = turn.buff
      BY <2>0, <1>e, ConcatEmptySeq
    <3> HIDE DEF full
    <3> QED BY <3>2, <3>3, <3>4
  <2> QED BY <2>2, <2>3
<1> HIDE DEF full
<1>3. /\ TakeLine(ok1, ok2).sent = turn.sent \o full.sent
      /\ TakeLine(ok1, ok2).buff = Append(full.buff, l)
  BY Zenon DEF TakeLine, turn, full
<1>4. LinesOf(turn.sent \o full.sent) = LinesOf(turn.sent) \o LinesOf(full.sent)
  BY <1>1, <1>2, LinesConcat
<1> DEFINE a == LinesOf(turn.sent)
           b == LinesOf(full.sent)
           c == full.buff
<1>5. a \in Seq(L) /\ b \in Seq(L) /\ c \in Seq(L) /\ a \o (b \o c) = buff
  BY <1>1, <1>2, LinesTyped
<1> HIDE DEF a, b, c
<1>6. (a \o b) \o Append(c, l) = Append(buff, l)
  <2>1. Append(c, l) = c \o <<l>> /\ Append(buff, l) = buff \o <<l>> /\ <<l>> \in Seq(L)
    BY <1>0, <1>5
  <2>2. (a \o b) \o (c \o <<l>>) = ((a \o b) \o c) \o <<l>>
    BY <1>5, <2>1, ConcatProperties, ConcatAssociative
  <2>3. (a \o b) \o c = a \o (b \o c)
    <3>1. a \in Seq(L) /\ b \in Seq(L) /\ c \in Seq(L)
      BY <1>5
    <3> QED BY <3>1, ConcatAssociative
  <2> QED BY <1>5, <2>1, <2>2, <2>3
<1> QED BY <1>3, <1>4, <1>6 DEF a, b, c

LEMMA WayTyped ==
  ASSUME LineType
  PROVE  /\ LinesOf(sent) \in Seq(Line) /\ buff \in Seq(Line) /\ lines \in Seq(Line)
         /\ Way = (LinesOf(sent) \o buff) \o lines
         /\ Way \in Seq(Line)
<1>1. LinesOf(sent) \in Seq(Line) /\ buff \in Seq(Line) /\ lines \in Seq(Line)
  BY LinesTyped DEF LineType
<1>2. Way = (LinesOf(sent) \o buff) \o lines
  BY Zenon DEF Way, LinesOf
<1>3. (LinesOf(sent) \o buff) \o lines \in Seq(Line)
  BY <1>1, ConcatProperties
<1> QED BY <1>1, <1>2, <1>3

\* Lines that watchOutput() takes and submits stay where they are on the way.
LEMMA WatchLineWay ==
  ASSUME LineType, LineType', NEW ok1 \in BOOLEAN, NEW ok2 \in BOOLEAN, WatchLine(ok1, ok2)
  PROVE  Way' = Way
<1> DEFINE t == TakeLine(ok1, ok2)
           L == Line
<1>1. t \in [buff : Seq(L), sent : Seq(Sent), fails : Nat] /\ lines # <<>>
  BY TakeLineTyped DEF WatchLine
<1>2. LinesOf(t.sent) \o t.buff = Append(buff, Head(lines))
  BY <1>1, TakeLineLines
<1>3. sent' = sent \o t.sent /\ buff' = t.buff /\ lines' = Tail(lines)
  BY DEF WatchLine
<1>4. Way' = (LinesOf(sent') \o buff') \o lines'
  BY Zenon DEF Way, LinesOf
<1>5. LinesOf(sent') = LinesOf(sent) \o LinesOf(t.sent)
  BY <1>1, <1>3, LinesConcat DEF LineType
<1> DEFINE a == LinesOf(sent)
           b == LinesOf(t.sent)
           c == t.buff
           h == Head(lines)
           r == Tail(lines)
<1>6. a \in Seq(L) /\ b \in Seq(L) /\ c \in Seq(L) /\ buff \in Seq(L) /\ lines \in Seq(L)
  BY <1>1, WayTyped, LinesTyped
<1>7. h \in L /\ r \in Seq(L) /\ lines = <<h>> \o r
  BY <1>1, <1>6
<1>8. b \o c = buff \o <<h>>
  BY <1>2, <1>6, <1>7
<1>9. Way' = ((a \o b) \o c) \o r /\ Way = (a \o buff) \o lines
  BY <1>3, <1>4, <1>5, WayTyped
<1> HIDE DEF a, b, c, h, r, t, L
<1>10. ((a \o b) \o c) \o r = (a \o buff) \o (<<h>> \o r)
  <2>0. /\ a \in Seq(L) /\ b \in Seq(L) /\ c \in Seq(L) /\ buff \in Seq(L) /\ r \in Seq(L) /\ <<h>> \in Seq(L)
        /\ b \o c \in Seq(L) /\ a \o buff \in Seq(L)
    BY <1>6, <1>7
  <2>1. (a \o b) \o c = a \o (b \o c)
    BY <2>0, ConcatAssociative
  <2>2. a \o (buff \o <<h>>) = (a \o buff) \o <<h>>
    BY <2>0, ConcatAssociative
  <2>3. ((a \o buff) \o <<h>>) \o r = (a \o buff) \o (<<h>> \o r)
    <3> DEFINE x == a \o buff
               y == <<h>>
    <3>1. x \in Seq(L) /\ y \in Seq(L) /\ r \in Seq(L)
      BY <2>0
    <3> HIDE DEF x, y
    <3>2. (x \o y) \o r = x \o (y \o r)
      BY <3>1, ConcatAssociative
    <3> QED BY <3>2 DEF x, y
  <2> QED BY <1>8, <2>1, <2>2, <2>3
<1> QED BY <1>7, <1>9, <1>10

LEMMA WatchPublishWay ==
  ASSUME LineType, NEW ok \in BOOLEAN, NEW last \in BOOLEAN, WatchPublish(ok, last)
  PROVE  Way' = Way
<1> DEFINE p == Publish(buff, prev, ok)
           L == Line
<1>1. p \in [buff : Seq(L), sent : Seq(Sent), fails : 0..1]
  BY PublishTyped DEF LineType
<1>2. LinesOf(p.sent) \o p.buff = buff
  BY PublishLines DEF LineType
<1>3. sent' = sent \o p.sent /\ buff' = p.buff /\ lines' = lines
  BY DEF WatchPublish
<1>4. Way' = (LinesOf(sent') \o buff') \o lines'
  BY Zenon DEF Way, LinesOf
<1>5. LinesOf(sent') = LinesOf(sent) \o LinesOf(p.sent)
  BY <1>1, <1>3, LinesConcat DEF LineType
<1> DEFINE a == LinesOf(sent)
           b == LinesOf(p.sent)
           c == p.buff
<1>6. a \in Seq(L) /\ b \in Seq(L) /\ c \in Seq(L)
  BY <1>1, WayTyped, LinesTyped
<1>7. Way' = ((a \o b) \o c) \o lines /\ Way = (a \o buff) \o lines /\ b \o c = buff
  BY <1>2, <1>3, <1>4, <1>5, WayTyped
<1> HIDE DEF a, b, c, p, L
<1>8. (a \o b) \o c = a \o (b \o c)
  BY <1>6, ConcatAssociative
<1> QED BY <1>7, <1>8

\* A reader puts its next line at the end of the way.
LEMMA SendWay ==
  ASSUME PipeType, LineType, NEW s \in Stream, ReaderSend(s)
  PROVE  Way' = Append(Way, Head(scanned[s])) /\ Head(scanned[s]) \in Line
<1> DEFINE a == LinesOf(sent)
           l == Head(scanned[s])
           L == Line
<1>1. a \in Seq(L) /\ buff \in Seq(L) /\ lines \in Seq(L) /\ l \in L
  <2>1. scanned[s] \in Seq(L) /\ scanned[s] # <<>>
    BY DEF PipeType, ReaderSend
  <2> QED BY <2>1, WayTyped
<1>2. sent' = sent /\ buff' = buff /\ lines' = Append(lines, l)
  BY DEF ReaderSend
<1>3. Way' = (LinesOf(sent') \o buff') \o lines'
  BY Zenon DEF Way, LinesOf
<1>4. Way' = (a \o buff) \o Append(lines, l) /\ Way = (a \o buff) \o lines
  BY <1>2, <1>3, WayTyped
<1> HIDE DEF a, l, L
<1>5. (a \o buff) \o Append(lines, l) = Append((a \o buff) \o lines, l)
  <2>1. a \o buff \in Seq(L) /\ <<l>> \in Seq(L) /\ (a \o buff) \o lines \in Seq(L)
    BY <1>1
  <2>2. Append(lines, l) = lines \o <<l>> /\ Append((a \o buff) \o lines, l) = ((a \o buff) \o lines) \o <<l>>
    BY <1>1, <2>1
  <2>3. ((a \o buff) \o lines) \o <<l>> = (a \o buff) \o (lines \o <<l>>)
    BY <1>1, <2>1, ConcatAssociative
  <2> QED BY <2>2, <2>3
<1> QED BY <1>1, <1>4, <1>5 DEF l, L

\* Bytes that are overwritten change neither streams nor numbers.
LEMMA FillWay ==
  ASSUME LineType, NEW s \in Stream, NEW k, NEW over, ReaderFill(s, k, over)
  PROVE  /\ Len(Way') = Len(Way) /\ Way' \in Seq(Line)
         /\ \A i \in 1..Len(Way) : /\ Way'[i].origin = Way[i].origin
                                        /\ Way'[i].n = Way[i].n
<1> DEFINE a == LinesOf(sent) \o buff
           L == Line
           new == lines'
<1>1. /\ new \in Seq(L) /\ Len(new) = Len(lines)
      /\ \A i \in 1..Len(lines) : new[i].origin = lines[i].origin /\ new[i].n = lines[i].n
  BY FillChannel
<1>2. a \in Seq(L) /\ lines \in Seq(L) /\ Way = a \o lines
  BY WayTyped, ConcatProperties
<1>3. Way' = a \o new
  <2>1. Way' = (LinesOf(sent') \o buff') \o lines'
    BY Zenon DEF Way, LinesOf
  <2>2. sent' = sent /\ buff' = buff
    BY Zenon DEF ReaderFill
  <2> QED BY <2>1, <2>2
<1> HIDE DEF a, new, L
<1>4. /\ a \o new \in Seq(L) /\ Len(a \o new) = Len(a) + Len(lines) /\ Len(a \o lines) = Len(a) + Len(lines)
      /\ Len(a) \in Nat /\ Len(lines) \in Nat
  <2>1. a \in Seq(L) /\ lines \in Seq(L) /\ new \in Seq(L) /\ Len(new) = Len(lines)
    BY <1>1, <1>2
  <2> QED BY <2>1
<1>5. ASSUME NEW i \in 1..Len(a) + Len(lines)
      PROVE  (a \o new)[i].origin = (a \o lines)[i].origin /\ (a \o new)[i].n = (a \o lines)[i].n
  <2>1. CASE i <= Len(a)
    <3>1. (a \o new)[i] = a[i] /\ (a \o lines)[i] = a[i]
      BY <1>1, <1>2, <2>1
    <3> QED BY <3>1
  <2>2. CASE ~(i <= Len(a))
    <3>1. (a \o new)[i] = new[i - Len(a)] /\ (a \o lines)[i] = lines[i - Len(a)] /\ i - Len(a) \in 1..Len(lines)
      BY <1>1, <1>2, <2>2
    <3> QED BY <1>1, <3>1
  <2> QED BY <2>1, <2>2
<1> QED BY <1>2, <1>3, <1>4, <1>5 DEF L

-----------------------------------------------------------------------------
(* Counting the lines of a stream.                                         *)

LEMMA CountSize ==
  ASSUME NEW s, NEW w, NEW i
  PROVE  CountOf(s, w, i) = Cardinality({j \in 1..i : w[j].origin = s})
BY DEF CountOf

LEMMA CountNat ==
  ASSUME NEW s, NEW w, NEW i \in Nat
  PROVE  /\ IsFiniteSet({j \in 1..i : w[j].origin = s}) /\ CountOf(s, w, i) \in Nat
<1>1. IsFiniteSet(1..i)
  BY FS_Interval
<1>2. IsFiniteSet({j \in 1..i : w[j].origin = s})
  BY <1>1, FS_Subset
<1> QED BY <1>2, FS_CardinalityType, CountSize

LEMMA CountNone ==
  ASSUME NEW s, NEW w
  PROVE  CountOf(s, w, 0) = 0
<1>1. {j \in 1..0 : w[j].origin = s} = {}
  OBVIOUS
<1> QED BY <1>1, FS_EmptySet, CountSize

\* The count depends on the streams alone.
LEMMA CountSame ==
  ASSUME NEW s, NEW w, NEW v, NEW i \in Nat, \A j \in 1..i : w[j].origin = v[j].origin
  PROVE  CountOf(s, w, i) = CountOf(s, v, i)
<1>1. {j \in 1..i : w[j].origin = s} = {j \in 1..i : v[j].origin = s}
  OBVIOUS
<1> QED BY <1>1, CountSize

\* One more line adds one to the count of its own stream.
LEMMA CountNext ==
  ASSUME NEW s, NEW w, NEW i \in Nat
  PROVE  CountOf(s, w, i + 1) = CountOf(s, w, i) + (IF w[i + 1].origin = s THEN 1 ELSE 0)
<1> DEFINE A == {j \in 1..i : w[j].origin = s}
           B == {j \in 1..(i + 1) : w[j].origin = s}
<1>0. i + 1 \notin A
  OBVIOUS
<1>1. IsFiniteSet(A) /\ Cardinality(A) \in Nat
  <2>1. IsFiniteSet(A)
    BY CountNat
  <2> HIDE DEF A
  <2> QED BY <2>1, FS_CardinalityType
<1>2. CASE w[i + 1].origin = s
  <2>1. B = A \cup {i + 1}
    BY <1>2
  <2>2. Cardinality(A \cup {i + 1}) = Cardinality(A) + 1
    BY <1>0, <1>1, FS_AddElement
  <2> QED BY <1>2, <2>1, <2>2, CountSize
<1>3. CASE w[i + 1].origin # s
  <2>1. B = A
    BY <1>3
  <2> HIDE DEF A, B
  <2>2. Cardinality(B) = Cardinality(A) + 0
    BY <1>1, <2>1
  <2> QED BY <1>3, <2>2, CountSize DEF A, B
<1> QED BY <1>2, <1>3

-----------------------------------------------------------------------------
(* The pipe and the scanner.                                               *)

LEMMA LineNumbers ==
  ASSUME NEW q \in Seq(Line), NEW i \in 1..Len(q)
  PROVE  q[i] \in Line /\ q[i].n \in Nat
<1>1. q[i] \in Line
  OBVIOUS
<1>2. \A l \in Line : l.n \in Nat
  BY DEF Line
<1> QED BY <1>1, <1>2

\* What Piped says of one stream.
PipedAt(s) ==
  /\ \A i \in DOMAIN ospipe[s] : /\ ospipe[s][i].origin = s
                                 /\ ospipe[s][i].n + Len(ospipe[s]) = written[s] + i
                                 /\ ospipe[s][i].long => longs > 0
  /\ \A i \in DOMAIN scanned[s] : /\ scanned[s][i].origin = s
                                  /\ scanned[s][i].n + Len(scanned[s]) = file[s] + i
                                  /\ scanned[s][i].long => longs > 0
  /\ track => file[s] + Len(ospipe[s]) = written[s]
  /\ ~track => reader[s] = "done" /\ ospipe[s] = <<>> /\ scanned[s] = <<>>

LEMMA PipedParts == Piped <=> \A s \in Stream : PipedAt(s)
BY DEF Piped, PipedAt

\* A stream of which nothing changes but, in a way that keeps it, the count of
\* long lines.
LEMMA PipedKept ==
  ASSUME PipeType, PipeType', NEW s \in Stream, PipedAt(s),
         ospipe'[s] = ospipe[s], scanned'[s] = scanned[s], written'[s] = written[s], file'[s] = file[s],
         longs' >= longs, track' = track, track \/ reader'[s] = "done"
  PROVE  PipedAt(s)'
<1>1. longs \in Nat /\ longs' \in Nat
  BY DEF PipeType
<1>2. longs > 0 => longs' > 0
  BY <1>1
<1> QED BY <1>2 DEF PipedAt

LEMMA PipedWrite ==
  ASSUME PipeType, PipeType', Piped, NEW s \in Stream, NEW long \in BOOLEAN,
         ChildWrite(s, long)
  PROVE  Piped'
<1>1. /\ longs' = (IF long THEN longs + 1 ELSE longs) /\ written' = [written EXCEPT ![s] = written[s] + 1]
      /\ UNCHANGED <<track, reader, scanned>>
  BY DEF ChildWrite
<1>2. longs' >= longs /\ (long => longs' > 0) /\ longs \in Nat /\ longs' \in Nat
  BY <1>1 DEF PipeType
<1>3. ASSUME NEW t \in Stream, t # s PROVE PipedAt(t)'
  <2>1. UNCHANGED <<written[t], ospipe[t], file[t]>>
    <3>1. CASE track
      BY <1>1, <1>3, <3>1 DEF ChildWrite, PipeType
    <3>2. CASE ~track
      BY <1>1, <1>3, <3>2 DEF ChildWrite, PipeType
    <3> QED BY <3>1, <3>2
  <2>2. PipedAt(t)
    BY PipedParts
  <2>3. track \/ reader[t] = "done"
    BY <2>2 DEF PipedAt
  <2> QED BY <1>1, <1>2, <2>1, <2>2, <2>3, PipedKept
<1>4. PipedAt(s)'
  <2>0. PipedAt(s)
    BY PipedParts
  <2>1. CASE track
    <3> DEFINE l == [origin |-> s, n |-> written[s] + 1, long |-> long, bad |-> FALSE]
               q == ospipe[s]
    <3>1. q \in Seq(Line) /\ written[s] \in Nat /\ file[s] \in Nat
      BY DEF PipeType
    <3>2. ospipe'[s] = Append(q, l) /\ file' = file /\ written'[s] = written[s] + 1 /\ scanned' = scanned
      BY <1>1, <2>1 DEF ChildWrite, PipeType
    <3>3. /\ \A i \in 1..Len(q) : /\ q[i].origin = s /\ q[i].n + Len(q) = written[s] + i
                                  /\ q[i].long => longs > 0
          /\ file[s] + Len(q) = written[s]
      BY <2>0, <2>1, <3>1 DEF PipedAt
    <3>4. l.origin = s /\ l.n = written[s] + 1 /\ (l.long => longs' > 0)
      BY <1>2
    <3> HIDE DEF l, q
    <3>5. /\ Len(Append(q, l)) = Len(q) + 1 /\ DOMAIN Append(q, l) = 1..(Len(q) + 1)
          /\ Append(q, l)[Len(q) + 1] = l /\ \A i \in 1..Len(q) : Append(q, l)[i] = q[i]
      BY <3>1
    <3>6. \A i \in 1..Len(q) : q[i] \in Line /\ q[i].n \in Nat
      BY <3>1, LineNumbers
    <3>7. ASSUME NEW i \in 1..(Len(q) + 1)
          PROVE  /\ Append(q, l)[i].origin = s
                 /\ Append(q, l)[i].n + (Len(q) + 1) = (written[s] + 1) + i
                 /\ Append(q, l)[i].long => longs' > 0
      <4>1. CASE i = Len(q) + 1
        BY <3>1, <3>4, <3>5, <4>1
      <4>2. CASE i \in 1..Len(q)
        <5>1. Append(q, l)[i] = q[i] /\ q[i].n \in Nat /\ q[i].origin = s /\ q[i].n + Len(q) = written[s] + i
          BY <3>3, <3>5, <3>6, <4>2
        <5>2. q[i].n + (Len(q) + 1) = (written[s] + 1) + i
          <6> DEFINE m == q[i].n
                     w == written[s]
          <6>1. m \in Nat /\ w \in Nat /\ Len(q) \in Nat /\ i \in Nat /\ m + Len(q) = w + i
            BY <3>1, <5>1
          <6> HIDE DEF m, w
          <6>2. m + (Len(q) + 1) = (w + 1) + i
            BY <6>1
          <6> QED BY <6>2 DEF m, w
        <5>3. q[i].long => longs' > 0
          BY <1>2, <3>3, <4>2
        <5> QED BY <5>1, <5>2, <5>3
      <4> QED BY <3>1, <4>1, <4>2
    <3>8. file[s] + (Len(q) + 1) = written[s] + 1
      <4> DEFINE w == written[s]
                 f == file[s]
      <4>1. w \in Nat /\ f \in Nat /\ Len(q) \in Nat /\ f + Len(q) = w
        BY <3>1, <3>3
      <4> HIDE DEF w, f
      <4>2. f + (Len(q) + 1) = w + 1
        BY <4>1
      <4> QED BY <4>2 DEF w, f
    <3>9. \A i \in DOMAIN scanned[s] : scanned[s][i].long => longs' > 0
      BY <1>2, <2>0 DEF PipedAt
    <3>10. ospipe'[s] = Append(q, l) /\ Len(ospipe'[s]) = Len(q) + 1 /\ DOMAIN ospipe'[s] = 1..(Len(q) + 1)
      BY <3>2, <3>5
    <3> QED BY <1>1, <2>0, <2>1, <3>2, <3>7, <3>8, <3>9, <3>10 DEF PipedAt
  <2>2. CASE ~track
    <3>1. ospipe' = ospipe /\ ospipe[s] = <<>> /\ scanned[s] = <<>> /\ reader[s] = "done"
      BY <2>0, <2>2 DEF ChildWrite, PipedAt
    <3> QED BY <1>1, <2>2, <3>1 DEF PipedAt
  <2> QED BY <2>1, <2>2
<1> QED BY <1>3, <1>4 DEF Piped, PipedAt

LEMMA PipedFill ==
  ASSUME PipeType, PipeType', LineType, Piped, NEW s \in Stream, NEW k \in Nat, NEW over,
         ReaderFill(s, k, over)
  PROVE  Piped'
<1>1. /\ scanned' = [scanned EXCEPT ![s] = SubSeq(ospipe[s], 1, k)]
      /\ ospipe' = [ospipe EXCEPT ![s] = SubSeq(ospipe[s], k + 1, Len(ospipe[s]))]
      /\ file' = [file EXCEPT ![s] = file[s] + k]
      /\ k \in 1..Len(ospipe[s]) /\ reader[s] = "scan"
      /\ UNCHANGED <<written, longs, reader, track>>
  BY Zenon DEF ReaderFill
<1>2. ASSUME NEW t \in Stream, t # s PROVE PipedAt(t)'
  <2>1. UNCHANGED <<written[t], ospipe[t], file[t], scanned[t]>>
    BY <1>1, <1>2 DEF PipeType
  <2>2. PipedAt(t)
    BY PipedParts
  <2>3. track \/ reader[t] = "done"
    BY <2>2 DEF PipedAt
  <2>4. longs' >= longs
    BY <1>1 DEF PipeType
  <2> QED BY <1>1, <2>1, <2>2, <2>3, <2>4, PipedKept
<1>3. PipedAt(s)'
  <2> DEFINE q == ospipe[s]
             x == SubSeq(q, 1, k)
             y == SubSeq(q, k + 1, Len(q))
  <2>0. PipedAt(s) /\ track
    BY <1>1, PipedParts DEF PipedAt
  <2>1. q \in Seq(Line) /\ written[s] \in Nat /\ file[s] \in Nat /\ k \in 1..Len(q)
    BY <1>1 DEF PipeType
  <2>2. /\ scanned'[s] = x /\ ospipe'[s] = y /\ file'[s] = file[s] + k
    BY <1>1 DEF PipeType
  <2>3. /\ \A i \in 1..Len(q) : /\ q[i].origin = s /\ q[i].n + Len(q) = written[s] + i
                                /\ q[i].long => longs > 0
        /\ file[s] + Len(q) = written[s]
    BY <2>0, <2>1 DEF PipedAt
  <2>4. \A i \in 1..Len(q) : q[i].n \in Nat
    BY <2>1, LineNumbers
  <2> HIDE DEF q
  <2>5. /\ Len(x) = k /\ DOMAIN x = 1..k /\ \A i \in 1..k : x[i] = q[i]
        /\ Len(y) = Len(q) - k /\ DOMAIN y = 1..(Len(q) - k) /\ \A i \in 1..(Len(q) - k) : y[i] = q[k + i]
    BY <2>1
  <2> HIDE DEF x, y
  <2>6. ASSUME NEW i \in 1..k
        PROVE  x[i].origin = s /\ x[i].n + k = (file[s] + k) + i /\ (x[i].long => longs > 0)
    <3>1. i \in 1..Len(q) /\ x[i] = q[i]
      BY <2>1, <2>5
    <3>2. q[i].origin = s /\ (q[i].long => longs > 0)
      BY <2>3, <3>1
    <3>3. q[i].n + k = (file[s] + k) + i
      <4> DEFINE m == q[i].n
                 w == written[s]
                 f == file[s]
      <4>1. /\ m \in Nat /\ w \in Nat /\ f \in Nat /\ k \in Nat /\ Len(q) \in Nat /\ i \in Nat
            /\ m + Len(q) = w + i /\ f + Len(q) = w
        BY <2>1, <2>3, <2>4, <3>1
      <4> HIDE DEF m, w, f
      <4>2. m + k = (f + k) + i
        BY <4>1
      <4> QED BY <4>2 DEF m, f
    <3> QED BY <3>1, <3>2, <3>3
  <2>7. ASSUME NEW i \in 1..(Len(q) - k)
        PROVE  y[i].origin = s /\ y[i].n + (Len(q) - k) = written[s] + i /\ (y[i].long => longs > 0)
    <3>1. k + i \in 1..Len(q) /\ y[i] = q[k + i]
      BY <2>1, <2>5
    <3>2. q[k + i].origin = s /\ (q[k + i].long => longs > 0)
      BY <2>3, <3>1
    <3>3. q[k + i].n + (Len(q) - k) = written[s] + i
      <4> DEFINE m == q[k + i].n
                 w == written[s]
      <4>1. /\ m \in Nat /\ w \in Nat /\ k \in Nat /\ Len(q) \in Nat /\ i \in Nat
            /\ m + Len(q) = w + (k + i)
        BY <2>1, <2>3, <2>4, <3>1
      <4> HIDE DEF m, w
      <4>2. m + (Len(q) - k) = w + i
        BY <4>1
      <4> QED BY <4>2 DEF m, w
    <3> QED BY <3>1, <3>2, <3>3
  <2>8. (file[s] + k) + (Len(q) - k) = written[s]
    <3> DEFINE w == written[s]
               f == file[s]
    <3>1. w \in Nat /\ f \in Nat /\ k \in Nat /\ Len(q) \in Nat /\ f + Len(q) = w
      BY <2>1, <2>3
    <3> HIDE DEF w, f
    <3>2. (f + k) + (Len(q) - k) = w
      BY <3>1
    <3> QED BY <3>2 DEF w, f
  <2>9. /\ scanned'[s] = x /\ ospipe'[s] = y /\ file'[s] = file[s] + k /\ written'[s] = written[s]
        /\ longs' = longs /\ track' /\ Len(x) = k /\ DOMAIN x = 1..k
        /\ Len(y) = Len(q) - k /\ DOMAIN y = 1..(Len(q) - k)
    BY <1>1, <2>0, <2>2, <2>5
  <2> QED BY <2>6, <2>7, <2>8, <2>9 DEF PipedAt
<1> QED BY <1>2, <1>3 DEF Piped, PipedAt

LEMMA PipedHandOver ==
  ASSUME PipeType, PipeType', Piped, NEW s \in Stream, ReaderSend(s) \/ ReaderEnd(s)
  PROVE  Piped'
<1>1. /\ UNCHANGED <<written, ospipe, file, longs, track>> /\ longs' >= longs
      /\ reader' = reader \/ reader' = [reader EXCEPT ![s] = "done"]
      /\ \/ scanned[s] # <<>> /\ scanned' = [scanned EXCEPT ![s] = Tail(scanned[s])]
         \/ scanned' = [scanned EXCEPT ![s] = <<>>]
  <2>1. longs >= longs
    BY DEF PipeType
  <2>2. CASE ReaderSend(s)
    BY <2>1, <2>2 DEF ReaderSend
  <2>3. CASE ReaderEnd(s)
    <3>1. /\ UNCHANGED <<written, ospipe, file, longs, track>>
          /\ reader' = [reader EXCEPT ![s] = "done"] /\ scanned' = [scanned EXCEPT ![s] = <<>>]
      BY <2>3, Zenon DEF ReaderEnd
    <3> QED BY <2>1, <3>1
  <2> QED BY <2>2, <2>3
<1>2. ASSUME NEW t \in Stream PROVE PipedAt(t) /\ (track \/ reader'[t] = "done")
  <2>1. PipedAt(t)
    BY PipedParts
  <2>2. track \/ reader[t] = "done"
    BY <2>1 DEF PipedAt
  <2> QED BY <1>1, <2>1, <2>2 DEF PipeType
<1>3. ASSUME NEW t \in Stream, t # s PROVE PipedAt(t)'
  <2>1. scanned'[t] = scanned[t]
    BY <1>1, <1>3 DEF PipeType
  <2> QED BY <1>1, <1>2, <2>1, PipedKept
<1>4. PipedAt(s)'
  <2> DEFINE q == scanned[s]
             z == scanned'[s]
  <2>1. q \in Seq(Line) /\ file[s] \in Nat /\ (z = <<>> \/ (q # <<>> /\ z = Tail(q)))
    BY <1>1 DEF PipeType
  <2>2. \A i \in 1..Len(q) : q[i].origin = s /\ q[i].n + Len(q) = file[s] + i /\ (q[i].long => longs > 0)
    BY <1>2, <2>1 DEF PipedAt
  <2>3. \A i \in 1..Len(q) : q[i].n \in Nat
    BY <2>1, LineNumbers
  <2>4. ~track => z = <<>>
    BY <1>2, <2>1 DEF PipedAt
  <2> HIDE DEF q, z
  <2>5. \A i \in DOMAIN z : z[i].origin = s /\ z[i].n + Len(z) = file[s] + i /\ (z[i].long => longs > 0)
    <3>1. CASE z = <<>>
      BY <3>1
    <3>2. CASE q # <<>> /\ z = Tail(q)
      <4>1. Len(q) \in Nat /\ Len(q) > 0 /\ DOMAIN z = 1..(Len(q) - 1) /\ Len(z) = Len(q) - 1 /\ \A i \in DOMAIN z : z[i] = q[i + 1]
        BY <2>1, <3>2
      <4> TAKE i \in DOMAIN z
      <4>2. i + 1 \in 1..Len(q) /\ z[i] = q[i + 1] /\ i \in Nat
        BY <4>1
      <4>3. q[i + 1].n \in Nat /\ q[i + 1].n + Len(q) = file[s] + (i + 1) /\ q[i + 1].origin = s
        BY <2>2, <2>3, <4>2
      <4>4. q[i + 1].n + (Len(q) - 1) = file[s] + i
        BY <2>1, <4>1, <4>2, <4>3
      <4>5. q[i + 1].long => longs > 0
        BY <2>2, <4>2
      <4> QED BY <4>1, <4>2, <4>3, <4>4, <4>5
    <3> QED BY <2>1, <3>1, <3>2
  <2>6. /\ \A i \in DOMAIN scanned'[s] : /\ scanned'[s][i].origin = s
                                         /\ scanned'[s][i].n + Len(scanned'[s]) = file[s] + i
                                         /\ scanned'[s][i].long => longs > 0
        /\ ~track => scanned'[s] = <<>>
    BY <2>4, <2>5 DEF z
  <2> QED BY <1>1, <1>2, <2>6 DEF PipedAt
<1> QED BY <1>3, <1>4 DEF Piped, PipedAt

LEMMA PipedStep ==
  ASSUME Typed, Typed', Piped, [SupervisorNext]_supervisorVars
  PROVE  Piped'
<1>0. PipeType /\ PipeType' /\ LineType
  BY DEF Typed
<1>1. CASE Controls
  <2>1. /\ UNCHANGED <<track, written, longs, file, ospipe, scanned>>
        /\ reader' = reader \/ reader' = [s \in Stream |-> IF track THEN "scan" ELSE "done"]
    BY <1>1, ControlsAlone
  <2> QED BY <2>1 DEF Piped
<1>2. CASE UNCHANGED job
  BY <1>2 DEF job, chan, Piped
<1>3. CASE Moves
  <2>1. ASSUME NEW ok1 \in BOOLEAN, NEW ok2 \in BOOLEAN, WatchLine(ok1, ok2) PROVE Piped'
    <3>1. UNCHANGED <<track, written, longs, file, ospipe, scanned, reader>>
      BY <2>1 DEF WatchLine
    <3> QED BY <3>1 DEF Piped
  <2>2. ASSUME NEW ok \in BOOLEAN, NEW last \in BOOLEAN, WatchPublish(ok, last) PROVE Piped'
    <3>1. UNCHANGED <<track, written, longs, file, ospipe, scanned, reader>>
      BY <2>2 DEF WatchPublish
    <3> QED BY <3>1 DEF Piped
  <2>3. ASSUME NEW s \in Stream, NEW long \in BOOLEAN, ChildWrite(s, long) PROVE Piped'
    BY <1>0, <2>3, PipedWrite
  <2>4. ASSUME NEW s \in Stream, ReaderSend(s) \/ ReaderEnd(s) PROVE Piped'
    BY <1>0, <2>4, PipedHandOver
  <2>5. ASSUME NEW s \in Stream, NEW k \in 1..PipeCap, NEW over, ReaderFill(s, k, over) PROVE Piped'
    <3>1. k \in Nat
      BY SupervisorAssumption
    <3> QED BY <1>0, <2>5, <3>1, PipedFill
  <2> QED BY <1>3, <2>1, <2>2, <2>3, <2>4, <2>5 DEF Moves, Watch, Read
<1> QED BY <1>1, <1>2, <1>3, TwoKinds

-----------------------------------------------------------------------------
(* Numbers on the way.                                                     *)

\* How many lines of a stream watchOutput() was given.
Taken(s) == CountOf(s, Way, Len(Way))

\* A step of the output that no reader takes, and one in which a scanner only
\* fills its memory, moves no line on its way.
LEMMA WayStays ==
  ASSUME Typed, Typed', Controls \/ Moves \/ UNCHANGED job,
         \A s \in Stream : ~ReaderSend(s) /\ \A k, over : ~ReaderFill(s, k, over)
  PROVE  Way' = Way
<1>0. LineType /\ LineType'
  BY DEF Typed
<1>1. ASSUME UNCHANGED <<sent, buff, lines>> PROVE Way' = Way
  BY <1>1, Zenon DEF Way
<1>2. CASE Controls
  BY <1>1, <1>2, ControlsAlone
<1>3. CASE UNCHANGED job
  BY <1>1, <1>3 DEF job, chan
<1>4. CASE Moves
  <2>1. ASSUME NEW ok1 \in BOOLEAN, NEW ok2 \in BOOLEAN, WatchLine(ok1, ok2) PROVE Way' = Way
    BY <1>0, <2>1, WatchLineWay
  <2>2. ASSUME NEW ok \in BOOLEAN, NEW last \in BOOLEAN, WatchPublish(ok, last) PROVE Way' = Way
    BY <1>0, <2>2, WatchPublishWay
  <2>3. ASSUME NEW s \in Stream, NEW long \in BOOLEAN, ChildWrite(s, long) PROVE Way' = Way
    <3>1. UNCHANGED <<sent, buff, lines>>
      BY <2>3 DEF ChildWrite
    <3> QED BY <1>1, <3>1
  <2>4. ASSUME NEW s \in Stream, ReaderEnd(s) PROVE Way' = Way
    <3>1. UNCHANGED <<sent, buff, lines>>
      BY <2>4, Zenon DEF ReaderEnd
    <3> QED BY <1>1, <3>1
  <2> QED BY <1>4, <2>1, <2>2, <2>3, <2>4 DEF Moves, Watch, Read
<1> QED BY <1>2, <1>3, <1>4

\* The way after a line was handed over: the counts before it stay, that of its
\* stream is one more.
LEMMA SendCounts ==
  ASSUME PipeType, LineType, NEW s \in Stream, ReaderSend(s), Head(scanned[s]).origin = s
  PROVE  /\ Way' \in Seq(Line) /\ Len(Way') = Len(Way) + 1 /\ Len(Way) \in Nat
         /\ \A i \in 1..Len(Way) : Way'[i] = Way[i]
         /\ Way'[Len(Way) + 1] = Head(scanned[s])
         /\ \A t : \A i \in 1..Len(Way) : CountOf(t, Way', i) = CountOf(t, Way, i)
         /\ \A t : Taken(t)' = Taken(t) + (IF t = s THEN 1 ELSE 0)
<1> DEFINE w == Way
           v == Append(w, Head(scanned[s]))
           l == Head(scanned[s])
<1>1. Way' = v /\ l \in Line
  BY SendWay
<1>2. w \in Seq(Line)
  BY WayTyped
<1> HIDE DEF w, l
<1>3. /\ v \in Seq(Line) /\ Len(v) = Len(w) + 1 /\ Len(w) \in Nat /\ v[Len(w) + 1] = l
      /\ \A i \in 1..Len(w) : v[i] = w[i]
  BY <1>1, <1>2 DEF l
<1> HIDE DEF v
<1>4. ASSUME NEW t, NEW i \in 0..Len(w) PROVE CountOf(t, v, i) = CountOf(t, w, i)
  <2>1. i \in Nat /\ \A j \in 1..i : v[j].origin = w[j].origin
    BY <1>3
  <2> QED BY <2>1, CountSame
<1>5. ASSUME NEW t PROVE Taken(t)' = Taken(t) + (IF t = s THEN 1 ELSE 0)
  <2>1. Taken(t)' = CountOf(t, v, Len(w) + 1)
    BY <1>1, <1>3 DEF Taken
  <2>2. CountOf(t, v, Len(w) + 1) = CountOf(t, v, Len(w)) + (IF l.origin = t THEN 1 ELSE 0)
    BY <1>3, CountNext
  <2>3. CountOf(t, v, Len(w)) = Taken(t)
    BY <1>3, <1>4 DEF Taken, w
  <2>4. l.origin = s
    BY DEF l
  <2> QED BY <2>1, <2>2, <2>3, <2>4
<1> QED BY <1>1, <1>3, <1>4, <1>5 DEF w, l

\* The way after a scanner filled its memory: the same streams and numbers.
LEMMA FillCounts ==
  ASSUME LineType, NEW s \in Stream, NEW k, NEW over, ReaderFill(s, k, over)
  PROVE  /\ Len(Way') = Len(Way) /\ Way' \in Seq(Line) /\ Way \in Seq(Line)
         /\ \A i \in 1..Len(Way) : /\ Way'[i].origin = Way[i].origin
                                        /\ Way'[i].n = Way[i].n
         /\ \A t : \A i \in 1..Len(Way) : CountOf(t, Way', i) = CountOf(t, Way, i)
         /\ \A t : Taken(t)' = Taken(t)
<1> DEFINE w == Way
           v == Way'
<1>1. /\ Len(v) = Len(w) /\ v \in Seq(Line) /\ w \in Seq(Line)
      /\ \A i \in 1..Len(w) : v[i].origin = w[i].origin /\ v[i].n = w[i].n
  BY FillWay, WayTyped
<1> HIDE DEF w, v
<1>2. ASSUME NEW t, NEW i \in 0..Len(w) PROVE CountOf(t, v, i) = CountOf(t, w, i)
  <2>1. i \in Nat /\ \A j \in 1..i : v[j].origin = w[j].origin
    BY <1>1
  <2> QED BY <2>1, CountSame
<1>3. Len(w) \in 0..Len(w)
  BY <1>1
<1>4. ASSUME NEW t PROVE Taken(t)' = Taken(t)
  BY <1>1, <1>2, <1>3 DEF Taken, w, v
<1> QED BY <1>1, <1>2, <1>4 DEF w, v

\* The line a reader hands over is its stream's, with the number after those handed over.
LEMMA SendNext ==
  ASSUME PipeType, LineType, Piped, Passed, NEW s \in Stream, ReaderSend(s)
  PROVE  Head(scanned[s]).origin = s /\ Head(scanned[s]).n = Taken(s) + 1 /\ Taken(s) \in Nat
<1> DEFINE q == scanned[s]
           f == file[s]
           c == Taken(s)
           m == Head(q).n
<1>1. q \in Seq(Line) /\ q # <<>> /\ reader[s] = "scan" /\ f \in Nat
  BY DEF PipeType, ReaderSend
<1>2. Len(q) \in Nat /\ 1 \in 1..Len(q) /\ Head(q) = q[1] /\ DOMAIN q = 1..Len(q)
  BY <1>1
<1>3. q[1].origin = s /\ q[1].n + Len(q) = f + 1 /\ track
  <2>1. PipedAt(s)
    BY PipedParts
  <2> QED BY <1>1, <1>2, <2>1 DEF PipedAt
<1>4. c + Len(q) = f
  BY <1>1, <1>3 DEF Passed, Taken
<1>5. c \in Nat /\ m \in Nat
  <2>1. Len(Way) \in Nat
    BY WayTyped
  <2> QED BY <1>1, <1>2, <2>1, CountNat, LineNumbers DEF Taken
<1>6. m + Len(q) = f + 1
  BY <1>2, <1>3
<1> HIDE DEF c, m, f, q
<1>7. m = c + 1
  BY <1>1, <1>2, <1>4, <1>5, <1>6
<1> QED BY <1>2, <1>3, <1>5, <1>7 DEF c, m, q

LEMMA NumberedStep ==
  ASSUME Typed, Typed', Piped, Passed, Numbered, [SupervisorNext]_supervisorVars
  PROVE  Numbered'
<1>0. PipeType /\ LineType
  BY DEF Typed
<1>d. Way \in Seq(Line) /\ DOMAIN Way = 1..Len(Way)
  BY <1>0, WayTyped
<1>1. ASSUME NEW s \in Stream, ReaderSend(s) PROVE Numbered'
  <2> DEFINE w == Way
             v == Way'
             l == Head(scanned[s])
  <2>1. l.origin = s /\ l.n = Taken(s) + 1 /\ Taken(s) \in Nat
    BY <1>0, <1>1, SendNext
  <2>2. /\ v \in Seq(Line) /\ Len(v) = Len(w) + 1 /\ Len(w) \in Nat
        /\ \A i \in 1..Len(w) : v[i] = w[i]
        /\ v[Len(w) + 1] = l
        /\ \A t : \A i \in 1..Len(w) : CountOf(t, v, i) = CountOf(t, w, i)
        /\ Taken(s)' = Taken(s) + 1
    BY <1>0, <1>1, <2>1, SendCounts
  <2>3. \A i \in 1..Len(w) : w[i].n = CountOf(w[i].origin, w, i)
    BY <1>d DEF Numbered
  <2>4. Taken(s)' = CountOf(s, v, Len(w) + 1)
    BY <2>2 DEF Taken
  <2> HIDE DEF w, v, l
  <2>5. ASSUME NEW i \in 1..Len(v) PROVE v[i].n = CountOf(v[i].origin, v, i)
    <3>1. CASE i = Len(w) + 1
      BY <2>1, <2>2, <2>4, <3>1
    <3>2. CASE i \in 1..Len(w)
      <4>1. v[i] = w[i] /\ w[i].n = CountOf(w[i].origin, w, i)
        BY <2>2, <2>3, <3>2
      <4>2. CountOf(w[i].origin, v, i) = CountOf(w[i].origin, w, i)
        BY <2>2, <3>2
      <4> QED BY <4>1, <4>2
    <3> QED BY <2>2, <3>1, <3>2
  <2>6. DOMAIN v = 1..Len(v)
    BY <2>2
  <2> QED BY <2>5, <2>6 DEF Numbered, v
<1>2. ASSUME NEW s \in Stream, NEW k, NEW over, ReaderFill(s, k, over) PROVE Numbered'
  <2> DEFINE w == Way
             v == Way'
  <2>1. /\ Len(v) = Len(w) /\ v \in Seq(Line)
        /\ \A i \in 1..Len(w) : v[i].origin = w[i].origin /\ v[i].n = w[i].n
        /\ \A t : \A i \in 1..Len(w) : CountOf(t, v, i) = CountOf(t, w, i)
    BY <1>0, <1>2, FillCounts
  <2>2. \A i \in 1..Len(w) : w[i].n = CountOf(w[i].origin, w, i)
    BY <1>d DEF Numbered
  <2> HIDE DEF w, v
  <2>3. ASSUME NEW i \in 1..Len(v) PROVE v[i].n = CountOf(v[i].origin, v, i)
    BY <2>1, <2>2
  <2>4. DOMAIN v = 1..Len(v)
    BY <2>1
  <2> QED BY <2>3, <2>4 DEF Numbered, v
<1>3. CASE \A s \in Stream : ~ReaderSend(s) /\ \A k, over : ~ReaderFill(s, k, over)
  <2>1. Way' = Way
    BY <1>3, TwoKinds, WayStays
  <2> QED BY <2>1 DEF Numbered
<1> QED BY <1>1, <1>2, <1>3

\* What Passed says of one stream.
PassedAt(s) ==
  /\ track /\ (reader[s] = "scan" \/ longs = 0) => Taken(s) + Len(scanned[s]) = file[s]
  /\ reader[s] = "done" => scanned[s] = <<>>

LEMMA PassedParts == Passed <=> \A s \in Stream : PassedAt(s)
BY DEF Passed, PassedAt, Taken

LEMMA PassedStart ==
  ASSUME Unstarted, Passed, LineType, Controls
  PROVE  Passed'
<1>1. UNCHANGED <<track, longs, file, scanned, sent, buff, lines>>
  BY ControlsAlone
<1>2. Way' = Way
  BY <1>1, Zenon DEF Way
<1>3. CASE UNCHANGED <<reader, watcher>>
  BY <1>1, <1>2, <1>3 DEF Passed
<1>4. CASE sup = "specsent"
  <2>1. /\ sent = <<>> /\ buff = <<>> /\ lines = <<>>
        /\ \A s \in Stream : scanned[s] = <<>> /\ file[s] = 0
    BY <1>4 DEF Unstarted
  <2>2. Way = <<>>
    <3>1. LinesOf(sent) = <<>>
      BY <2>1 DEF LinesOf
    <3> QED BY <2>1, <3>1, WayTyped
  <2>3. ASSUME NEW s \in Stream PROVE CountOf(s, Way', Len(Way')) + Len(scanned'[s]) = file'[s]
    <3>1. Len(Way') = 0 /\ Len(scanned'[s]) = 0 /\ file'[s] = 0
      BY <1>1, <1>2, <2>1, <2>2
    <3>2. CountOf(s, Way', 0) = 0
      BY CountNone
    <3> QED BY <3>1, <3>2
  <2>4. \A s \in Stream : scanned'[s] = <<>>
    BY <1>1, <2>1
  <2> QED BY <2>3, <2>4 DEF Passed
<1> QED BY <1>3, <1>4, ControlsAlone

LEMMA PassedWrite ==
  ASSUME Typed, Typed', Passed, NEW s \in Stream, NEW long \in BOOLEAN,
         ChildWrite(s, long)
  PROVE  Passed'
<1>1. /\ UNCHANGED <<track, reader, scanned, sent, buff, lines>> /\ (track => file' = file)
      /\ longs' = (IF long THEN longs + 1 ELSE longs)
  BY DEF ChildWrite
<1>2. longs' = 0 => longs = 0
  BY <1>1 DEF Typed, PipeType
<1>3. Way' = Way
  BY <1>1, Zenon DEF Way
<1> QED BY <1>1, <1>2, <1>3 DEF Passed

LEMMA PassedEnd ==
  ASSUME Typed, Typed', Piped, Passed, NEW s \in Stream, ReaderEnd(s)
  PROVE  Passed'
<1>1. /\ reader[s] = "scan" /\ reader' = [reader EXCEPT ![s] = "done"] /\ scanned' = [scanned EXCEPT ![s] = <<>>]
      /\ UNCHANGED <<track, longs, file, sent, buff, lines>>
      /\ scanned[s] = <<>> \/ (scanned[s] # <<>> /\ Head(scanned[s]).long)
  BY Zenon DEF ReaderEnd
<1>2. Way' = Way
  BY <1>1, Zenon DEF Way
<1>3. \A t : Taken(t)' = Taken(t)
  BY <1>2 DEF Taken
<1>4. ASSUME NEW t \in Stream, t # s PROVE PassedAt(t)'
  <2>1. PassedAt(t)
    BY PassedParts
  <2>2. reader'[t] = reader[t] /\ scanned'[t] = scanned[t]
    BY <1>1, <1>4 DEF Typed, PipeType
  <2> QED BY <1>1, <1>3, <2>1, <2>2 DEF PassedAt
<1>5. PassedAt(s)'
  <2>1. PassedAt(s) /\ PipedAt(s)
    BY PassedParts, PipedParts
  <2>2. reader'[s] = "done" /\ scanned'[s] = <<>> /\ scanned[s] \in Seq(Line)
    BY <1>1 DEF Typed, PipeType
  <2>3. longs = 0 => scanned[s] = <<>>
    <3>1. ASSUME scanned[s] # <<>>, Head(scanned[s]).long PROVE longs > 0
      <4>1. 1 \in DOMAIN scanned[s] /\ Head(scanned[s]) = scanned[s][1]
        BY <2>2, <3>1
      <4> QED BY <2>1, <3>1, <4>1 DEF PipedAt
    <3> QED BY <1>1, <3>1 DEF Typed, PipeType
  <2> QED BY <1>1, <1>3, <2>1, <2>2, <2>3 DEF PassedAt
<1> QED BY <1>3, <1>4, <1>5 DEF Passed, PassedAt, Taken

LEMMA PassedSend ==
  ASSUME Typed, Typed', Piped, Passed, NEW s \in Stream, ReaderSend(s)
  PROVE  Passed'
<1>0. PipeType /\ LineType
  BY DEF Typed
<1>1. /\ reader[s] = "scan" /\ scanned[s] # <<>> /\ scanned' = [scanned EXCEPT ![s] = Tail(scanned[s])]
      /\ UNCHANGED <<track, longs, file, reader>>
  BY Zenon DEF ReaderSend
<1>2. /\ Head(scanned[s]).origin = s /\ Taken(s) \in Nat
      /\ \A t : Taken(t)' = Taken(t) + (IF t = s THEN 1 ELSE 0)
  BY <1>0, SendNext, SendCounts
<1>3. ASSUME NEW t \in Stream, t # s PROVE PassedAt(t)'
  <2>1. PassedAt(t)
    BY PassedParts
  <2>2. scanned'[t] = scanned[t]
    BY <1>0, <1>1, <1>3 DEF PipeType
  <2>3. Taken(t)' = Taken(t)
    <3>1. Taken(t) \in Nat
      <4>1. Len(Way) \in Nat
        BY <1>0, WayTyped
      <4> QED BY <4>1, CountNat DEF Taken
    <3> QED BY <1>2, <1>3, <3>1
  <2> QED BY <1>1, <2>1, <2>2, <2>3 DEF PassedAt
<1>4. PassedAt(s)'
  <2>1. PassedAt(s)
    BY PassedParts
  <2>2. /\ scanned'[s] = Tail(scanned[s]) /\ Len(Tail(scanned[s])) = Len(scanned[s]) - 1
        /\ Len(scanned[s]) \in Nat
    BY <1>0, <1>1 DEF PipeType
  <2>3. Taken(s)' = Taken(s) + 1
    BY <1>2
  <2>4. track => Taken(s) + Len(scanned[s]) = file[s]
    BY <1>1, <2>1 DEF PassedAt
  <2>5. track => Taken(s)' + Len(scanned'[s]) = file[s]
    BY <1>2, <2>2, <2>3, <2>4
  <2> QED BY <1>1, <2>5 DEF PassedAt
<1> QED BY <1>3, <1>4 DEF Passed, PassedAt, Taken

LEMMA PassedFill ==
  ASSUME Typed, Typed', Passed, NEW s \in Stream, NEW k, NEW over, ReaderFill(s, k, over)
  PROVE  Passed'
<1>0. PipeType /\ LineType
  BY DEF Typed
<1>1. /\ reader[s] = "scan" /\ scanned[s] = <<>> /\ scanned' = [scanned EXCEPT ![s] = SubSeq(ospipe[s], 1, k)]
      /\ file' = [file EXCEPT ![s] = file[s] + k] /\ k \in 1..Len(ospipe[s])
      /\ UNCHANGED <<track, longs, reader>>
  BY Zenon DEF ReaderFill
<1>2. \A t : Taken(t)' = Taken(t)
  BY <1>0, FillCounts
<1>3. ASSUME NEW t \in Stream, t # s PROVE PassedAt(t)'
  <2>1. PassedAt(t)
    BY PassedParts
  <2>2. scanned'[t] = scanned[t] /\ file'[t] = file[t]
    BY <1>0, <1>1, <1>3 DEF PipeType
  <2> QED BY <1>1, <1>2, <2>1, <2>2 DEF PassedAt
<1>4. PassedAt(s)'
  <2>1. PassedAt(s)
    BY PassedParts
  <2>2. Taken(s) \in Nat /\ file[s] \in Nat /\ k \in Nat /\ file'[s] = file[s] + k
    <3>1. Len(Way) \in Nat
      BY <1>0, WayTyped
    <3>2. Taken(s) \in Nat
      BY <3>1, CountNat DEF Taken
    <3>3. file[s] \in Nat /\ file'[s] = file[s] + k
      BY <1>0, <1>1 DEF PipeType
    <3>4. k \in Nat
      <4>1. Len(ospipe[s]) \in Nat
        BY <1>0 DEF PipeType
      <4> QED BY <1>1, <4>1
    <3> QED BY <3>2, <3>3, <3>4
  <2>3. Len(scanned'[s]) = k
    <3>1. ospipe[s] \in Seq(Line) /\ scanned'[s] = SubSeq(ospipe[s], 1, k)
      BY <1>0, <1>1 DEF PipeType
    <3> QED BY <1>1, <3>1
  <2>4. track => Taken(s) + 0 = file[s]
    BY <1>1, <2>1 DEF PassedAt
  <2>5. track => Taken(s)' + Len(scanned'[s]) = file'[s]
    BY <1>2, <2>2, <2>3, <2>4
  <2> QED BY <1>1, <2>5 DEF PassedAt
<1> QED BY <1>3, <1>4 DEF Passed, PassedAt, Taken

LEMMA PassedStep ==
  ASSUME Typed, Typed', Unstarted, Piped, Passed, [SupervisorNext]_supervisorVars
  PROVE  Passed'
<1>1. CASE Controls
  BY <1>1, PassedStart DEF Typed
<1>2. ASSUME UNCHANGED <<track, longs, file, scanned, reader>>, Way' = Way PROVE Passed'
  BY <1>2 DEF Passed
<1>3. CASE UNCHANGED job
  <2>1. UNCHANGED <<track, longs, file, scanned, reader, sent, buff, lines>>
    BY <1>3 DEF job, chan
  <2>2. Way' = Way
    BY <2>1, Zenon DEF Way
  <2> QED BY <1>2, <2>1, <2>2
<1>4. CASE Moves
  <2>1. ASSUME NEW ok1 \in BOOLEAN, NEW ok2 \in BOOLEAN, WatchLine(ok1, ok2) PROVE Passed'
    <3>1. UNCHANGED <<track, longs, file, scanned, reader>>
      BY <2>1 DEF WatchLine
    <3> QED BY <1>2, <2>1, <3>1, WatchLineWay DEF Typed
  <2>2. ASSUME NEW ok \in BOOLEAN, NEW last \in BOOLEAN, WatchPublish(ok, last) PROVE Passed'
    <3>1. UNCHANGED <<track, longs, file, scanned, reader>>
      BY <2>2 DEF WatchPublish
    <3> QED BY <1>2, <2>2, <3>1, WatchPublishWay DEF Typed
  <2>3. ASSUME NEW s \in Stream, NEW long \in BOOLEAN, ChildWrite(s, long) PROVE Passed'
    BY <2>3, PassedWrite
  <2>4. ASSUME NEW s \in Stream, Read(s) PROVE Passed'
    BY <2>4, PassedSend, PassedEnd, PassedFill DEF Read
  <2> QED BY <1>4, <2>1, <2>2, <2>3, <2>4 DEF Moves, Watch
<1> QED BY <1>1, <1>3, <1>4, TwoKinds

-----------------------------------------------------------------------------
(* The subject of a submission.                                            *)

\* Lines of a buffer of one stream, submitted under that stream.
LEMMA PublishOwn ==
  ASSUME NEW b \in Seq(Line), NEW subject, NEW ok \in BOOLEAN, Publish(b, subject, ok).fails = 0,
         \A i \in 1..Len(b) : b[i].origin = subject
  PROVE  /\ Publish(b, subject, ok).buff = <<>>
         /\ \A i \in DOMAIN Publish(b, subject, ok).sent :
              Publish(b, subject, ok).sent[i].subject = Publish(b, subject, ok).sent[i].line.origin
<1>1. CASE ok
  <2>1. Publish(b, subject, ok).sent = Under(subject, b) /\ Publish(b, subject, ok).buff = <<>>
    BY <1>1, Zenon DEF Publish
  <2>2. ASSUME NEW i \in DOMAIN Under(subject, b)
        PROVE  Under(subject, b)[i].subject = Under(subject, b)[i].line.origin
    <3>0. i \in 1..Len(b)
      BY UnderLines, Zenon
    <3>1. i \in 1..Len(b) /\ Under(subject, b)[i] = [subject |-> subject, line |-> b[i]]
      BY <3>0, UnderLines
    <3>2. b[i].origin = subject
      BY <3>1
    <3> QED BY <3>1, <3>2
  <2> QED BY <2>1, <2>2
<1>2. CASE ~ok
  <2>1. /\ Publish(b, subject, ok).sent = <<>> /\ Publish(b, subject, ok).buff = b
        /\ Publish(b, subject, ok).fails = (IF b = <<>> THEN 0 ELSE 1)
    BY <1>2, Zenon DEF Publish
  <2>2. b = <<>>
    BY <2>1
  <2> QED BY <2>1, <2>2
<1> QED BY <1>1, <1>2

\* Own lines stay own when more of them follow.
LEMMA ConcatOwn ==
  ASSUME NEW q \in Seq(Sent), NEW r \in Seq(Sent),
         \A i \in DOMAIN q : q[i].subject = q[i].line.origin,
         \A i \in DOMAIN r : r[i].subject = r[i].line.origin
  PROVE  \A i \in DOMAIN (q \o r) : (q \o r)[i].subject = (q \o r)[i].line.origin
<1>1. /\ DOMAIN q = 1..Len(q) /\ DOMAIN r = 1..Len(r) /\ DOMAIN (q \o r) = 1..(Len(q) + Len(r))
      /\ Len(q) \in Nat /\ Len(r) \in Nat
  OBVIOUS
<1> SUFFICES ASSUME NEW i \in 1..(Len(q) + Len(r))
             PROVE  (q \o r)[i].subject = (q \o r)[i].line.origin
  BY <1>1
<1>2. CASE i <= Len(q)
  <2>1. (q \o r)[i] = q[i] /\ i \in DOMAIN q
    BY <1>1, <1>2
  <2> QED BY <2>1
<1>3. CASE i > Len(q)
  <2>1. (q \o r)[i] = r[i - Len(q)] /\ i - Len(q) \in DOMAIN r
    BY <1>1, <1>3
  <2> QED BY <2>1
<1>4. i <= Len(q) \/ i > Len(q)
  BY <1>1
<1> QED BY <1>2, <1>3, <1>4

\* As long as no submission fails, the buffer is submitted before a line of the
\* other stream is added to it.
LEMMA TakeLineOwn ==
  ASSUME LineType, NEW ok1 \in BOOLEAN, NEW ok2 \in BOOLEAN, lines # <<>>,
         TakeLine(ok1, ok2).fails = 0, \A i \in 1..Len(buff) : buff[i].origin = prev
  PROVE  /\ \A i \in DOMAIN TakeLine(ok1, ok2).buff :
              TakeLine(ok1, ok2).buff[i].origin = Head(lines).origin
         /\ \A i \in DOMAIN TakeLine(ok1, ok2).sent :
              TakeLine(ok1, ok2).sent[i].subject = TakeLine(ok1, ok2).sent[i].line.origin
<1> DEFINE l    == Head(lines)
           R    == [buff : Seq(Line), sent : Seq(Sent), fails : 0..1]
           turn == IF prev \notin {"none", l.origin} THEN Publish(buff, prev, ok1)
                   ELSE [buff |-> buff, sent |-> <<>>, fails |-> 0]
           full == IF Len(turn.buff) > BuffMax THEN Publish(turn.buff, prev, ok2)
                   ELSE [buff |-> turn.buff, sent |-> <<>>, fails |-> 0]
           Own(q) == \A i \in DOMAIN q : q[i].subject = q[i].line.origin
           L    == Line
<1>0. /\ l \in L /\ buff \in Seq(L) /\ prev \in Stream \cup {"none"}
      /\ prev = "none" => buff = <<>>
  BY DEF LineType
<1>e. Own(<<>>) /\ [buff |-> buff, sent |-> <<>>, fails |-> 0] \in R
  BY <1>0
<1>1. turn \in R /\ (prev = "none" => turn.buff = <<>>)
  <2>1. Publish(buff, prev, ok1) \in R
    BY <1>0, PublishTyped
  <2> QED BY <1>0, <1>e, <2>1
<1>2. turn.fails = 0 => /\ Own(turn.sent) /\ \A i \in 1..Len(turn.buff) : turn.buff[i].origin = prev
                        /\ prev = l.origin \/ turn.buff = <<>>
  <2>1. CASE prev \notin {"none", l.origin}
    <3>1. turn = Publish(buff, prev, ok1)
      BY <2>1
    <3> HIDE DEF turn, Own
    <3>2. turn.fails = 0 => turn.buff = <<>> /\ Own(turn.sent)
      BY <1>0, <3>1, PublishOwn DEF Own
    <3> QED BY <3>2
  <2>2. CASE prev \in {"none", l.origin}
    <3>1. turn = [buff |-> buff, sent |-> <<>>, fails |-> 0]
      BY <2>2
    <3> HIDE DEF turn, Own
    <3>2. turn.buff = buff /\ turn.sent = <<>>
      BY <3>1
    <3> QED BY <1>0, <1>e, <2>2, <3>2
  <2> QED BY <2>1, <2>2
<1> HIDE DEF turn
<1>3. full \in R
  <2>1. Publish(turn.buff, prev, ok2) \in R
    BY <1>0, <1>1, PublishTyped
  <2>2. [buff |-> turn.buff, sent |-> <<>>, fails |-> 0] \in R
    BY <1>1
  <2> QED BY <2>1, <2>2
<1>4. turn.fails = 0 /\ full.fails = 0 =>
        /\ Own(full.sent) /\ \A i \in 1..Len(full.buff) : full.buff[i].origin = l.origin
  <2> SUFFICES ASSUME turn.fails = 0, full.fails = 0
               PROVE  Own(full.sent) /\ \A i \in 1..Len(full.buff) : full.buff[i].origin = l.origin
    OBVIOUS
  <2>0. turn.buff \in Seq(L) /\ \A i \in 1..Len(turn.buff) : turn.buff[i].origin = prev
    BY <1>1, <1>2
  <2>1. CASE Len(turn.buff) > BuffMax
    <3>1. full = Publish(turn.buff, prev, ok2)
      BY <2>1
    <3> HIDE DEF full, Own
    <3>2. full.buff = <<>> /\ Own(full.sent)
      BY <2>0, <3>1, PublishOwn DEF Own
    <3> QED BY <3>2
  <2>2. CASE ~(Len(turn.buff) > BuffMax)
    <3>1. full = [buff |-> turn.buff, sent |-> <<>>, fails |-> 0]
      BY <2>2
    <3> HIDE DEF full, Own
    <3>2. full.buff = turn.buff /\ full.sent = <<>>
      BY <3>1
    <3>3. \A i \in 1..Len(turn.buff) : turn.buff[i].origin = l.origin
      BY <1>2, <2>0
    <3> QED BY <1>e, <3>2, <3>3
  <2> QED BY <2>1, <2>2
<1> HIDE DEF full
<1>5. /\ TakeLine(ok1, ok2).sent = turn.sent \o full.sent
      /\ TakeLine(ok1, ok2).buff = Append(full.buff, l)
      /\ TakeLine(ok1, ok2).fails = turn.fails + full.fails
  BY Zenon DEF TakeLine, turn, full
<1>6. turn.fails = 0 /\ full.fails = 0
  <2>1. turn.fails \in 0..1 /\ full.fails \in 0..1 /\ turn.fails + full.fails = 0
    BY <1>1, <1>3, <1>5
  <2> QED BY <2>1
<1>7. Own(turn.sent \o full.sent)
  <2>1. turn.sent \in Seq(Sent) /\ full.sent \in Seq(Sent) /\ Own(turn.sent) /\ Own(full.sent)
    BY <1>1, <1>2, <1>3, <1>4, <1>6
  <2> QED BY <2>1, ConcatOwn
<1>8. \A i \in DOMAIN Append(full.buff, l) : Append(full.buff, l)[i].origin = l.origin
  <2> DEFINE c == full.buff
  <2>1. c \in Seq(L) /\ \A i \in 1..Len(c) : c[i].origin = l.origin
    BY <1>3, <1>4, <1>6
  <2> HIDE DEF c, l
  <2>2. /\ DOMAIN Append(c, l) = 1..(Len(c) + 1) /\ Append(c, l)[Len(c) + 1] = l
        /\ \A i \in 1..Len(c) : Append(c, l)[i] = c[i]
    BY <1>0, <2>1
  <2>3. \A i \in 1..(Len(c) + 1) : i = Len(c) + 1 \/ i \in 1..Len(c)
    BY <2>1
  <2>4. \A i \in DOMAIN Append(c, l) : Append(c, l)[i].origin = l.origin
    BY <2>1, <2>2, <2>3
  <2> QED BY <2>4 DEF c
<1> QED BY <1>5, <1>7, <1>8

LEMMA OneStreamStep ==
  ASSUME Typed, Typed', OneStream, [SupervisorNext]_supervisorVars
  PROVE  OneStream'
<1>0. LineType /\ LineType' /\ fails \in Nat
  BY SupervisorAssumption DEF Typed, LineType
<1>d. DOMAIN buff = 1..Len(buff) /\ buff \in Seq(Line) /\ sent \in Seq(Sent)
  BY <1>0 DEF LineType
<1>1. ASSUME UNCHANGED <<buff, prev, sent>>, fails' = fails \/ fails' = fails + 1 PROVE OneStream'
  BY <1>0, <1>1 DEF OneStream
<1>2. CASE Controls
  BY <1>1, <1>2, ControlsAlone
<1>3. CASE UNCHANGED job
  BY <1>1, <1>3 DEF job, chan
<1>4. ASSUME NEW ok1 \in BOOLEAN, NEW ok2 \in BOOLEAN, WatchLine(ok1, ok2) PROVE OneStream'
  <2> DEFINE t == TakeLine(ok1, ok2)
  <2>1. /\ lines # <<>> /\ fails' = fails + t.fails
        /\ sent' = sent \o t.sent /\ buff' = t.buff /\ prev' = Head(lines).origin
    BY <1>4 DEF WatchLine
  <2>2. t \in [buff : Seq(Line), sent : Seq(Sent), fails : Nat]
    BY <1>0, <2>1, TakeLineTyped
  <2> SUFFICES ASSUME fails' = 0 PROVE OneStream'
    BY DEF OneStream
  <2>3. fails = 0 /\ t.fails = 0
    <3> HIDE DEF t
    <3>1. t.fails \in Nat
      BY <2>2
    <3> QED BY <1>0, <2>1, <3>1
  <2>4. /\ \A i \in 1..Len(buff) : buff[i].origin = prev
        /\ \A i \in DOMAIN sent : sent[i].subject = sent[i].line.origin
    BY <1>d, <2>3 DEF OneStream
  <2>5. /\ \A i \in DOMAIN t.buff : t.buff[i].origin = Head(lines).origin
        /\ \A i \in DOMAIN t.sent : t.sent[i].subject = t.sent[i].line.origin
    BY <1>0, <2>1, <2>3, <2>4, TakeLineOwn
  <2> HIDE DEF t
  <2>6. \A i \in DOMAIN (sent \o t.sent) : (sent \o t.sent)[i].subject = (sent \o t.sent)[i].line.origin
    <3>1. t.sent \in Seq(Sent)
      BY <2>2
    <3> QED BY <1>d, <2>4, <2>5, <3>1, ConcatOwn
  <2> QED BY <2>1, <2>5, <2>6 DEF OneStream
<1>5. ASSUME NEW ok \in BOOLEAN, NEW last \in BOOLEAN, WatchPublish(ok, last) PROVE OneStream'
  <2> DEFINE p == Publish(buff, prev, ok)
  <2>1. fails' = fails + p.fails /\ sent' = sent \o p.sent /\ buff' = p.buff /\ prev' = prev
    BY <1>5 DEF WatchPublish
  <2>2. p \in [buff : Seq(Line), sent : Seq(Sent), fails : 0..1]
    BY <1>0, PublishTyped DEF LineType
  <2> SUFFICES ASSUME fails' = 0 PROVE OneStream'
    BY DEF OneStream
  <2>3. fails = 0 /\ p.fails = 0
    <3> HIDE DEF p
    <3>1. p.fails \in 0..1
      BY <2>2
    <3> QED BY <1>0, <2>1, <3>1
  <2>4. /\ \A i \in 1..Len(buff) : buff[i].origin = prev
        /\ \A i \in DOMAIN sent : sent[i].subject = sent[i].line.origin
    BY <1>d, <2>3 DEF OneStream
  <2>5. p.buff = <<>> /\ \A i \in DOMAIN p.sent : p.sent[i].subject = p.sent[i].line.origin
    BY <1>d, <2>3, <2>4, PublishOwn
  <2> HIDE DEF p
  <2>6. \A i \in DOMAIN (sent \o p.sent) : (sent \o p.sent)[i].subject = (sent \o p.sent)[i].line.origin
    <3>1. p.sent \in Seq(Sent)
      BY <2>2
    <3> QED BY <1>d, <2>4, <2>5, <3>1, ConcatOwn
  <2> QED BY <2>1, <2>5, <2>6 DEF OneStream
<1>6. CASE Moves
  <2>1. ASSUME NEW s \in Stream, NEW long \in BOOLEAN, ChildWrite(s, long) PROVE OneStream'
    <3>1. UNCHANGED <<buff, prev, sent, fails>>
      BY <2>1 DEF ChildWrite
    <3> QED BY <1>1, <3>1
  <2>2. ASSUME NEW s \in Stream, Read(s) PROVE OneStream'
    <3>1. UNCHANGED <<buff, prev, sent, fails>>
      BY <2>2 DEF Read, ReaderSend, ReaderEnd, ReaderFill
    <3> QED BY <1>1, <3>1
  <2> QED BY <1>4, <1>5, <1>6, <2>1, <2>2 DEF Moves, Watch
<1> QED BY <1>2, <1>3, <1>6, TwoKinds

\* What goes out of a buffer, and what stays in it.
LEMMA PublishFollowed ==
  ASSUME NEW b \in Seq(Line), NEW subject, NEW ok \in BOOLEAN, Closing(b, subject)
  PROVE  /\ Closing(Publish(b, subject, ok).buff, subject)
         /\ Followed(Publish(b, subject, ok).sent)
         /\ Publish(b, subject, ok).fails = 0 => Publish(b, subject, ok).buff = <<>>
<1>1. CASE ok
  <2>1. Publish(b, subject, ok).sent = Under(subject, b) /\ Publish(b, subject, ok).buff = <<>>
    BY <1>1, Zenon DEF Publish
  <2>2. Followed(Under(subject, b))
    <3> SUFFICES ASSUME NEW i \in DOMAIN Under(subject, b),
                        Under(subject, b)[i].subject # Under(subject, b)[i].line.origin
                 PROVE  \E j \in DOMAIN Under(subject, b) :
                          /\ j > i /\ Under(subject, b)[j].subject = Under(subject, b)[i].subject
                          /\ Under(subject, b)[j].line.origin = Under(subject, b)[i].subject
      BY DEF Followed
    <3>1. DOMAIN Under(subject, b) = 1..Len(b) /\ Len(b) \in Nat
      BY UnderLines
    <3>2. \A k \in 1..Len(b) : Under(subject, b)[k].subject = subject /\ Under(subject, b)[k].line = b[k]
      <4>1. \A k \in 1..Len(b) : Under(subject, b)[k] = [subject |-> subject, line |-> b[k]]
        BY UnderLines
      <4> SUFFICES ASSUME NEW k \in 1..Len(b)
                   PROVE  Under(subject, b)[k].subject = subject /\ Under(subject, b)[k].line = b[k]
        OBVIOUS
      <4>2. Under(subject, b)[k] = [subject |-> subject, line |-> b[k]]
        BY <4>1
      <4> QED BY <4>2
    <3>3. i \in 1..Len(b) /\ b[i].origin # subject
      BY <3>1, <3>2
    <3>4. b # <<>>
      BY <3>3
    <3>5. b[Len(b)].origin = subject
      BY <3>4 DEF Closing
    <3>6. i < Len(b) /\ Len(b) \in 1..Len(b)
      BY <3>1, <3>3, <3>5
    <3> QED BY <3>1, <3>2, <3>3, <3>5, <3>6
  <2> QED BY <2>1, <2>2 DEF Closing
<1>2. CASE ~ok
  <2>1. /\ Publish(b, subject, ok).sent = <<>> /\ Publish(b, subject, ok).buff = b
        /\ Publish(b, subject, ok).fails = (IF b = <<>> THEN 0 ELSE 1)
    BY <1>2, Zenon DEF Publish
  <2> QED BY <2>1 DEF Followed
<1> QED BY <1>1, <1>2

LEMMA ConcatFollowed ==
  ASSUME NEW q \in Seq(Sent), NEW r \in Seq(Sent), Followed(q), Followed(r)
  PROVE  Followed(q \o r)
<1>1. /\ DOMAIN q = 1..Len(q) /\ DOMAIN r = 1..Len(r) /\ DOMAIN (q \o r) = 1..(Len(q) + Len(r))
      /\ Len(q) \in Nat /\ Len(r) \in Nat
  OBVIOUS
<1>2. /\ \A i \in 1..Len(q) : (q \o r)[i] = q[i]
      /\ \A i \in 1..Len(r) : (q \o r)[Len(q) + i] = r[i]
  BY <1>1
<1> DEFINE c == q \o r
<1> HIDE DEF c
<1> SUFFICES ASSUME NEW i \in 1..(Len(q) + Len(r)), c[i].subject # c[i].line.origin
             PROVE  \E j \in 1..(Len(q) + Len(r)) :
                      j > i /\ c[j].subject = c[i].subject /\ c[j].line.origin = c[i].subject
  BY <1>1 DEF Followed, c
<1>3. CASE i <= Len(q)
  <2>1. c[i] = q[i] /\ i \in 1..Len(q)
    BY <1>1, <1>2, <1>3 DEF c
  <2>2. PICK j \in 1..Len(q) : j > i /\ q[j].subject = q[i].subject /\ q[j].line.origin = q[i].subject
    BY <1>1, <2>1 DEF Followed
  <2>3. c[j] = q[j] /\ j \in 1..(Len(q) + Len(r))
    BY <1>1, <1>2 DEF c
  <2> QED BY <2>1, <2>2, <2>3
<1>4. CASE i > Len(q)
  <2> DEFINE k == i - Len(q)
  <2>1. k \in 1..Len(r) /\ i = Len(q) + k
    BY <1>1, <1>4
  <2>2. c[i] = r[k]
    BY <1>2, <2>1 DEF c
  <2> HIDE DEF k
  <2>3. PICK j \in 1..Len(r) : j > k /\ r[j].subject = r[k].subject /\ r[j].line.origin = r[k].subject
    BY <1>1, <2>1, <2>2 DEF Followed
  <2>4. c[Len(q) + j] = r[j] /\ Len(q) + j \in 1..(Len(q) + Len(r)) /\ Len(q) + j > i
    BY <1>1, <1>2, <2>1, <2>3 DEF c
  <2> QED BY <2>2, <2>3, <2>4
<1> QED BY <1>1, <1>3, <1>4

LEMMA TakeLineFollowed ==
  ASSUME LineType, NEW ok1 \in BOOLEAN, NEW ok2 \in BOOLEAN, lines # <<>>, Closing(buff, prev)
  PROVE  /\ Closing(TakeLine(ok1, ok2).buff, Head(lines).origin)
         /\ Followed(TakeLine(ok1, ok2).sent)
<1> DEFINE l    == Head(lines)
           R    == [buff : Seq(Line), sent : Seq(Sent), fails : 0..1]
           turn == IF prev \notin {"none", l.origin} THEN Publish(buff, prev, ok1)
                   ELSE [buff |-> buff, sent |-> <<>>, fails |-> 0]
           full == IF Len(turn.buff) > BuffMax THEN Publish(turn.buff, prev, ok2)
                   ELSE [buff |-> turn.buff, sent |-> <<>>, fails |-> 0]
           L    == Line
<1>0. /\ l \in L /\ buff \in Seq(L) /\ prev \in Stream \cup {"none"}
      /\ prev = "none" => buff = <<>>
  BY DEF LineType
<1>e. Followed(<<>>) /\ [buff |-> buff, sent |-> <<>>, fails |-> 0] \in R
  BY <1>0 DEF Followed
<1>p. Publish(buff, prev, ok1) \in R
  BY <1>0, PublishTyped
<1>1. turn \in R /\ (prev = "none" => turn.buff = <<>>)
  BY <1>0, <1>e, <1>p
<1>2. Closing(turn.buff, prev) /\ Followed(turn.sent)
  <2>1. CASE prev \notin {"none", l.origin}
    <3>1. turn = Publish(buff, prev, ok1)
      BY <2>1
    <3> QED BY <1>0, <3>1, PublishFollowed
  <2>2. CASE prev \in {"none", l.origin}
    <3>1. turn = [buff |-> buff, sent |-> <<>>, fails |-> 0]
      BY <2>2
    <3> HIDE DEF turn
    <3>2. turn.buff = buff /\ turn.sent = <<>>
      BY <3>1
    <3> QED BY <1>e, <3>2
  <2> QED BY <2>1, <2>2
<1> HIDE DEF turn
<1>3. full \in R
  <2>1. turn.buff \in Seq(Line)
    BY <1>1
  <2>2. Publish(turn.buff, prev, ok2) \in R
    BY <1>0, <1>1, <2>1, PublishTyped
  <2> QED BY <1>1, <2>2
<1>4. Followed(full.sent)
  <2>0. turn.buff \in Seq(Line)
    BY <1>1
  <2>1. CASE Len(turn.buff) > BuffMax
    <3>1. full = Publish(turn.buff, prev, ok2)
      BY <2>1
    <3> QED BY <1>2, <2>0, <3>1, PublishFollowed
  <2>2. CASE ~(Len(turn.buff) > BuffMax)
    <3>1. full.sent = <<>>
      BY <2>2
    <3> QED BY <1>e, <3>1
  <2> QED BY <2>1, <2>2
<1> HIDE DEF full
<1>5. /\ TakeLine(ok1, ok2).sent = turn.sent \o full.sent
      /\ TakeLine(ok1, ok2).buff = Append(full.buff, l)
  BY Zenon DEF TakeLine, turn, full
<1>6. Followed(turn.sent \o full.sent)
  <2>1. turn.sent \in Seq(Sent) /\ full.sent \in Seq(Sent)
    BY <1>1, <1>3
  <2> QED BY <1>2, <1>4, <2>1, ConcatFollowed
<1>7. Closing(Append(full.buff, l), l.origin)
  <2> DEFINE c == full.buff
  <2>1. c \in Seq(L)
    BY <1>3
  <2> HIDE DEF c, l
  <2>2. Append(c, l)[Len(Append(c, l))] = l
    BY <1>0, <2>1
  <2> QED BY <2>2 DEF c, Closing
<1> QED BY <1>5, <1>6, <1>7

LEMMA BorrowedStep ==
  ASSUME Typed, Borrowed, [SupervisorNext]_supervisorVars
  PROVE  Borrowed'
<1>0. LineType /\ buff \in Seq(Line) /\ sent \in Seq(Sent)
  BY DEF Typed, LineType
<1>1. ASSUME UNCHANGED <<buff, prev, sent>> PROVE Borrowed'
  BY <1>1 DEF Borrowed, Closing, Followed
<1>2. CASE Controls
  BY <1>1, <1>2, ControlsAlone
<1>3. CASE UNCHANGED job
  BY <1>1, <1>3 DEF job, chan
<1>4. ASSUME NEW ok1 \in BOOLEAN, NEW ok2 \in BOOLEAN, WatchLine(ok1, ok2) PROVE Borrowed'
  <2> DEFINE t == TakeLine(ok1, ok2)
  <2>1. lines # <<>> /\ sent' = sent \o t.sent /\ buff' = t.buff /\ prev' = Head(lines).origin
    BY <1>4 DEF WatchLine
  <2>2. t \in [buff : Seq(Line), sent : Seq(Sent), fails : Nat]
    BY <1>0, <2>1, TakeLineTyped
  <2>3. Closing(t.buff, Head(lines).origin) /\ Followed(t.sent)
    BY <1>0, <2>1, TakeLineFollowed DEF Borrowed
  <2> HIDE DEF t
  <2>4. Followed(sent \o t.sent)
    BY <1>0, <2>2, <2>3, ConcatFollowed DEF Borrowed
  <2> QED BY <2>1, <2>3, <2>4 DEF Borrowed, Closing, Followed
<1>5. ASSUME NEW ok \in BOOLEAN, NEW last \in BOOLEAN, WatchPublish(ok, last) PROVE Borrowed'
  <2> DEFINE p == Publish(buff, prev, ok)
  <2>1. sent' = sent \o p.sent /\ buff' = p.buff /\ prev' = prev
    BY <1>5 DEF WatchPublish
  <2>2. p \in [buff : Seq(Line), sent : Seq(Sent), fails : 0..1]
    BY <1>0, PublishTyped DEF LineType
  <2>3. Closing(p.buff, prev) /\ Followed(p.sent)
    BY <1>0, PublishFollowed DEF Borrowed
  <2> HIDE DEF p
  <2>4. Followed(sent \o p.sent)
    BY <1>0, <2>2, <2>3, ConcatFollowed DEF Borrowed
  <2> QED BY <2>1, <2>3, <2>4 DEF Borrowed, Closing, Followed
<1>6. CASE Moves
  <2>1. ASSUME NEW s \in Stream, NEW long \in BOOLEAN, ChildWrite(s, long) PROVE Borrowed'
    BY <1>1, <2>1 DEF ChildWrite
  <2>2. ASSUME NEW s \in Stream, Read(s) PROVE Borrowed'
    BY <1>1, <2>2 DEF Read, ReaderSend, ReaderEnd, ReaderFill
  <2> QED BY <1>4, <1>5, <1>6, <2>1, <2>2 DEF Moves, Watch
<1> QED BY <1>2, <1>3, <1>6, TwoKinds

\* The collector ends after both readers, when the channel is empty, and leaves
\* in the buffer only what the last submission could not take.
LEMMA LeftStep ==
  ASSUME Typed, Unstarted, Borrowed, Left, [SupervisorNext]_supervisorVars
  PROVE  Left'
<1>0. LineType /\ fails \in Nat
  BY SupervisorAssumption DEF Typed, LineType
<1> USE DEF Left, LeftByFailure
<1>1. CASE Controls
  <2>1. /\ UNCHANGED <<buff, lines>> /\ (fails' = 0 => fails = 0)
        /\ \/ UNCHANGED <<reader, watcher>>
           \/ /\ sup = "specsent"
              /\ reader' = [s \in Stream |-> IF track THEN "scan" ELSE "done"]
              /\ watcher' = (IF track THEN "run" ELSE "done")
    BY <1>0, <1>1, ControlsAlone
  <2>2. sup = "specsent" => buff = <<>> /\ lines = <<>>
    BY DEF Unstarted
  <2> QED BY <2>1, <2>2
<1>2. CASE UNCHANGED job
  BY <1>2 DEF job, chan
<1>3. ASSUME NEW ok1 \in BOOLEAN, NEW ok2 \in BOOLEAN, WatchLine(ok1, ok2) PROVE Left'
  BY <1>3 DEF WatchLine
<1>4. ASSUME NEW ok \in BOOLEAN, NEW last \in BOOLEAN, WatchPublish(ok, last) PROVE Left'
  <2> DEFINE p == Publish(buff, prev, ok)
  <2>1. /\ fails' = fails + p.fails /\ buff' = p.buff /\ UNCHANGED <<lines, reader>>
        /\ last => lines = <<>> /\ \A s \in Stream : reader[s] = "done"
        /\ watcher' = IF last THEN "done" ELSE "run"
    BY <1>4 DEF WatchPublish
  <2>2. p.fails \in 0..1 /\ (p.fails = 0 => p.buff = <<>>)
    <3>1. p \in [buff : Seq(Line), sent : Seq(Sent), fails : 0..1]
      BY <1>0, PublishTyped DEF LineType
    <3>2. p.fails = 0 => p.buff = <<>>
      BY <1>0, PublishFollowed DEF LineType, Borrowed
    <3> HIDE DEF p
    <3> QED BY <3>1, <3>2
  <2> HIDE DEF p
  <2> QED BY <1>0, <2>1, <2>2
<1>5. ASSUME NEW s \in Stream, NEW long \in BOOLEAN, ChildWrite(s, long) PROVE Left'
  BY <1>5 DEF ChildWrite
<1>6. ASSUME NEW s \in Stream, Read(s) PROVE Left'
  <2>1. reader[s] = "scan" /\ UNCHANGED watcher
    BY <1>6 DEF Read, ReaderSend, ReaderEnd, ReaderFill
  <2> QED BY <2>1
<1> QED BY <1>1, <1>2, <1>3, <1>4, <1>5, <1>6, TwoKinds DEF Moves, Watch

-----------------------------------------------------------------------------
\* The values TypeOK of Supervisor allows are those of StartSupervised(), its
\* goroutines and its command, for channels and pipes of any size.
THEOREM SupervisorTypeCorrect == SupervisorSpec => []SupervisorTypeOK
<1>1. SupervisorInit => Typed /\ AskType
  BY TypedInit, AskInit
<1>2. Typed /\ AskType /\ [SupervisorNext]_supervisorVars => Typed' /\ AskType'
  BY TypedStep, AskTyped
<1>3. Typed /\ AskType => SupervisorTypeOK
  BY TypedIsTypeOK
<1> QED BY <1>1, <1>2, <1>3, PTL DEF SupervisorSpec

LEMMA ExecInvInit ==
  ASSUME SupervisorInit
  PROVE  ExecInv
<1>1. Typed
  BY TypedInit
<1>2. Unstarted /\ Finishing /\ OneStream /\ Borrowed /\ Left
  BY DEF SupervisorInit, Unstarted, Finishing, OneStream, Borrowed, Closing, Followed, Left, LeftByFailure
<1>3. /\ sent = <<>> /\ buff = <<>> /\ lines = <<>>
      /\ \A s \in Stream : /\ ospipe[s] = <<>> /\ scanned[s] = <<>> /\ file[s] = 0 /\ written[s] = 0
                                /\ reader[s] = "done"
  BY DEF SupervisorInit
<1>4. Piped
  BY <1>3 DEF Piped
<1>5. Way = <<>>
  <2>1. LinesOf(sent) = <<>> /\ LineType
    BY <1>1, <1>3 DEF LinesOf, Typed
  <2> QED BY <1>3, <2>1, WayTyped
<1>6. Numbered
  BY <1>5 DEF Numbered
<1>7. Passed
  <2>1. \A s \in Stream : CountOf(s, Way, Len(Way)) = 0
    BY <1>5, CountNone
  <2> QED BY <1>3, <2>1 DEF Passed
<1> QED BY <1>1, <1>2, <1>4, <1>6, <1>7 DEF ExecInv

LEMMA ExecInvStep ==
  ASSUME ExecInv, [SupervisorNext]_supervisorVars
  PROVE  ExecInv'
<1> USE DEF ExecInv
<1>1. Typed'
  BY TypedStep
<1>2. Unstarted' /\ Finishing'
  BY UnstartedStep, FinishingStep
<1>3. Piped' /\ Numbered' /\ Passed' /\ OneStream'
  BY <1>1, PipedStep, NumberedStep, PassedStep, OneStreamStep
<1>4. Borrowed' /\ Left'
  BY BorrowedStep, LeftStep
<1> QED BY <1>1, <1>2, <1>3, <1>4

\* The numbers in the scanner go on where those on the way end.
LEMMA InPlace ==
  ASSUME ExecInv
  PROVE  OutputInPlace
<1>0. PipeType /\ LineType /\ Piped /\ Numbered /\ Passed /\ OneStream /\ Borrowed /\ Left
  BY DEF ExecInv, Typed
<1>1. OwnSubject
  <2>1. fails \in Nat
    BY <1>0, SupervisorAssumption DEF LineType
  <2>2. fails = 0 \/ fails > 0
    BY <2>1
  <2> QED BY <1>0, <2>2 DEF OneStream, OwnSubject, Borrowed, Followed
<1>2. ASSUME track, NEW s \in Stream
      PROVE  /\ \A i \in DOMAIN Way : Way[i].origin = s => Way[i].n = CountOf(s, Way, i)
             /\ \A i \in DOMAIN scanned[s] : scanned[s][i].n = Taken(s) + i
             /\ longs = 0 => Taken(s) + Len(scanned[s]) = file[s]
  <2>1. PipedAt(s) /\ PassedAt(s)
    BY <1>0, PipedParts, PassedParts
  <2>2. \A i \in DOMAIN Way : Way[i].origin = s => Way[i].n = CountOf(s, Way, i)
    BY <1>0 DEF Numbered
  <2>3. longs = 0 => Taken(s) + Len(scanned[s]) = file[s]
    BY <1>2, <2>1 DEF PassedAt
  <2>4. ASSUME NEW i \in DOMAIN scanned[s] PROVE scanned[s][i].n = Taken(s) + i
    <3> DEFINE q == scanned[s]
               m == scanned[s][i].n
               c == Taken(s)
               f == file[s]
    <3>1. q \in Seq(Line) /\ i \in 1..Len(q) /\ Len(q) \in Nat /\ f \in Nat
      BY <1>0 DEF PipeType
    <3>2. reader[s] = "scan"
      <4>1. q # <<>>
        BY <3>1
      <4> QED BY <1>0, <2>1, <4>1 DEF PipeType, PassedAt
    <3>3. c + Len(q) = f /\ m + Len(q) = f + i
      BY <1>2, <2>1, <3>2 DEF PassedAt, PipedAt
    <3>4. c \in Nat /\ m \in Nat /\ i \in Nat
      <4>1. Len(Way) \in Nat
        BY <1>0, WayTyped
      <4>2. c \in Nat
        BY <4>1, CountNat DEF Taken
      <4>3. m \in Nat
        BY <3>1, LineNumbers
      <4> QED BY <3>1, <4>2, <4>3
    <3> HIDE DEF q, m, c, f
    <3>5. m = c + i
      BY <3>1, <3>3, <3>4
    <3> QED BY <3>5 DEF m, c
  <2> QED BY <2>2, <2>3, <2>4
<1>3. NothingSkipped
  BY <1>2, Zenon DEF NothingSkipped, Taken
<1> QED BY <1>0, <1>1, <1>3 DEF OutputInPlace, Left

\* Between the scanners and the stream no line is lost, doubled or moved,
\* however many submissions fail: watchOutput() leaves lines behind only when
\* its last submission failed, and puts a line under the subject of the other
\* stream only after a failure and ahead of a line of that stream.  The channel,
\* the pipe and the buffer have any size.  Bytes are not spoken of.
THEOREM OutputStaysInPlace == SupervisorSpec => []OutputInPlace
<1>1. SupervisorInit => ExecInv
  BY ExecInvInit
<1>2. ExecInv /\ [SupervisorNext]_supervisorVars => ExecInv'
  BY ExecInvStep
<1>3. ExecInv => OutputInPlace
  BY InPlace
<1> QED BY <1>1, <1>2, <1>3, PTL DEF SupervisorSpec

LEMMA Ordered == SupervisorSpec => [](Unstarted /\ Finishing)
<1>1. SupervisorInit => Unstarted /\ Finishing
  BY DEF SupervisorInit, Unstarted, Finishing
<1>2. Unstarted /\ Finishing /\ [SupervisorNext]_supervisorVars => Unstarted' /\ Finishing'
  BY UnstartedStep, FinishingStep
<1> QED BY <1>1, <1>2, PTL DEF SupervisorSpec

\* Once the exit was submitted nothing else is, neither output nor a heartbeat:
\* wg.Wait() of StartSupervised() comes before the submission, and a supervisor
\* that is gone submits nothing.
THEOREM ExitComesLast == SupervisorSpec => ExitIsLast
<1>1. Unstarted /\ Finishing /\ [SupervisorNext]_supervisorVars
        => [exitsent => UNCHANGED <<sent, beats>>]_supervisorVars
  <2> SUFFICES ASSUME Unstarted, Finishing, [SupervisorNext]_supervisorVars, exitsent
               PROVE  UNCHANGED <<sent, beats>>
    OBVIOUS
  <2>1. sup \in {"exitsent", "exitcreated", "done", "crashed"}
    BY DEF Finishing
  <2>2. CASE sup \in {"exitsent", "exitcreated"}
    BY <2>2, DoneStays DEF Finishing
  <2>3. CASE sup \in {"done", "crashed"}
    <3>1. ~Active
      BY <2>3 DEF Active
    <3>2. CASE Moves
      BY <3>1, <3>2, MovesAlone
    <3>3. CASE Controls
      <4>1. ASSUME NEW ok \in BOOLEAN, Heartbeat(ok) PROVE FALSE
        BY <4>1, <3>1 DEF Heartbeat
      <4>2. ~Main
        BY <2>3 DEF Main, SaveSpec, SubmitSpec, StartCommand, CreatePid, WritePid,
                    SubmitPid, Close, SubmitExit, CreateExit, WriteExit, WaitCommand,
                    WaitOutput
      <4>3. CASE Crash \/ Interrupt \/ ChildExit \/ HeartbeatEnd
        BY <4>3 DEF Crash, Interrupt, ChildExit, HeartbeatEnd, output
      <4> QED BY <3>3, <4>1, <4>2, <4>3 DEF Controls
    <3>4. CASE UNCHANGED job
      BY <3>4 DEF job
    <3> QED BY <3>2, <3>3, <3>4, TwoKinds
  <2> QED BY <2>1, <2>2, <2>3
<1> QED BY <1>1, Ordered, PTL DEF SupervisorSpec, ExitIsLast

\* The steps of the supervisor keep what was told true.
LEMMA AskingWent ==
  ASSUME Unstarted, Finishing, Asking, Went, UNCHANGED asked,
         spec' = "created" => spec = "created" /\ (sup' \in {sup, "failed"} \/ sup # "created")
  PROVE  Asking'
<1>1. (spec = "created" => sup \in {"created", "failed"} /\ pidfile = "none")'
  BY DEF Asking, Went, Active
<1>2. /\ pidfile = "full" => pidfile' = "full"
      /\ exitfile = "full" => exitfile' = "full"
  BY DEF Went, Unstarted, Finishing
<1> QED BY <1>1, <1>2 DEF Asking, asked

LEMMA SpecSaved ==
  ASSUME [SupervisorNext]_supervisorVars
  PROVE  spec' = "created" => spec = "created" /\ (sup' \in {sup, "failed"} \/ sup # "created")
<1>1. CASE Main
  BY <1>1 DEF Main, SaveSpec, SubmitSpec, StartCommand, CreatePid, WritePid, SubmitPid, Close, SubmitExit,
              CreateExit, WriteExit, WaitCommand, WaitOutput, disk
<1>2. CASE Crash \/ Interrupt \/ ChildExit \/ HeartbeatEnd \/ \E ok \in BOOLEAN : Heartbeat(ok)
  BY <1>2 DEF Crash, Interrupt, ChildExit, HeartbeatEnd, Heartbeat, disk
<1>3. CASE Moves
  BY <1>3, MovesAlone
<1>4. CASE UNCHANGED job
  BY <1>4 DEF job, disk
<1> QED BY <1>1, <1>2, <1>3, <1>4, TwoKinds DEF Controls

\* A look at the job: what is told is more than what was, and on disk.
LEMMA AskingLook ==
  ASSUME AskType, Finishing, Asking, Ask
  PROVE  Asking' /\ told' >= told
<1> USE DEF Asking, AskType
<1>0. UNCHANGED <<sup, child, spec, pidfile, exitfile>>
  BY DEF Ask, AskRunning, AskStarted, AskPid, AskCode, job, disk
<1>1. CASE AskRunning
  <2>1. told > 0 => spec # "created"
    OBVIOUS
  <2>2. IsRunning => pidfile = "full" /\ exitfile # "full"
    BY DEF IsRunning, Finishing
  <2>3. CASE spec = "created"
    BY <1>0, <1>1, <2>1, <2>3 DEF AskRunning
  <2>4. CASE spec # "created"
    <3>1. ask' = "started" /\ runs' = IsRunning /\ told' = told
      BY <1>1, <2>4 DEF AskRunning
    <3> HIDE DEF AskType
    <3>2. told' >= told
      BY <3>1 DEF AskType
    <3> QED BY <1>0, <2>2, <3>1, <3>2
  <2> QED BY <2>3, <2>4
<1>2. CASE AskStarted
  BY <1>0, <1>2 DEF AskStarted
<1>3. CASE AskPid
  BY <1>0, <1>3 DEF AskPid
<1>4. CASE AskCode
  BY <1>0, <1>4 DEF AskCode
<1> QED BY <1>1, <1>2, <1>3, <1>4 DEF Ask

\* What statusAction() tells of a job goes forward only, however its looks fall
\* between the steps of the supervisor: the file of the pid, once written, and
\* that of the exit stay, and a command whose exit was recorded is not running.
THEOREM StatusOnlyAdvances == SupervisorSpec => StatusAdvances
<1> DEFINE I == AskType /\ Unstarted /\ Finishing /\ Asking
<1>1. SupervisorInit => I
  <2>1. SupervisorInit => Unstarted /\ Finishing /\ Asking
    BY DEF SupervisorInit, Unstarted, Finishing, Asking
  <2> QED BY <2>1, AskInit
<1>2. ASSUME I, [SupervisorNext]_supervisorVars PROVE I' /\ told' >= told
  <2>1. AskType' /\ Unstarted' /\ Finishing'
    BY <1>2, AskTyped, UnstartedStep, FinishingStep
  <2>2. CASE Ask
    BY <1>2, <2>1, <2>2, AskingLook
  <2>3. CASE UNCHANGED asked
    <3>1. Asking'
      BY <1>2, <2>3, NextWent, SpecSaved, AskingWent
    <3>2. told' >= told
      BY <1>2, <2>3 DEF asked, AskType
    <3> QED BY <2>1, <3>1, <3>2
  <2> QED BY <1>2, <2>2, <2>3, AskedAlone
<1>3. I /\ [SupervisorNext]_supervisorVars => I' /\ [told' >= told]_supervisorVars
  BY <1>2
<1> QED BY <1>1, <1>3, PTL DEF SupervisorSpec, StatusAdvances

=============================================================================
