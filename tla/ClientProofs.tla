---------------------------- MODULE ClientProofs ----------------------------
(***************************************************************************)
(* Proofs about Client, for any number of targets and any size of a batch: *)
(* what the statistics of a batched request say is what happened, and no   *)
(* batch is deaf.  Both need the sleep between the batches, the one thing  *)
(* that keeps two of them from using the reply subject at the same time.   *)
(***************************************************************************)
EXTENDS Client, FiniteSetTheorems, SequenceTheorems, TLAPS

\* A batch whose receiver did not run has left no trace.
Fresh ==
  \A b \in Batch : recv[b] \in {"none", "start"} =>
    /\ hnd[b] = "none" /\ copier[b] = "none" /\ in[b] = <<>>
    /\ b \notin over /\ b \notin timedOut /\ b \notin quit /\ b \notin entry /\ b \notin live
    /\ outstanding[b] = Nodes(b) /\ unexpected[b] = {}

\* Batches are done one after the other.
Turns ==
  \A b \in Batch :
    /\ b > batch \/ (b = batch /\ pc \in {"sleep", "request"}) => recv[b] = "none"
    /\ b < batch => recv[b] = "done" /\ hnd[b] = "done" /\ b \in over
    /\ recv[b] \notin {"none", "start"} => hnd[b] # "none" /\ copier[b] # "none"

\* Who copies replies is alone: a batch starts when the ones before gave up
\* their subscription.
OneCopier ==
  /\ \A b, c \in Batch : copier[b] = "run" /\ copier[c] = "run" => b = c
  /\ pc = "request" \/ recv[batch] = "start" => \A c \in Batch : copier[c] # "run"

\* A token in receiverReady is of the batch that is to be published; one that
\* nobody took is left when the caller was interrupted, and nothing follows.
Token ==
  receiverReady # 0 => \/ pc = "publish" /\ recv[batch] = "done"
                       \/ pc = "done"
                       \/ ctx /\ (pc = "wait" \/ (pc = "sleep" /\ batch # 1))

\* A batch does not end before it was published.
Pending == pc = "publish" => batch \notin over

Place ==
  /\ pc = "wait" => recv[batch] = "done" \/ ctx
  /\ pc = "failed" => recv[batch] = "done"
  /\ pc # "done" => ~err
  /\ pc = "done" => err \/ (batch = Len(Groups) /\ hnd[batch] = "done")
  /\ link # "open" => ctx \/ pc = "done"

\* The subscription of a batch that goes on is not given up by anybody.
Kept ==
  ~ctx /\ pc # "done" =>
    \A b \in Batch : recv[b] \notin {"none", "start"} /\ b \notin over =>
      /\ copier[b] = "run" /\ b \notin quit
      /\ recv[b] # "subscribe" => b \in live

Flow == Fresh /\ Turns /\ OneCopier /\ Token /\ Pending /\ Place /\ Kept

-----------------------------------------------------------------------------
\* The nodes of a batch are asked when it is published, and once.
Asked ==
  \A b \in Batch : \A n \in Nodes(b) :
    /\ asked[n] <= 1
    /\ b > batch \/ (b = batch /\ pc \in {"sleep", "request", "publish"}) => asked[n] = 0
    /\ ~ctx /\ ~err /\ (b < batch \/ (b = batch /\ pc \in {"wait", "done"})) => asked[n] = 1

In(s, n) == \E i \in DOMAIN s : s[i] = n
Once(s)  == \A i, j \in DOMAIN s : s[i] = s[j] => i = j

\* A reply is in one place: in the channel of the subscription that is being
\* copied, in the channel of replies, or counted.
OnePlace ==
  /\ Once(replies) /\ \A b \in Batch : Once(in[b])
  /\ \A n \in Node :
       /\ handled[n] <= 1
       /\ In(replies, n) => handled[n] = 0
       /\ \A b \in Batch : copier[b] = "run" /\ In(in[b], n) => handled[n] = 0 /\ ~In(replies, n)
       /\ In(replies, n) \/ handled[n] > 0 \/ (\E b \in Batch : In(in[b], n)) => n \in answered
       /\ n \in answered => asked[n] > 0

-----------------------------------------------------------------------------
\* A node that is not outstanding was heard of.
Heard ==
  \A b \in Batch : outstanding[b] \subseteq Nodes(b)
                   /\ \A n \in Nodes(b) \ outstanding[b] : handled[n] > 0

\* A batch ends when all its nodes were heard of, or for a reason.
Reasons ==
  /\ \A b \in Batch : hnd[b] = "done" => b \in timedOut \/ ctx \/ err \/ outstanding[b] = {}
  /\ \A b \in Batch : b \in over => hnd[b] = "done" \/ err \/ outstanding[b] = {}
  /\ pc = "request" \/ recv[batch] # "none" \/ (~ctx /\ ~err) =>
       \A c \in Batch : c < batch => c \in timedOut \/ outstanding[c] = {}

\* The node did not answer in its own batch, one before b, which timed out.
Late(n, b) == \E c \in Batch : c < b /\ c \in timedOut /\ n \in Nodes(c) /\ n \in outstanding[c]

Unexpected ==
  /\ \A b \in Batch : \A n \in unexpected[b] : Late(n, b)
  /\ \A n \in totalUnexpected : Late(n, batch)

Merged(b) == b < batch \/ (b = batch /\ pc = "done")

\* The total lacks the replies that are counted after the last merge.
Totals ==
  /\ \A b \in Batch : \A n \in Nodes(b) :
       n \in noResponse <=> (n \in outstanding[b] \/ ~Merged(b) \/ n \in late)
  /\ late # {} => pc = "done" /\ err

Inv == TypeOK /\ Flow /\ Asked /\ OnePlace /\ Heard /\ Reasons /\ Unexpected /\ Totals

-----------------------------------------------------------------------------
(* The batches.                                                            *)

LEMMA Mult ==
  ASSUME NEW s \in Nat \ {0}, NEW i \in Nat, NEW j \in Nat, i < j
  PROVE  i * s + s <= j * s
<1>1. PICK d \in Nat : j = i + 1 + d
  <2>1. j - i - 1 \in Nat /\ j = i + 1 + (j - i - 1)
    OBVIOUS
  <2> QED BY <2>1
<1>2. (i + 1 + d) * s = i * s + s + d * s
  OBVIOUS
<1>3. d * s \in Nat /\ i * s \in Nat
  OBVIOUS
<1> QED BY <1>1, <1>2, <1>3

\* InGroups() makes ceil(len/size) groups; element k is in group i when
\* (i-1)*size < k <= i*size.
LEMMA Rounding ==
  ASSUME NEW m \in Nat \ {0}, NEW s \in Nat \ {0}, NEW g, g = (m + s - 1) \div s
  PROVE  /\ g \in Nat \ {0}
         /\ m <= g * s
         /\ \A i \in 1..g : (i - 1) * s < m
<1> DEFINE x == m + s - 1
<1>1. x \in Nat /\ x >= s
  OBVIOUS
<1>2. g \in Int /\ g * s <= x /\ x < g * s + s
  OBVIOUS
<1>3. g \in Nat \ {0}
  OBVIOUS
<1>4. m <= g * s
  BY <1>2, <1>3
<1>5. ASSUME NEW i \in 1..g PROVE (i - 1) * s < m
  <2>1. i - 1 \in Nat /\ i - 1 < g
    BY <1>3
  <2>2. (i - 1) * s + s <= g * s
    BY <2>1, <1>3, Mult
  <2>3. (i - 1) * s \in Nat /\ g * s \in Nat
    BY <2>1, <1>3
  <2> QED BY <1>2, <2>2, <2>3
<1> QED BY <1>3, <1>4, <1>5

\* The element of a sequence that a position is in, and the positions of a group.
LEMMA Position ==
  ASSUME NEW s \in Nat \ {0}, NEW k \in Nat \ {0}
  PROVE  \E i \in Nat \ {0} : (i - 1) * s < k /\ k <= i * s
<1> DEFINE q == (k - 1) \div s
           i == q + 1
<1>1. q \in Nat /\ q * s <= k - 1 /\ k - 1 < q * s + s
  OBVIOUS
<1>2. i \in Nat \ {0} /\ i - 1 = q
  BY <1>1
<1>3. i * s = q * s + s
  BY <1>1
<1>4. q * s \in Nat
  BY <1>1
<1>5. (i - 1) * s < k
  BY <1>1, <1>2, <1>4
<1>6. k <= i * s
  BY <1>1, <1>3, <1>4
<1> QED BY <1>2, <1>5, <1>6

Size == Len(Targets)
From(i) == (i - 1) * BatchSize + 1
To(i)   == IF i * BatchSize > Size THEN Size ELSE i * BatchSize

LEMMA Constants ==
  /\ Targets \in Seq(Node) /\ Size \in Nat \ {0} /\ DOMAIN Targets = 1..Size
  /\ BatchSize \in Nat \ {0}
  /\ \A i, j \in 1..Size : Targets[i] = Targets[j] => i = j
  /\ \A i \in 1..Size : Targets[i] \in Node
  /\ \A n \in Node : \E i \in 1..Size : n = Targets[i]
<1>1. Targets \in Seq(Node) /\ Targets # <<>> /\ BatchSize \in Nat \ {0}
  BY ClientAssumption DEF Node
<1>2. Size \in Nat /\ DOMAIN Targets = 1..Size
  BY <1>1, LenProperties DEF Size
<1>3. Size # 0
  BY <1>1, EmptySeq DEF Size
<1>4. \A i, j \in 1..Size : Targets[i] = Targets[j] => i = j
  BY <1>2, ClientAssumption DEF IsInjective
<1> QED BY <1>1, <1>2, <1>3, <1>4 DEF Node, Range

LEMMA Bounds ==
  ASSUME NEW i \in 1..((Size + BatchSize - 1) \div BatchSize)
  PROVE  /\ From(i) \in 1..Size /\ To(i) \in 1..Size /\ From(i) <= To(i)
         /\ From(i) = (i - 1) * BatchSize + 1 /\ i * BatchSize = (i - 1) * BatchSize + BatchSize
<1> DEFINE g == (Size + BatchSize - 1) \div BatchSize
<1>1. g \in Nat \ {0} /\ (i - 1) * BatchSize < Size
  BY Constants, Rounding
<1>2. i \in Nat \ {0} /\ i - 1 \in Nat
  BY <1>1
<1>3. (i - 1) * BatchSize \in Nat /\ i * BatchSize = (i - 1) * BatchSize + BatchSize
  BY <1>2, Constants
<1> QED BY <1>1, <1>3, Constants DEF From, To

\* A group is the stretch of the targets from From(i) to To(i).
LEMMA Stretch ==
  ASSUME NEW i \in 1..((Size + BatchSize - 1) \div BatchSize)
  PROVE  \A n : n \in Range(SubSeq(Targets, From(i), To(i))) <=> \E k \in From(i)..To(i) : n = Targets[k]
<1> DEFINE f == From(i)
           t == To(i)
           u == SubSeq(Targets, f, t)
<1>1. f \in 1..Size /\ t \in 1..Size /\ f <= t
  BY Bounds
<1>2. f \in Int /\ t \in Int /\ \A k \in f..t : Targets[k] \in Node
  BY <1>1, Constants
<1> HIDE DEF f, t
<1>3. u \in Seq(Node)
  BY <1>2, SubSeqProperties
<1>4. Len(u) = IF f <= t THEN t-f+1 ELSE 0
  BY <1>2, SubSeqProperties
<1>5. \A k \in 1..t-f+1 : u[k] = Targets[f+k-1]
  BY <1>2, SubSeqProperties
<1> HIDE DEF u
<1>6. DOMAIN u = 1..t-f+1
  BY <1>1, <1>3, <1>4, LenProperties
<1>7. ASSUME NEW k \in f..t PROVE \E j \in DOMAIN u : u[j] = Targets[k]
  <2>1. k-f+1 \in 1..t-f+1 /\ f+(k-f+1)-1 = k
    BY <1>1
  <2> QED BY <2>1, <1>5, <1>6
<1>8. \A j \in DOMAIN u : \E k \in f..t : u[j] = Targets[k]
  <2> TAKE j \in DOMAIN u
  <2>1. f+j-1 \in f..t
    BY <1>1, <1>6
  <2> QED BY <2>1, <1>5, <1>6
<1>9. \A n : n \in Range(u) <=> \E j \in DOMAIN u : n = u[j]
  BY DEF Range
<1>10. \A n : n \in Range(u) <=> \E k \in f..t : n = Targets[k]
  BY <1>7, <1>8, <1>9
<1> QED BY <1>10 DEF u, f, t

LEMMA SameInterval ==
  ASSUME NEW i \in Nat \ {0}, NEW j \in Nat, 1..i = 1..j
  PROVE  i = j
<1>1. i \in 1..i
  OBVIOUS
<1>2. i \in 1..j
  BY <1>1
<1>3. j \in 1..j
  BY <1>2
<1>4. j \in 1..i
  BY <1>3
<1> QED BY <1>2, <1>4

LEMMA GroupsProperties ==
  /\ Len(Groups) \in Nat \ {0} /\ Batch = 1..Len(Groups)
  /\ Len(Groups) = (Size + BatchSize - 1) \div BatchSize
  /\ \A b \in Batch : \A n : n \in Nodes(b) <=> \E k \in From(b)..To(b) : n = Targets[k]
<1> DEFINE g == (Size + BatchSize - 1) \div BatchSize
<1>1. g \in Nat \ {0}
  BY Constants, Rounding
<1>2. Groups = [i \in 1..g |-> SubSeq(Targets, From(i), To(i))]
  BY DEF Groups, InGroups, From, To, Size
<1> HIDE DEF g
<1>3. Batch = 1..g
  BY <1>2 DEF Batch
<1>4. \A b \in Batch : Groups[b] = SubSeq(Targets, From(b), To(b))
  BY <1>2, <1>3
<1>5. Len(Groups) = g
  <2>1. Groups \in [1..g -> Range(Groups)]
    BY <1>2 DEF Range
  <2>2. Groups \in Seq(Range(Groups))
    BY <1>1, <2>1, SeqDef
  <2>3. DOMAIN Groups = 1..Len(Groups) /\ Len(Groups) \in Nat
    BY <2>2, LenProperties
  <2>4. 1..g = 1..Len(Groups)
    BY <2>3, <1>3 DEF Batch
  <2> QED BY <2>3, <2>4, <1>1, SameInterval
<1>6. \A b \in Batch : \A n : n \in Nodes(b) <=> \E k \in From(b)..To(b) : n = Targets[k]
  BY <1>3, <1>4, Stretch DEF Nodes, g
<1> QED BY <1>1, <1>3, <1>5, <1>6 DEF g

\* The batches divide the targets: every node is in one of them, and in one only.
LEMMA Partition ==
  /\ \A b \in Batch : Nodes(b) # {} /\ Nodes(b) \subseteq Node
  /\ \A n \in Node : \E b \in Batch : n \in Nodes(b)
  /\ \A b, c \in Batch : \A n : n \in Nodes(b) /\ n \in Nodes(c) => b = c
<1> DEFINE g == Len(Groups)
<1>1. g \in Nat \ {0} /\ Batch = 1..g /\ g = (Size + BatchSize - 1) \div BatchSize
  BY GroupsProperties
<1>2. \A b \in Batch : \A n : n \in Nodes(b) <=> \E k \in From(b)..To(b) : n = Targets[k]
  BY GroupsProperties
<1>3. \A b \in Batch : /\ From(b) \in 1..Size /\ To(b) \in 1..Size /\ From(b) <= To(b)
                       /\ From(b) = (b - 1) * BatchSize + 1
                       /\ b * BatchSize = (b - 1) * BatchSize + BatchSize
  BY <1>1, Bounds
<1> HIDE DEF g
<1>4. ASSUME NEW b \in Batch PROVE Nodes(b) # {} /\ Nodes(b) \subseteq Node
  <2>1. Targets[From(b)] \in Nodes(b)
    BY <1>2, <1>3
  <2>2. \A k \in From(b)..To(b) : Targets[k] \in Node
    BY <1>3, Constants
  <2> QED BY <2>1, <2>2, <1>2
<1>5. ASSUME NEW n \in Node PROVE \E b \in Batch : n \in Nodes(b)
  <2>1. PICK k \in 1..Size : n = Targets[k]
    BY Constants
  <2>2. k \in Nat \ {0}
    BY Constants
  <2>3. PICK i \in Nat \ {0} : (i - 1) * BatchSize < k /\ k <= i * BatchSize
    BY <2>2, Constants, Position
  <2>4. i <= g
    <3> SUFFICES ASSUME g < i PROVE FALSE
      BY <1>1, <2>3
    <3>1. g <= i - 1 /\ i - 1 \in Nat
      BY <1>1, <2>3
    <3>2. g * BatchSize <= (i - 1) * BatchSize
      <4>1. CASE g = i - 1
        BY <4>1, <1>1, Constants
      <4>2. CASE g < i - 1
        <5>1. g * BatchSize + BatchSize <= (i - 1) * BatchSize
          BY <4>2, <3>1, <1>1, Constants, Mult
        <5>2. g * BatchSize \in Nat /\ (i - 1) * BatchSize \in Nat
          BY <3>1, <1>1, Constants
        <5> QED BY <5>1, <5>2, Constants
      <4> QED BY <3>1, <4>1, <4>2, <1>1
    <3>3. Size <= g * BatchSize
      BY <1>1, Constants, Rounding
    <3>4. g * BatchSize \in Nat /\ (i - 1) * BatchSize \in Nat
      BY <3>1, <1>1, Constants
    <3> QED BY <2>1, <2>2, <2>3, <3>2, <3>3, <3>4, Constants
  <2>5. i \in Batch
    BY <1>1, <2>3, <2>4
  <2>6. k \in From(i)..To(i)
    <3>1. (i - 1) * BatchSize \in Nat /\ i * BatchSize \in Nat
      BY <2>3, Constants
    <3> QED BY <2>1, <2>2, <2>3, <2>5, <3>1, <1>3, Constants DEF To
  <2> QED BY <2>1, <2>5, <2>6, <1>2
<1>6. ASSUME NEW b \in Batch, NEW c \in Batch, b < c, NEW n, n \in Nodes(b), n \in Nodes(c)
      PROVE  FALSE
  <2>1. PICK k \in From(b)..To(b) : n = Targets[k]
    BY <1>2, <1>6
  <2>2. PICK l \in From(c)..To(c) : n = Targets[l]
    BY <1>2, <1>6
  <2>3. b \in Nat /\ c \in Nat /\ b - 1 \in Nat /\ c - 1 \in Nat /\ b - 1 < c - 1
    BY <1>1, <1>6
  <2>4. (b - 1) * BatchSize + BatchSize <= (c - 1) * BatchSize
    BY <2>3, Constants, Mult
  <2>5. (b - 1) * BatchSize \in Nat /\ (c - 1) * BatchSize \in Nat
    BY <2>3, Constants
  <2>6. To(b) <= b * BatchSize
    BY <1>3, <2>5, Constants DEF To
  <2>7. To(b) < From(c)
    BY <1>3, <2>4, <2>5, <2>6, Constants
  <2>8. k \in 1..Size /\ l \in 1..Size /\ k < l
    BY <2>1, <2>2, <2>7, <1>3, Constants
  <2>9. k = l
    <3>1. Targets[k] = Targets[l]
      BY <2>1, <2>2
    <3> QED BY <3>1, <2>8, Constants
  <2> QED BY <2>8, <2>9, Constants
<1>7. ASSUME NEW b \in Batch, NEW c \in Batch, NEW n, n \in Nodes(b), n \in Nodes(c)
      PROVE  b = c
  <2>1. b \in Nat /\ c \in Nat
    BY <1>1
  <2>2. ~(b < c) /\ ~(c < b)
    BY <1>6, <1>7
  <2> QED BY <2>1, <2>2
<1> QED BY <1>4, <1>5, <1>7

-----------------------------------------------------------------------------
(* Types.                                                                  *)

\* TypeOK in parts.
DoType ==
  /\ pc \in {"sleep", "request", "publish", "wait", "failed", "done"} /\ batch \in Batch
  /\ err \in BOOLEAN /\ ctx \in BOOLEAN /\ over \subseteq Batch /\ timedOut \subseteq Batch

LowType ==
  /\ recv \in [Batch -> {"none", "start", "subscribe", "ready", "done"}]
  /\ hnd \in [Batch -> {"none", "run", "done"}]
  /\ receiverReady \in 0..1 /\ replies \in Seq(Node)

EntryType == entry \subseteq Batch /\ Cardinality(entry) <= 1

ConnType ==
  /\ live \subseteq Batch /\ copier \in [Batch -> {"none", "run", "done"}]
  /\ quit \subseteq Batch /\ closed \subseteq Batch /\ in \in [Batch -> Seq(Node)]
  /\ link \in {"open", "closing", "closed"} /\ panicked \in BOOLEAN

NodeType == asked \in [Node -> Nat] /\ answered \subseteq Node

StatsType ==
  /\ outstanding \in [Batch -> SUBSET Node] /\ unexpected \in [Batch -> SUBSET Node]
  /\ noResponse \subseteq Node /\ totalUnexpected \subseteq Node /\ handled \in [Node -> Nat]
  /\ late \subseteq Node

LEMMA TypeParts == TypeOK <=> DoType /\ LowType /\ EntryType /\ ConnType /\ NodeType /\ StatsType
BY DEF TypeOK, DoType, LowType, EntryType, ConnType, NodeType, StatsType

LEMMA NoEntry == Cardinality({}) <= 1 /\ \A x : Cardinality({x}) <= 1
BY FS_EmptySet, FS_Singleton

LEMMA TypeInit == Init => TypeOK
<1> SUFFICES ASSUME Init PROVE TypeOK
  OBVIOUS
<1>1. DoType
  <2>1. 1 \in Batch
    BY GroupsProperties
  <2> QED BY <2>1 DEF Init, DoType
<1>2. LowType
  BY EmptySeq DEF Init, LowType
<1>3. EntryType
  BY NoEntry DEF Init, EntryType
<1>4. ConnType
  BY EmptySeq DEF Init, ConnType
<1>5. NodeType
  BY DEF Init, NodeType
<1>6. StatsType
  BY Partition DEF Init, StatsType
<1> QED BY <1>1, <1>2, <1>3, <1>4, <1>5, <1>6, TypeParts

LEMMA DoSteps == TypeOK /\ (Do \/ Interrupt) => TypeOK'
<1> SUFFICES ASSUME TypeOK, Do \/ Interrupt PROVE TypeOK'
  OBVIOUS
<1>0. DoType /\ LowType /\ EntryType /\ ConnType /\ NodeType /\ StatsType
  BY TypeParts
<1>1. UNCHANGED conn
  BY DEF Do, Interrupt, Sleep, Request, Publish, PublishNothing, Finish, Abandon
<1>2. EntryType' /\ ConnType'
  BY <1>0, <1>1 DEF EntryType, ConnType, conn
<1>3. DoType'
  <2>1. CASE Sleep
    BY <2>1, <1>0 DEF Sleep, DoType
  <2>2. CASE Request
    BY <2>2, <1>0 DEF Request, DoType
  <2>3. ASSUME NEW k \in 0..BatchSize, Publish(k) PROVE DoType'
    BY <2>3, <1>0 DEF Publish, DoType
  <2>4. CASE PublishNothing
    BY <2>4, <1>0 DEF PublishNothing, DoType
  <2>5. CASE Finish
    <3>1. batch' \in Batch
      BY <2>5, <1>0, GroupsProperties DEF Finish, DoType
    <3> QED BY <2>5, <3>1, <1>0 DEF Finish, DoType
  <2>6. CASE Interrupt
    BY <2>6, <1>0 DEF Interrupt, DoType, do
  <2>7. CASE Abandon
    BY <2>7, <1>0 DEF Abandon, DoType
  <2> QED BY <2>1, <2>2, <2>3, <2>4, <2>5, <2>6, <2>7 DEF Do
<1>4. LowType'
  <2>1. CASE Request
    BY <2>1, <1>0 DEF Request, LowType
  <2>2. ASSUME NEW k \in 0..BatchSize, Publish(k) PROVE LowType'
    BY <2>2, <1>0 DEF Publish, LowType
  <2>3. CASE Sleep \/ PublishNothing \/ Finish \/ Abandon \/ Interrupt
    BY <2>3, <1>0 DEF Sleep, PublishNothing, Finish, Abandon, Interrupt, LowType, low
  <2> QED BY <2>1, <2>2, <2>3 DEF Do
<1>5. NodeType'
  <2>1. ASSUME NEW k \in 0..BatchSize, Publish(k) PROVE NodeType'
    <3>1. asked' \in [Node -> Nat]
      BY <2>1, <1>0 DEF Publish, NodeType
    <3> QED BY <3>1, <2>1, <1>0 DEF Publish, NodeType
  <2>2. CASE Sleep \/ Request \/ PublishNothing \/ Finish \/ Abandon \/ Interrupt
    BY <2>2, <1>0 DEF Sleep, Request, PublishNothing, Finish, Abandon, Interrupt, NodeType, nodes
  <2> QED BY <2>1, <2>2 DEF Do
<1>6. StatsType'
  <2>1. CASE Finish \/ Abandon
    <3>1. noResponse' \subseteq Node /\ totalUnexpected' \subseteq Node
      BY <2>1, <1>0 DEF Finish, Abandon, Merge, StatsType, DoType
    <3> QED BY <2>1, <3>1, <1>0 DEF Finish, Abandon, StatsType
  <2>2. CASE Sleep \/ Request \/ (\E k \in 0..BatchSize : Publish(k)) \/ PublishNothing \/ Interrupt
    BY <2>2, <1>0 DEF Sleep, Request, Publish, PublishNothing, Interrupt, StatsType, stats
  <2> QED BY <2>1, <2>2 DEF Do
<1> QED BY <1>2, <1>3, <1>4, <1>5, <1>6
        DEF TypeOK, DoType, LowType, EntryType, ConnType, NodeType, StatsType

LEMMA ReceiverSteps ==
  ASSUME TypeOK, NEW b \in Batch, Receiver(b)
  PROVE  TypeOK'
<1>0. DoType /\ LowType /\ EntryType /\ ConnType /\ NodeType /\ StatsType
  BY TypeParts
<1>1. UNCHANGED <<do, ctx, over, nodes, stats>>
  BY DEF Receiver, Receive, Subscribe, Ready
<1>2. DoType' /\ NodeType'
  BY <1>0, <1>1 DEF DoType, NodeType, do, nodes
<1>3. StatsType'
  BY <1>0, <1>1 DEF StatsType, stats
<1>4. LowType'
  <2>1. CASE Receive(b)
    BY <2>1, <1>0 DEF Receive, LowType
  <2>2. CASE Subscribe(b)
    BY <2>2, <1>0 DEF Subscribe, LowType
  <2>3. CASE Ready(b)
    BY <2>3, <1>0 DEF Ready, LowType
  <2> QED BY <2>1, <2>2, <2>3 DEF Receiver
<1>5. EntryType'
  <2>1. CASE Receive(b)
    BY <2>1, NoEntry DEF Receive, EntryType
  <2>2. CASE Subscribe(b) \/ Ready(b)
    BY <2>2, <1>0 DEF Subscribe, Ready, EntryType, conn
  <2> QED BY <2>1, <2>2 DEF Receiver
<1>6. ConnType'
  <2>1. CASE Receive(b)
    BY <2>1, <1>0 DEF Receive, ConnType
  <2>2. CASE Subscribe(b)
    BY <2>2, <1>0 DEF Subscribe, ConnType
  <2>3. CASE Ready(b)
    BY <2>3, <1>0 DEF Ready, ConnType, conn
  <2> QED BY <2>1, <2>2, <2>3 DEF Receiver
<1> QED BY <1>2, <1>3, <1>4, <1>5, <1>6
        DEF TypeOK, DoType, LowType, EntryType, ConnType, NodeType, StatsType

LEMMA HandlerSteps ==
  ASSUME TypeOK, NEW b \in Batch, Handler(b)
  PROVE  TypeOK'
<1>0. DoType /\ LowType /\ EntryType /\ ConnType /\ NodeType /\ StatsType
  BY TypeParts
<1>1. UNCHANGED <<pc, batch, err, ctx, conn, nodes>>
  BY DEF Handler, Handle, HandleUnreadable, HandlerEnd, do
<1>2. EntryType' /\ ConnType' /\ NodeType'
  BY <1>0, <1>1 DEF EntryType, ConnType, NodeType, conn, nodes
<1>3. ASSUME replies # <<>> PROVE Head(replies) \in Node /\ Tail(replies) \in Seq(Node)
  BY <1>3, <1>0, HeadTailProperties DEF LowType
<1>4. CASE Handle(b)
  <2>1. over' \subseteq Batch /\ UNCHANGED <<timedOut, recv, hnd, receiverReady, noResponse, totalUnexpected>>
    BY <1>4, <1>0 DEF Handle, DoType, do
  <2>2. replies' \in Seq(Node)
    BY <1>3, <1>4 DEF Handle
  <2>3. /\ Head(replies) \in Node
        /\ outstanding' = [outstanding EXCEPT ![b] = @ \ {Head(replies)}]
        /\ \/ unexpected' = unexpected
           \/ unexpected' = [unexpected EXCEPT ![b] = @ \cup {Head(replies)}]
        /\ handled' = [handled EXCEPT ![Head(replies)] = @ + 1]
        /\ late' = late \/ late' = late \cup {Head(replies)}
    BY <1>3, <1>4 DEF Handle, RecordReceived
  <2>4. outstanding' \in [Batch -> SUBSET Node]
    BY <2>3, <1>0 DEF StatsType
  <2>5. unexpected' \in [Batch -> SUBSET Node]
    BY <2>3, <1>0 DEF StatsType
  <2>6. handled' \in [Node -> Nat]
    BY <2>3, <1>0 DEF StatsType
  <2>7. DoType' /\ LowType'
    BY <1>0, <1>1, <2>1, <2>2 DEF DoType, LowType
  <2>8. StatsType'
    BY <1>0, <2>1, <2>3, <2>4, <2>5, <2>6 DEF StatsType
  <2> QED BY <1>2, <2>7, <2>8 DEF TypeOK, DoType, LowType, EntryType, ConnType, NodeType, StatsType
<1>5. CASE HandleUnreadable(b) \/ HandlerEnd(b)
  <2>1. timedOut' \subseteq Batch /\ UNCHANGED <<over, recv, receiverReady, stats>>
    BY <1>5, <1>0 DEF HandleUnreadable, HandlerEnd, DoType, do
  <2>2. replies' \in Seq(Node)
    BY <1>3, <1>5, <1>0 DEF HandleUnreadable, HandlerEnd, LowType
  <2>3. hnd' \in [Batch -> {"none", "run", "done"}]
    BY <1>5, <1>0 DEF HandleUnreadable, HandlerEnd, LowType
  <2>4. DoType' /\ LowType'
    BY <1>0, <1>1, <2>1, <2>2, <2>3 DEF DoType, LowType
  <2>5. StatsType'
    BY <1>0, <2>1 DEF StatsType, stats
  <2> QED BY <1>2, <2>4, <2>5 DEF TypeOK, DoType, LowType, EntryType, ConnType, NodeType, StatsType
<1> QED BY <1>4, <1>5 DEF Handler

\* What an Unsubscribe() leaves.
LEMMA Unsubscribed ==
  ASSUME TypeOK, Unsubscribe
  PROVE  EntryType' /\ live' \subseteq Batch /\ quit' \subseteq Batch
BY NoEntry DEF TypeOK, Unsubscribe, EntryType

LEMMA CopierSteps ==
  ASSUME TypeOK, NEW b \in Batch, Copier(b)
  PROVE  TypeOK'
<1>0. DoType /\ LowType /\ EntryType /\ ConnType /\ NodeType /\ StatsType
  BY TypeParts
<1>1. UNCHANGED <<do, ctx, over, nodes, stats, recv, hnd, receiverReady, link, panicked>>
  BY DEF Copier, Copy, CopierEnd, CopierQuit, low
<1>2. DoType' /\ NodeType'
  BY <1>0, <1>1 DEF DoType, NodeType, do, nodes
<1>3. StatsType'
  BY <1>0, <1>1 DEF StatsType, stats
<1>4. CASE Copy(b)
  <2>1. in[b] \in Seq(Node) /\ in[b] # <<>>
    BY <1>4, <1>0 DEF Copy, ConnType
  <2>2. Head(in[b]) \in Node /\ Tail(in[b]) \in Seq(Node)
    BY <2>1, HeadTailProperties
  <2>3. replies' \in Seq(Node)
    BY <2>2, <1>4, <1>0, AppendProperties DEF Copy, LowType
  <2>4. in' \in [Batch -> Seq(Node)]
    BY <2>2, <1>4, <1>0 DEF Copy, ConnType
  <2>5. LowType' /\ EntryType'
    BY <2>3, <1>0, <1>1, <1>4 DEF Copy, LowType, EntryType
  <2>6. ConnType'
    BY <2>4, <1>0, <1>1, <1>4 DEF Copy, ConnType
  <2> QED BY <1>2, <1>3, <2>5, <2>6 DEF TypeOK, DoType, LowType, EntryType, ConnType, NodeType, StatsType
<1>5. CASE CopierEnd(b)
  <2>1. EntryType' /\ live' \subseteq Batch /\ quit' \subseteq Batch
    BY <1>5, Unsubscribed DEF CopierEnd
  <2>2. LowType'
    BY <1>5, <1>0 DEF CopierEnd, LowType, low
  <2>3. ConnType'
    BY <2>1, <1>0, <1>1, <1>5 DEF CopierEnd, ConnType
  <2> QED BY <1>2, <1>3, <2>1, <2>2, <2>3 DEF TypeOK, DoType, LowType, EntryType, ConnType, NodeType, StatsType
<1>6. CASE CopierQuit(b)
  <2>1. LowType' /\ EntryType'
    BY <1>6, <1>0 DEF CopierQuit, LowType, EntryType, low
  <2>2. ConnType'
    BY <1>0, <1>1, <1>6 DEF CopierQuit, ConnType
  <2> QED BY <1>2, <1>3, <2>1, <2>2 DEF TypeOK, DoType, LowType, EntryType, ConnType, NodeType, StatsType
<1> QED BY <1>4, <1>5, <1>6 DEF Copier

LEMMA LinkSteps == TypeOK /\ (CloseConnection \/ CloseNats) => TypeOK'
<1> SUFFICES ASSUME TypeOK, CloseConnection \/ CloseNats PROVE TypeOK'
  OBVIOUS
<1>0. DoType /\ LowType /\ EntryType /\ ConnType /\ NodeType /\ StatsType
  BY TypeParts
<1>1. UNCHANGED <<do, ctx, over, low, nodes, stats, copier, closed, in, panicked>>
  BY DEF CloseConnection, CloseNats
<1>2. DoType' /\ NodeType' /\ LowType'
  BY <1>0, <1>1 DEF DoType, NodeType, LowType, do, nodes, low
<1>3. StatsType'
  BY <1>0, <1>1 DEF StatsType, stats
<1>4. CASE CloseConnection
  <2>1. EntryType' /\ live' \subseteq Batch /\ quit' \subseteq Batch
    BY <1>4, Unsubscribed DEF CloseConnection
  <2>2. ConnType'
    BY <2>1, <1>0, <1>1, <1>4 DEF CloseConnection, ConnType
  <2> QED BY <1>2, <1>3, <2>1, <2>2 DEF TypeOK, DoType, LowType, EntryType, ConnType, NodeType, StatsType
<1>5. CASE CloseNats
  <2>1. ConnType' /\ EntryType'
    BY <1>0, <1>1, <1>5 DEF CloseNats, ConnType, EntryType
  <2> QED BY <1>2, <1>3, <2>1 DEF TypeOK, DoType, LowType, EntryType, ConnType, NodeType, StatsType
<1> QED BY <1>4, <1>5

LEMMA ReplySteps ==
  ASSUME TypeOK, NEW n \in Node, Reply(n)
  PROVE  TypeOK'
<1>0. DoType /\ LowType /\ EntryType /\ ConnType /\ NodeType /\ StatsType
  BY TypeParts
<1>1. UNCHANGED <<do, ctx, over, low, stats, entry, live, copier, quit, closed, link, asked>>
  BY DEF Reply
<1>2. DoType' /\ LowType' /\ EntryType'
  BY <1>0, <1>1 DEF DoType, LowType, EntryType, do, low
<1>3. StatsType'
  BY <1>0, <1>1 DEF StatsType, stats
<1>4. in' \in [Batch -> Seq(Node)]
  <2>1. \A b \in Batch : Append(in[b], n) \in Seq(Node) /\ in[b] \in Seq(Node)
    BY <1>0, AppendProperties DEF ConnType
  <2>2. in' = [b \in Batch |-> IF b \in live \ closed THEN Append(in[b], n) ELSE in[b]]
    BY DEF Reply
  <2> QED BY <2>1, <2>2
<1>5. panicked' \in BOOLEAN
  BY Zenon DEF Reply
<1>6. ConnType' /\ NodeType'
  BY <1>0, <1>1, <1>4, <1>5 DEF Reply, ConnType, NodeType
<1> QED BY <1>2, <1>3, <1>6 DEF TypeOK, DoType, LowType, EntryType, ConnType, NodeType, StatsType

LEMMA TypeStep == TypeOK /\ [Next]_vars => TypeOK'
<1> SUFFICES ASSUME TypeOK, [Next]_vars PROVE TypeOK'
  OBVIOUS
<1>1. CASE UNCHANGED vars
  BY <1>1 DEF vars, do, low, conn, nodes, stats, TypeOK
<1> QED BY <1>1, DoSteps, ReceiverSteps, HandlerSteps, CopierSteps, LinkSteps, ReplySteps DEF Next

-----------------------------------------------------------------------------
(* The order of the batches.                                               *)

LEMMA Numbers ==
  /\ \A b \in Batch : b \in Nat \ {0} /\ b <= Len(Groups)
  /\ Len(Groups) \in Nat \ {0}
  /\ \A b \in Nat \ {0} : b <= Len(Groups) => b \in Batch
BY GroupsProperties

\* What the main steps need of the state they are taken in.
LEMMA AtPublish ==
  ASSUME TypeOK, Flow, pc = "publish", receiverReady > 0
  PROVE  recv[batch] = "done" /\ batch \in Batch
BY DEF Flow, Token, TypeOK

FreshAt(b) ==
  /\ hnd[b] = "none" /\ copier[b] = "none" /\ in[b] = <<>>
  /\ b \notin over /\ b \notin timedOut /\ b \notin quit /\ b \notin entry /\ b \notin live
  /\ outstanding[b] = Nodes(b) /\ unexpected[b] = {}

LEMMA FreshStep == TypeOK /\ Flow /\ [Next]_vars => Fresh'
<1> SUFFICES ASSUME TypeOK, Flow, [Next]_vars, NEW c \in Batch, recv'[c] \in {"none", "start"}
             PROVE  FreshAt(c)'
  BY DEF Fresh, FreshAt
<1>T. /\ recv \in [Batch -> {"none", "start", "subscribe", "ready", "done"}]
      /\ hnd \in [Batch -> {"none", "run", "done"}] /\ copier \in [Batch -> {"none", "run", "done"}]
      /\ in \in [Batch -> Seq(Node)] /\ batch \in Batch
      /\ outstanding \in [Batch -> SUBSET Node] /\ unexpected \in [Batch -> SUBSET Node]
  BY DEF TypeOK
<1>F. ASSUME recv[c] \in {"none", "start"} PROVE FreshAt(c)
  BY <1>F DEF Flow, Fresh, FreshAt
<1>1. CASE Sleep \/ PublishNothing \/ Interrupt
  BY <1>1, <1>F DEF Sleep, PublishNothing, Interrupt, FreshAt, do, low, conn, stats
<1>2. CASE Request
  <2>1. recv[batch] = "none"
    BY <1>2, <1>T, Numbers DEF Request, Flow, Turns
  <2>2. FreshAt(c)
    BY <1>2, <2>1, <1>F, <1>T DEF Request
  <2> QED BY <2>2, <1>2 DEF Request, FreshAt, conn, stats
<1>3. ASSUME NEW k \in 0..BatchSize, Publish(k) PROVE FreshAt(c)'
  <2>1. recv[batch] = "done"
    BY <1>3, AtPublish DEF Publish
  <2>2. recv' = recv /\ over' \subseteq over \cup {batch}
        /\ UNCHANGED <<timedOut, hnd, conn, stats>>
    BY <1>3 DEF Publish
  <2> QED BY <2>1, <2>2, <1>F DEF FreshAt, conn, stats
<1>4. CASE Finish \/ Abandon
  <2>1. recv[batch] = "done" /\ recv' = recv /\ over' = over \cup {batch}
        /\ UNCHANGED <<timedOut, hnd, conn, outstanding, unexpected>>
    BY <1>4 DEF Finish, Abandon, low, Flow, Place
  <2> QED BY <2>1, <1>F DEF FreshAt, conn
<1>5. ASSUME NEW b \in Batch, Receiver(b) PROVE FreshAt(c)'
  <2>1. CASE Receive(b)
    <3>1. c # b
      BY <2>1, <1>T DEF Receive
    <3>2. FreshAt(c)
      BY <2>1, <3>1, <1>F, <1>T DEF Receive
    <3> QED BY <3>1, <3>2, <2>1, <1>T DEF Receive, FreshAt, do, stats
  <2>2. CASE Subscribe(b)
    <3>1. c # b
      BY <2>2, <1>T DEF Subscribe
    <3>2. FreshAt(c)
      BY <2>2, <3>1, <1>F, <1>T DEF Subscribe
    <3> QED BY <3>1, <3>2, <2>2, <1>T DEF Subscribe, FreshAt, do, stats
  <2>3. CASE Ready(b)
    <3>1. c # b
      BY <2>3, <1>T DEF Ready
    <3>2. FreshAt(c)
      BY <2>3, <3>1, <1>F, <1>T DEF Ready
    <3> QED BY <3>1, <3>2, <2>3, <1>T DEF Ready, FreshAt, do, conn, stats
  <2> QED BY <1>5, <2>1, <2>2, <2>3 DEF Receiver
<1>6. ASSUME NEW b \in Batch, Handler(b) PROVE FreshAt(c)'
  <2>1. recv' = recv /\ hnd[b] = "run"
    BY <1>6 DEF Handler, Handle, HandleUnreadable, HandlerEnd
  <2>2. FreshAt(c)
    BY <2>1, <1>F
  <2>3. c # b
    BY <2>1, <2>2 DEF FreshAt
  <2>4. CASE Handle(b)
    <3>1. /\ outstanding'[c] = outstanding[c] /\ unexpected'[c] = unexpected[c]
          /\ over' \subseteq over \cup {b} /\ UNCHANGED <<timedOut, hnd, conn>>
      BY <2>3, <2>4, <1>T DEF Handle, RecordReceived, do
    <3> QED BY <2>2, <2>3, <3>1 DEF FreshAt, conn
  <2>5. CASE HandleUnreadable(b)
    BY <2>2, <2>5 DEF HandleUnreadable, FreshAt, do, conn, stats
  <2>6. CASE HandlerEnd(b)
    <3>1. hnd'[c] = hnd[c] /\ timedOut' \subseteq timedOut \cup {b} /\ UNCHANGED <<over, conn, stats>>
      BY <2>3, <2>6, <1>T DEF HandlerEnd
    <3> QED BY <2>2, <2>3, <3>1 DEF FreshAt, conn, stats
  <2> QED BY <1>6, <2>4, <2>5, <2>6 DEF Handler
<1>7. ASSUME NEW b \in Batch, Copier(b) PROVE FreshAt(c)'
  <2>1. recv' = recv /\ copier[b] = "run" /\ UNCHANGED <<do, hnd, over, stats>>
    BY <1>7 DEF Copier, Copy, CopierEnd, CopierQuit, low
  <2>2. FreshAt(c)
    BY <2>1, <1>F
  <2>3. c # b
    BY <2>1, <2>2 DEF FreshAt
  <2>4. in'[c] = in[c] /\ copier'[c] = copier[c]
    BY <1>7, <2>3, <1>T DEF Copier, Copy, CopierEnd, CopierQuit
  <2>5. entry' \subseteq entry /\ live' \subseteq live /\ quit' \subseteq quit \cup entry
    BY <1>7 DEF Copier, Copy, CopierEnd, CopierQuit, Unsubscribe
  <2> QED BY <2>1, <2>2, <2>4, <2>5 DEF FreshAt, do, stats
<1>8. CASE CloseConnection \/ CloseNats
  <2>1. entry' \subseteq entry /\ live' \subseteq live /\ quit' \subseteq quit \cup entry
        /\ UNCHANGED <<do, over, low, copier, in, stats>>
    BY <1>8 DEF CloseConnection, CloseNats, Unsubscribe
  <2> QED BY <2>1, <1>F DEF FreshAt, do, low, stats
<1>9. ASSUME NEW n \in Node, Reply(n) PROVE FreshAt(c)'
  <2>1. UNCHANGED <<do, over, low, entry, live, copier, quit, stats>>
    BY <1>9 DEF Reply
  <2>2. FreshAt(c)
    BY <2>1, <1>F DEF low
  <2>3. in'[c] = in[c]
    BY <1>9, <2>2 DEF Reply, FreshAt
  <2> QED BY <2>1, <2>2, <2>3 DEF FreshAt, do, low, stats
<1>10. CASE UNCHANGED vars
  BY <1>10, <1>F DEF vars, do, low, conn, stats, FreshAt
<1> QED BY <1>1, <1>2, <1>3, <1>4, <1>5, <1>6, <1>7, <1>8, <1>9, <1>10 DEF Next, Do

\* Whose turn it is.
LEMMA Current ==
  ASSUME TypeOK, Flow, NEW b \in Batch
  PROVE  /\ recv[b] \in {"start", "subscribe", "ready"} => b = batch /\ pc \notin {"sleep", "request"}
         /\ hnd[b] = "run" => b = batch /\ recv[b] \notin {"none", "start"} /\ pc \notin {"sleep", "request"}
<1>1. b \in Nat /\ batch \in Nat
  BY Numbers DEF TypeOK
<1>2. recv[b] \in {"start", "subscribe", "ready"} => b = batch /\ pc \notin {"sleep", "request"}
  BY <1>1 DEF Flow, Turns
<1>3. ASSUME hnd[b] = "run" PROVE b = batch /\ recv[b] \notin {"none", "start"} /\ pc \notin {"sleep", "request"}
  <2>1. recv[b] \notin {"none", "start"}
    BY <1>3 DEF Flow, Fresh
  <2> QED BY <2>1, <1>1, <1>3 DEF Flow, Turns
<1> QED BY <1>2, <1>3

\* The steps that leave alone where the request is and where the receivers are.
Aside ==
  \/ Interrupt \/ CloseConnection \/ CloseNats
  \/ \E b \in Batch : Handler(b) \/ Copier(b)
  \/ \E n \in Node : Reply(n)
  \/ UNCHANGED vars

LEMMA AsideFrame ==
  ASSUME TypeOK, Aside
  PROVE  /\ UNCHANGED <<pc, batch, err, recv, receiverReady>>
         /\ (ctx => ctx') /\ over \subseteq over'
         /\ \A b \in Batch : /\ hnd[b] = "none" <=> hnd'[b] = "none"
                             /\ hnd[b] = "done" => hnd'[b] = "done"
                             /\ copier[b] = "none" <=> copier'[b] = "none"
                             /\ copier'[b] = "run" => copier[b] = "run"
         /\ link' # "open" => link # "open" \/ ctx \/ pc = "done"
<1>T. hnd \in [Batch -> {"none", "run", "done"}] /\ copier \in [Batch -> {"none", "run", "done"}]
  BY DEF TypeOK
<1>1. CASE Interrupt
  BY <1>1 DEF Interrupt, do, low, conn
<1>2. CASE CloseConnection \/ CloseNats
  BY <1>2 DEF CloseConnection, CloseNats, do, low
<1>3. ASSUME NEW b \in Batch, Handler(b)
      PROVE  /\ UNCHANGED <<pc, batch, err, recv, receiverReady, ctx, conn>>
             /\ over \subseteq over' /\ hnd[b] = "run"
             /\ hnd' = hnd \/ hnd' = [hnd EXCEPT ![b] = "done"]
  BY <1>3 DEF Handler, Handle, HandleUnreadable, HandlerEnd, do
<1>4. ASSUME NEW b \in Batch, Copier(b)
      PROVE  /\ UNCHANGED <<pc, batch, err, recv, hnd, receiverReady, ctx, over, link>>
             /\ copier[b] = "run"
             /\ copier' = copier \/ copier' = [copier EXCEPT ![b] = "done"]
  BY <1>4 DEF Copier, Copy, CopierEnd, CopierQuit, do, low
<1>5. ASSUME NEW n \in Node, Reply(n) PROVE UNCHANGED <<do, ctx, over, low, copier, link>>
  BY <1>5 DEF Reply
<1>6. CASE UNCHANGED vars
  BY <1>6 DEF vars, do, low, conn
<1>7. CASE \E b \in Batch : Handler(b)
  BY <1>3, <1>7, <1>T DEF conn
<1>8. CASE \E b \in Batch : Copier(b)
  BY <1>4, <1>8, <1>T
<1>9. CASE \E n \in Node : Reply(n)
  BY <1>5, <1>9 DEF do, low
<1> QED BY <1>1, <1>2, <1>6, <1>7, <1>8, <1>9 DEF Aside

LEMMA Steps ==
  ASSUME [Next]_vars
  PROVE  \/ Sleep \/ Request \/ (\E k \in 0..BatchSize : Publish(k)) \/ PublishNothing \/ Finish \/ Abandon
         \/ \E b \in Batch : Receiver(b)
         \/ Aside
BY DEF Next, Do, Aside

LEMMA TurnsStep == TypeOK /\ Flow /\ [Next]_vars => Turns'
<1> SUFFICES ASSUME TypeOK, Flow, [Next]_vars, NEW c \in Batch
    PROVE /\ c > batch' \/ (c = batch' /\ pc' \in {"sleep", "request"}) => recv'[c] = "none"
          /\ c < batch' => recv'[c] = "done" /\ hnd'[c] = "done" /\ c \in over'
          /\ recv'[c] \notin {"none", "start"} => hnd'[c] # "none" /\ copier'[c] # "none"
  BY DEF Turns
<1>T. /\ recv \in [Batch -> {"none", "start", "subscribe", "ready", "done"}]
      /\ hnd \in [Batch -> {"none", "run", "done"}] /\ copier \in [Batch -> {"none", "run", "done"}]
      /\ batch \in Batch /\ batch \in Nat /\ c \in Nat
  BY Numbers DEF TypeOK
<1>0. /\ c > batch \/ (c = batch /\ pc \in {"sleep", "request"}) => recv[c] = "none"
      /\ c < batch => recv[c] = "done" /\ hnd[c] = "done" /\ c \in over
      /\ recv[c] \notin {"none", "start"} => hnd[c] # "none" /\ copier[c] # "none"
  BY DEF Flow, Turns
<1>1. CASE Sleep \/ PublishNothing \/ Abandon \/ \E k \in 0..BatchSize : Publish(k)
  <2>1. batch' = batch /\ UNCHANGED <<recv, hnd, copier>> /\ over \subseteq over'
        /\ (pc' \in {"sleep", "request"} => pc \in {"sleep", "request"})
    BY <1>1 DEF Sleep, PublishNothing, Abandon, Publish, low, conn
  <2> QED BY <2>1, <1>0
<1>2. CASE Request
  BY <1>2, <1>0, <1>T DEF Request, conn
<1>3. CASE Finish
  <2>1. /\ recv[batch] = "done" /\ hnd[batch] = "done" /\ UNCHANGED <<recv, hnd, copier>>
        /\ over' = over \cup {batch}
        /\ \/ batch' = batch + 1
           \/ batch' = batch /\ pc' = "done"
    BY <1>3 DEF Finish, low, conn
  <2> QED BY <2>1, <1>0, <1>T
<1>4. ASSUME NEW b \in Batch, Receiver(b)
      PROVE /\ c > batch' \/ (c = batch' /\ pc' \in {"sleep", "request"}) => recv'[c] = "none"
            /\ c < batch' => recv'[c] = "done" /\ hnd'[c] = "done" /\ c \in over'
            /\ recv'[c] \notin {"none", "start"} => hnd'[c] # "none" /\ copier'[c] # "none"
  <2>1. recv[b] \in {"start", "subscribe", "ready"} /\ UNCHANGED <<do, over>>
    BY <1>4 DEF Receiver, Receive, Subscribe, Ready
  <2>2. b = batch /\ pc \notin {"sleep", "request"}
    BY <2>1, Current
  <2>3. c # b => recv'[c] = recv[c] /\ hnd'[c] = hnd[c] /\ copier'[c] = copier[c]
    BY <1>4, <1>T DEF Receiver, Receive, Subscribe, Ready, conn
  <2>4. hnd'[b] # "none" /\ copier'[b] # "none"
    <3>1. CASE Receive(b)
      BY <3>1, <1>T DEF Receive
    <3>2. CASE Subscribe(b) \/ Ready(b)
      <4>1. hnd' = hnd /\ copier' = copier /\ recv[b] \notin {"none", "start"}
        BY <3>2 DEF Subscribe, Ready, conn
      <4> QED BY <4>1 DEF Flow, Turns
    <3> QED BY <3>1, <3>2, <1>4 DEF Receiver
  <2> QED BY <2>1, <2>2, <2>3, <2>4, <1>0, <1>T DEF do
<1>5. CASE Aside
  BY <1>5, AsideFrame, <1>0
<1> QED BY <1>1, <1>2, <1>3, <1>4, <1>5, Steps

LEMMA OneCopierStep ==
  ASSUME Sleeps, TypeOK, Flow, [Next]_vars
  PROVE  OneCopier'
<1>T. /\ recv \in [Batch -> {"none", "start", "subscribe", "ready", "done"}]
      /\ copier \in [Batch -> {"none", "run", "done"}]
      /\ batch \in Batch /\ batch \in Nat /\ \A c \in Batch : c \in Nat \ {0}
  BY Numbers DEF TypeOK
<1>0. /\ \A b, c \in Batch : copier[b] = "run" /\ copier[c] = "run" => b = c
      /\ pc = "request" \/ recv[batch] = "start" => \A c \in Batch : copier[c] # "run"
  BY DEF Flow, OneCopier
<1>1. CASE Sleep
  <2>1. UNCHANGED <<batch, recv, copier>>
    BY <1>1 DEF Sleep, low, conn
  <2>2. ASSUME pc' = "request", NEW c \in Batch PROVE copier[c] # "run"
    <3>1. pc = "sleep" /\ \A b \in 1..(batch - 1) : copier[b] # "run"
      BY <1>1, <2>2 DEF Sleep
    <3>2. CASE c < batch
      BY <3>1, <3>2, <1>T
    <3>3. CASE ~(c < batch)
      BY <3>1, <3>3, <1>T DEF Flow, Turns, Fresh
    <3> QED BY <3>2, <3>3
  <2> QED BY <2>1, <2>2, <1>0 DEF OneCopier
<1>2. CASE Request
  <2>1. pc = "request" /\ copier' = copier
    BY <1>2 DEF Request, conn
  <2> QED BY <2>1, <1>0 DEF OneCopier
<1>3. CASE PublishNothing \/ Abandon \/ \E k \in 0..BatchSize : Publish(k)
  <2>1. pc' # "request" /\ UNCHANGED <<batch, recv, copier>>
    BY <1>3 DEF PublishNothing, Abandon, Publish, low, conn
  <2> QED BY <2>1, <1>0 DEF OneCopier
<1>4. CASE Finish
  <2>1. /\ recv[batch] = "done" /\ UNCHANGED <<recv, copier>> /\ pc' # "request"
        /\ batch' = batch \/ (batch' = batch + 1 /\ batch < Len(Groups))
    BY <1>4 DEF Finish, low, conn
  <2>2. recv'[batch'] # "start"
    <3>1. CASE batch' = batch
      BY <3>1, <2>1
    <3>2. CASE batch' = batch + 1 /\ batch < Len(Groups)
      <4>1. batch + 1 \in Batch /\ batch + 1 > batch
        BY <3>2, <1>T, Numbers
      <4> QED BY <3>2, <4>1, <2>1 DEF Flow, Turns
    <3> QED BY <2>1, <3>1, <3>2
  <2> QED BY <2>1, <2>2, <1>0 DEF OneCopier
<1>5. ASSUME NEW b \in Batch, Receiver(b) PROVE OneCopier'
  <2>1. CASE Receive(b)
    <3>1. /\ recv[b] = "start" /\ recv' = [recv EXCEPT ![b] = "subscribe"]
          /\ copier' = [copier EXCEPT ![b] = "run"] /\ UNCHANGED <<pc, batch>>
      BY <2>1 DEF Receive, do
    <3>2. b = batch /\ pc # "request"
      BY <3>1, Current
    <3>3. \A c \in Batch : copier[c] # "run"
      BY <3>1, <3>2, <1>0
    <3>4. \A c \in Batch : copier'[c] = "run" => c = b
      BY <3>1, <3>3, <1>T
    <3>5. recv'[batch'] # "start" /\ pc' # "request"
      BY <3>1, <3>2, <1>T
    <3> QED BY <3>4, <3>5 DEF OneCopier
  <2>2. CASE Subscribe(b) \/ Ready(b)
    <3>1. /\ recv[b] \in {"subscribe", "ready"} /\ UNCHANGED <<pc, batch, copier>>
          /\ recv' = [recv EXCEPT ![b] = "ready"] \/ recv' = [recv EXCEPT ![b] = "done"]
      BY <2>2 DEF Subscribe, Ready, do, conn
    <3>2. recv'[batch] = "start" => recv[batch] = "start"
      BY <3>1, <1>T
    <3> QED BY <3>1, <3>2, <1>0 DEF OneCopier
  <2> QED BY <1>5, <2>1, <2>2 DEF Receiver
<1>6. CASE Aside
  <2>1. /\ UNCHANGED <<pc, batch, recv>>
        /\ \A b \in Batch : copier'[b] = "run" => copier[b] = "run"
    BY <1>6, AsideFrame
  <2> QED BY <2>1, <1>0 DEF OneCopier
<1> QED BY <1>1, <1>2, <1>3, <1>4, <1>5, <1>6, Steps

LEMMA TokenStep ==
  ASSUME Sleeps, TypeOK, Flow, [Next]_vars
  PROVE  Token'
<1>T. /\ recv \in [Batch -> {"none", "start", "subscribe", "ready", "done"}]
      /\ receiverReady \in 0..1 /\ batch \in Batch /\ batch \in Nat \ {0}
  BY Numbers DEF TypeOK
<1>0. receiverReady # 0 => \/ pc = "publish" /\ recv[batch] = "done"
                           \/ pc = "done"
                           \/ ctx /\ (pc = "wait" \/ (pc = "sleep" /\ batch # 1))
  BY DEF Flow, Token
<1>1. CASE Sleep
  <2>1. /\ UNCHANGED <<batch, ctx, receiverReady>> /\ pc = "sleep"
        /\ (pc' = "request" /\ (batch = 1 \/ ~ctx)) \/ pc' = "done"
    BY <1>1 DEF Sleep, low
  <2> QED BY <2>1, <1>0 DEF Token
<1>2. CASE Request
  <2>1. pc = "request" /\ receiverReady' = receiverReady
    BY <1>2 DEF Request
  <2> QED BY <2>1, <1>0 DEF Token
<1>3. ASSUME NEW k \in 0..BatchSize, Publish(k) PROVE Token'
  <2>1. receiverReady > 0 /\ receiverReady' = receiverReady - 1
    BY <1>3 DEF Publish
  <2>2. receiverReady' = 0
    BY <2>1, <1>T
  <2> QED BY <2>2 DEF Token
<1>4. CASE PublishNothing
  <2>1. Ended(batch) /\ pc = "publish" /\ pc' = "wait" /\ ctx' = ctx
    BY <1>4 DEF PublishNothing
  <2>2. ctx'
    BY <2>1 DEF Flow, Pending, Ended
  <2> QED BY <2>1, <2>2 DEF Token
<1>5. CASE Finish
  <2>1. /\ pc = "wait" /\ UNCHANGED <<receiverReady, ctx>>
        /\ (pc' = "sleep" /\ batch' = batch + 1) \/ pc' = "done"
    BY <1>5 DEF Finish, low
  <2> QED BY <2>1, <1>0, <1>T DEF Token
<1>6. ASSUME NEW b \in Batch, Receiver(b) PROVE Token'
  <2>1. recv[b] \in {"start", "subscribe", "ready"} /\ UNCHANGED <<pc, batch, ctx>>
    BY <1>6 DEF Receiver, Receive, Subscribe, Ready, do
  <2>2. b = batch /\ pc \notin {"sleep", "request"}
    BY <2>1, Current
  <2>3. CASE Ready(b)
    <3>1. recv'[batch] = "done"
      BY <2>2, <2>3, <1>T DEF Ready
    <3>2. pc # "failed" /\ (pc = "wait" => ctx)
      BY <2>1, <2>2 DEF Flow, Place
    <3>3. pc \in {"publish", "wait", "done"}
      BY <2>2, <3>2 DEF TypeOK
    <3> QED BY <2>1, <3>1, <3>2, <3>3 DEF Token
  <2>4. CASE Receive(b) \/ Subscribe(b)
    <3>1. receiverReady' = receiverReady /\ recv[batch] # "done"
      BY <2>1, <2>2, <2>4 DEF Receive, Subscribe
    <3> QED BY <2>1, <3>1, <1>0 DEF Token
  <2> QED BY <1>6, <2>3, <2>4 DEF Receiver
<1>7. CASE Aside
  <2>1. UNCHANGED <<pc, batch, recv, receiverReady>> /\ (ctx => ctx')
    BY <1>7, AsideFrame
  <2> QED BY <2>1, <1>0 DEF Token
<1>8. CASE Abandon
  BY <1>8 DEF Abandon, Token
<1> QED BY <1>1, <1>2, <1>3, <1>4, <1>5, <1>6, <1>7, <1>8, Steps

LEMMA PlaceStep ==
  ASSUME TypeOK, Flow, [Next]_vars
  PROVE  Place'
<1>T. /\ recv \in [Batch -> {"none", "start", "subscribe", "ready", "done"}]
      /\ hnd \in [Batch -> {"none", "run", "done"}]
      /\ batch \in Batch /\ batch \in Nat /\ batch <= Len(Groups) /\ Len(Groups) \in Nat
  BY Numbers DEF TypeOK
<1>0. /\ pc = "wait" => recv[batch] = "done" \/ ctx
      /\ pc = "failed" => recv[batch] = "done"
      /\ pc # "done" => ~err
      /\ pc = "done" => err \/ (batch = Len(Groups) /\ hnd[batch] = "done")
      /\ link # "open" => ctx \/ pc = "done"
  BY DEF Flow, Place
<1>1. CASE Sleep
  <2>1. /\ pc = "sleep" /\ UNCHANGED <<link, ctx>>
        /\ (pc' = "request" /\ err' = err) \/ (pc' = "done" /\ err')
    BY <1>1 DEF Sleep, conn
  <2> QED BY <2>1, <1>0 DEF Place
<1>2. CASE Request
  <2>1. pc = "request" /\ pc' = "publish" /\ UNCHANGED <<link, ctx, err>>
    BY <1>2 DEF Request, conn
  <2> QED BY <2>1, <1>0 DEF Place
<1>3. ASSUME NEW k \in 0..BatchSize, Publish(k) PROVE Place'
  <2>1. recv[batch] = "done"
    BY <1>3, AtPublish DEF Publish
  <2>2. /\ pc = "publish" /\ UNCHANGED <<batch, recv, link, ctx>>
        /\ pc' \in {"wait", "failed"} /\ err' = err
    BY <1>3 DEF Publish, conn
  <2> QED BY <2>1, <2>2, <1>0 DEF Place
<1>4. CASE PublishNothing
  <2>1. Ended(batch) /\ pc = "publish" /\ pc' = "wait" /\ UNCHANGED <<ctx, err, link>>
    BY <1>4 DEF PublishNothing, conn
  <2>2. ctx'
    BY <2>1 DEF Flow, Pending, Ended
  <2> QED BY <2>1, <2>2, <1>0 DEF Place
<1>5. CASE Finish
  <2>1. /\ pc = "wait" /\ hnd[batch] = "done" /\ UNCHANGED <<ctx, err, link, hnd>>
        /\ \/ pc' = "sleep"
           \/ pc' = "done" /\ batch' = batch /\ ~(batch < Len(Groups))
    BY <1>5 DEF Finish, low, conn
  <2> QED BY <2>1, <1>0, <1>T DEF Place
<1>6. ASSUME NEW b \in Batch, Receiver(b) PROVE Place'
  <2>1. recv[b] \in {"start", "subscribe", "ready"} /\ UNCHANGED <<pc, batch, ctx, err, link>>
    BY <1>6 DEF Receiver, Receive, Subscribe, Ready, do, conn
  <2>2. recv[batch] = "done" => recv'[batch] = "done"
    BY <1>6, <2>1, <1>T DEF Receiver, Receive, Subscribe, Ready
  <2>3. hnd[batch] = "done" => hnd'[batch] = "done"
    <3>1. CASE Receive(b)
      <4>1. recv[b] = "start" /\ hnd' = [hnd EXCEPT ![b] = "run"]
        BY <3>1 DEF Receive
      <4>2. hnd[b] = "none"
        BY <4>1 DEF Flow, Fresh
      <4> QED BY <4>1, <4>2, <1>T
    <3>2. CASE Subscribe(b) \/ Ready(b)
      BY <3>2 DEF Subscribe, Ready
    <3> QED BY <1>6, <3>1, <3>2 DEF Receiver
  <2> QED BY <2>1, <2>2, <2>3, <1>0 DEF Place
<1>7. CASE Aside
  <2>1. UNCHANGED <<pc, batch, err, recv>> /\ (ctx => ctx')
        /\ (hnd[batch] = "done" => hnd'[batch] = "done")
        /\ (link' # "open" => link # "open" \/ ctx \/ pc = "done")
    BY <1>7, AsideFrame, <1>T
  <2> QED BY <2>1, <1>0 DEF Place
<1>8. CASE Abandon
  <2>1. pc' = "done" /\ err'
    BY <1>8 DEF Abandon
  <2> QED BY <2>1 DEF Place
<1> QED BY <1>1, <1>2, <1>3, <1>4, <1>5, <1>6, <1>7, <1>8, Steps

KeptAt(b) ==
  recv[b] \notin {"none", "start"} /\ b \notin over =>
      /\ copier[b] = "run" /\ b \notin quit
      /\ recv[b] # "subscribe" => b \in live

LEMMA KeptStep ==
  ASSUME TypeOK, Flow, [Next]_vars
  PROVE  Kept'
<1> SUFFICES ASSUME ~ctx', pc' # "done", NEW c \in Batch PROVE KeptAt(c)'
  BY DEF Kept, KeptAt
<1>T. /\ recv \in [Batch -> {"none", "start", "subscribe", "ready", "done"}]
      /\ copier \in [Batch -> {"none", "run", "done"}] /\ batch \in Batch
  BY DEF TypeOK
<1>C. ~ctx /\ pc # "done"
  <2>1. CASE Sleep \/ Request \/ (\E k \in 0..BatchSize : Publish(k)) \/ PublishNothing \/ Finish \/ Abandon
    BY <2>1 DEF Sleep, Request, Publish, PublishNothing, Finish, Abandon
  <2>2. CASE \E b \in Batch : Receiver(b)
    BY <2>2 DEF Receiver, Receive, Subscribe, Ready, do
  <2>3. CASE Aside
    BY <2>3, AsideFrame
  <2> QED BY <2>1, <2>2, <2>3, Steps
<1>0. KeptAt(c)
  BY <1>C DEF Flow, Kept, KeptAt
<1>L. link = "open"
  BY <1>C DEF Flow, Place
<1>1. CASE Sleep \/ (\E k \in 0..BatchSize : Publish(k)) \/ PublishNothing \/ Finish \/ Abandon
  <2>1. UNCHANGED <<recv, copier, quit, live>> /\ over \subseteq over'
    BY <1>1 DEF Sleep, Publish, PublishNothing, Finish, Abandon, low, conn
  <2> QED BY <2>1, <1>0 DEF KeptAt
<1>2. CASE Request
  <2>1. UNCHANGED <<over, copier, quit, live>> /\ recv' = [recv EXCEPT ![batch] = "start"]
    BY <1>2 DEF Request, conn
  <2>2. recv'[c] \in {recv[c], "start"}
    BY <2>1, <1>T
  <2> QED BY <2>1, <2>2, <1>0 DEF KeptAt
<1>3. ASSUME NEW b \in Batch, Receiver(b) PROVE KeptAt(c)'
  <2>1. CASE Receive(b)
    <3>1. /\ recv[b] = "start" /\ recv' = [recv EXCEPT ![b] = "subscribe"]
          /\ copier' = [copier EXCEPT ![b] = "run"] /\ UNCHANGED <<over, quit, live>>
      BY <2>1 DEF Receive
    <3>2. b \notin quit
      BY <3>1 DEF Flow, Fresh
    <3>3. CASE c = b
      <4>1. recv'[c] = "subscribe" /\ copier'[c] = "run" /\ c \notin quit'
        BY <3>1, <3>2, <3>3, <1>T
      <4> QED BY <4>1 DEF KeptAt
    <3>4. CASE c # b
      <4>1. recv'[c] = recv[c] /\ copier'[c] = copier[c]
        BY <3>1, <3>4, <1>T
      <4> QED BY <4>1, <3>1, <1>0 DEF KeptAt
    <3> QED BY <3>3, <3>4
  <2>2. CASE Subscribe(b)
    <3>1. /\ recv[b] = "subscribe" /\ recv' = [recv EXCEPT ![b] = "ready"] /\ live' = live \cup {b}
          /\ UNCHANGED <<copier, over, quit>>
      BY <2>2, <1>L DEF Subscribe
    <3>2. c # b => recv'[c] = recv[c]
      BY <3>1, <1>T
    <3> QED BY <3>1, <3>2, <1>0 DEF KeptAt
  <2>3. CASE Ready(b)
    <3>1. /\ recv[b] = "ready" /\ recv' = [recv EXCEPT ![b] = "done"]
          /\ UNCHANGED <<copier, over, quit, live>>
      BY <2>3 DEF Ready, conn
    <3>2. c # b => recv'[c] = recv[c]
      BY <3>1, <1>T
    <3> QED BY <3>1, <3>2, <1>0 DEF KeptAt
  <2> QED BY <1>3, <2>1, <2>2, <2>3 DEF Receiver
<1>4. ASSUME NEW b \in Batch, Copier(b) PROVE KeptAt(c)'
  <2>1. copier[b] = "run" /\ UNCHANGED <<recv, over>>
    BY <1>4 DEF Copier, Copy, CopierEnd, CopierQuit, low
  <2>2. copier[c] = "run" => c = b
    BY <2>1 DEF Flow, OneCopier
  <2>3. CASE Copy(b)
    BY <2>1, <2>3, <1>0 DEF Copy, KeptAt
  <2>4. CASE CopierEnd(b)
    <3>1. b \in over
      BY <2>4, <1>C DEF CopierEnd, Ended
    <3> QED BY <3>1, <2>1, <2>2, <1>0 DEF KeptAt
  <2>5. CASE CopierQuit(b)
    <3>1. b \in quit
      BY <2>5 DEF CopierQuit
    <3> QED BY <3>1, <2>1, <2>2, <1>0 DEF KeptAt
  <2> QED BY <1>4, <2>3, <2>4, <2>5 DEF Copier
<1>5. CASE CloseConnection \/ CloseNats
  BY <1>5, <1>C, <1>L DEF CloseConnection, CloseNats
<1>6. CASE Interrupt \/ (\E b \in Batch : Handler(b)) \/ (\E n \in Node : Reply(n)) \/ UNCHANGED vars
  <2>1. UNCHANGED <<recv, copier, quit, live>> /\ over \subseteq over'
    BY <1>6 DEF Interrupt, Handler, Handle, HandleUnreadable, HandlerEnd, Reply, vars, low, conn
  <2> QED BY <2>1, <1>0 DEF KeptAt
<1> QED BY <1>1, <1>2, <1>3, <1>4, <1>5, <1>6, Steps DEF Aside

-----------------------------------------------------------------------------
(* The requests and the replies.                                           *)

\* A batch is a sequence of nodes.
LEMMA GroupSeq ==
  ASSUME NEW b \in Batch
  PROVE  DOMAIN Groups[b] = 1..Len(Groups[b]) /\ Len(Groups[b]) \in Nat
<1> DEFINE f == From(b)
           t == To(b)
           u == SubSeq(Targets, f, t)
<1>1. Batch = 1..((Size + BatchSize - 1) \div BatchSize)
  BY GroupsProperties
<1>2. f \in 1..Size /\ t \in 1..Size
  BY <1>1, Bounds
<1>3. Groups[b] = u
  BY <1>1 DEF Groups, InGroups, From, To, Size
<1>4. f \in Int /\ t \in Int /\ \A k \in f..t : Targets[k] \in Node
  BY <1>2, Constants
<1> HIDE DEF f, t
<1>5. u \in Seq(Node)
  BY <1>4, SubSeqProperties
<1> HIDE DEF u
<1> QED BY <1>3, <1>5, LenProperties

LEMMA AskedStep ==
  ASSUME TypeOK, Flow, Asked, [Next]_vars
  PROVE  Asked'
<1> SUFFICES ASSUME NEW c \in Batch, NEW n \in Nodes(c)
    PROVE /\ asked'[n] <= 1
          /\ c > batch' \/ (c = batch' /\ pc' \in {"sleep", "request", "publish"}) => asked'[n] = 0
          /\ ~ctx' /\ ~err' /\ (c < batch' \/ (c = batch' /\ pc' \in {"wait", "done"})) => asked'[n] = 1
  BY DEF Asked
<1>T. /\ asked \in [Node -> Nat] /\ n \in Node
      /\ batch \in Batch /\ batch \in Nat /\ c \in Nat
  BY Numbers, Partition DEF TypeOK
<1>0. /\ asked[n] <= 1
      /\ c > batch \/ (c = batch /\ pc \in {"sleep", "request", "publish"}) => asked[n] = 0
      /\ ~ctx /\ ~err /\ (c < batch \/ (c = batch /\ pc \in {"wait", "done"})) => asked[n] = 1
  BY DEF Asked
<1>1. CASE Sleep
  <2>1. /\ pc = "sleep" /\ UNCHANGED <<asked, batch, ctx>>
        /\ (pc' = "request" /\ err' = err) \/ (pc' = "done" /\ err')
    BY <1>1 DEF Sleep, nodes
  <2> QED BY <2>1, <1>0
<1>2. CASE Request
  <2>1. pc = "request" /\ pc' = "publish" /\ UNCHANGED <<asked, batch, ctx, err>>
    BY <1>2 DEF Request, nodes
  <2> QED BY <2>1, <1>0
<1>3. ASSUME NEW k \in 0..BatchSize, Publish(k)
    PROVE /\ asked'[n] <= 1
          /\ c > batch' \/ (c = batch' /\ pc' \in {"sleep", "request", "publish"}) => asked'[n] = 0
          /\ ~ctx' /\ ~err' /\ (c < batch' \/ (c = batch' /\ pc' \in {"wait", "done"})) => asked'[n] = 1
  <2>1. /\ pc = "publish" /\ UNCHANGED <<batch, ctx, err>> /\ k \in Nat
        /\ k <= Len(Groups[batch])
        /\ asked'[n] = IF \E i \in 1..k : n = Groups[batch][i] THEN asked[n] + 1 ELSE asked[n]
        /\ pc' = IF k = Len(Groups[batch]) THEN "wait" ELSE "failed"
    BY <1>3, <1>T DEF Publish
  <2>2. n \in Nodes(batch) <=> c = batch
    BY <1>T, Partition
  <2>3. n \in Nodes(batch) <=> \E i \in 1..Len(Groups[batch]) : n = Groups[batch][i]
    BY <1>T, GroupSeq DEF Nodes, Range
  <2>4. (\E i \in 1..k : n = Groups[batch][i]) => c = batch
    <3>1. \A i \in 1..k : i \in 1..Len(Groups[batch])
      BY <2>1, <1>T, GroupSeq
    <3> QED BY <3>1, <2>2, <2>3
  <2>5. pc' = "wait" /\ c = batch => \E i \in 1..k : n = Groups[batch][i]
    BY <2>1, <2>2, <2>3
  <2> HIDE DEF Range
  <2> QED BY <2>1, <2>4, <2>5, <1>0, <1>T
<1>4. CASE PublishNothing
  <2>1. Ended(batch) /\ pc = "publish" /\ pc' = "wait" /\ UNCHANGED <<asked, batch, ctx>>
    BY <1>4 DEF PublishNothing, nodes
  <2>2. ctx'
    BY <2>1 DEF Flow, Pending, Ended
  <2> QED BY <2>1, <2>2, <1>0
<1>5. CASE Finish
  <2>1. /\ pc = "wait" /\ UNCHANGED <<asked, ctx, err>>
        /\ \/ pc' = "sleep" /\ batch' = batch + 1
           \/ pc' = "done" /\ batch' = batch
    BY <1>5 DEF Finish, nodes
  <2> QED BY <2>1, <1>0, <1>T
<1>6. CASE (\E b \in Batch : Receiver(b)) \/ Aside
  <2>1. UNCHANGED <<pc, batch, err, asked>> /\ (ctx => ctx')
    BY <1>6, AsideFrame
       DEF Receiver, Receive, Subscribe, Ready, do, nodes, Aside, Interrupt, CloseConnection, CloseNats,
           Handler, Handle, HandleUnreadable, HandlerEnd, Copier, Copy, CopierEnd, CopierQuit, Reply, vars
  <2> QED BY <2>1, <1>0
<1>7. CASE Abandon
  <2>1. pc = "failed" /\ pc' = "done" /\ err' /\ UNCHANGED <<asked, batch>>
    BY <1>7 DEF Abandon, nodes
  <2> QED BY <2>1, <1>0
<1> QED BY <1>1, <1>2, <1>3, <1>4, <1>5, <1>6, <1>7, Steps

\* Taking the first reply of a channel, and adding one at its end.
LEMMA Taken ==
  ASSUME NEW s \in Seq(Node), s # <<>>
  PROVE  /\ In(s, Head(s)) /\ Head(s) \in Node
         /\ \A n : In(Tail(s), n) => In(s, n)
         /\ Once(s) => Once(Tail(s)) /\ ~In(Tail(s), Head(s))
<1>1. /\ Len(s) \in Nat \ {0} /\ DOMAIN s = 1..Len(s) /\ Tail(s) \in Seq(Node)
      /\ Head(s) = s[1] /\ Head(s) \in Node /\ Len(Tail(s)) = Len(s) - 1
  BY HeadTailProperties, LenProperties, EmptySeq
<1>2. \A i \in 1..Len(Tail(s)) : Tail(s)[i] = s[i+1]
  BY HeadTailProperties
<1>3. DOMAIN Tail(s) = 1..Len(s)-1
  BY <1>1, LenProperties
<1>4. \A i \in DOMAIN Tail(s) : i \in Nat /\ i+1 \in DOMAIN s /\ Tail(s)[i] = s[i+1] /\ i+1 # 1
  BY <1>1, <1>2, <1>3
<1>5. 1 \in DOMAIN s
  BY <1>1
<1>6. Once(s) => Once(Tail(s))
  <2> SUFFICES ASSUME Once(s), NEW i \in DOMAIN Tail(s), NEW j \in DOMAIN Tail(s),
                      Tail(s)[i] = Tail(s)[j]
               PROVE  i = j
    BY DEF Once
  <2>1. i+1 = j+1
    BY <1>4 DEF Once
  <2> QED BY <2>1, <1>4
<1>7. Once(s) => ~In(Tail(s), Head(s))
  BY <1>1, <1>4, <1>5 DEF Once, In
<1>8. In(s, Head(s)) /\ \A n : In(Tail(s), n) => In(s, n)
  BY <1>1, <1>4, <1>5 DEF In
<1> QED BY <1>1, <1>6, <1>7, <1>8

LEMMA Added ==
  ASSUME NEW s \in Seq(Node), NEW x \in Node
  PROVE  /\ \A n : In(Append(s, x), n) <=> In(s, n) \/ n = x
         /\ Once(s) /\ ~In(s, x) => Once(Append(s, x))
<1> DEFINE t == Append(s, x)
<1>1. /\ Len(s) \in Nat /\ DOMAIN s = 1..Len(s) /\ DOMAIN t = 1..Len(s)+1
      /\ \A i \in 1..Len(s) : t[i] = s[i]
      /\ t[Len(s)+1] = x
  BY AppendProperties, LenProperties
<1> HIDE DEF t
<1>2. DOMAIN t = DOMAIN s \cup {Len(s)+1}
  BY <1>1
<1>3. \A n : In(t, n) <=> In(s, n) \/ n = x
  BY <1>1, <1>2 DEF In
<1>4. Once(s) /\ ~In(s, x) => Once(t)
  BY <1>1, <1>2 DEF In, Once
<1> QED BY <1>3, <1>4 DEF t

PlaceAt(n) ==
  /\ handled[n] <= 1
  /\ In(replies, n) => handled[n] = 0
  /\ \A b \in Batch : copier[b] = "run" /\ In(in[b], n) => handled[n] = 0 /\ ~In(replies, n)
  /\ In(replies, n) \/ handled[n] > 0 \/ (\E b \in Batch : In(in[b], n)) => n \in answered
  /\ n \in answered => asked[n] > 0

\* The steps that move no reply.
LEMMA NoReplyMoves ==
  ASSUME TypeOK, Flow, OnePlace, [Next]_vars,
         \A b \in Batch : ~Handle(b) /\ ~HandleUnreadable(b) /\ ~Copy(b),
         \A n \in Node : ~Reply(n)
  PROVE  /\ UNCHANGED <<replies, in, handled, answered>>
         /\ \A n \in Node : asked[n] > 0 => asked'[n] > 0
         /\ \A b \in Batch : copier'[b] = "run" => copier[b] = "run" \/ in[b] = <<>>
<1>T. copier \in [Batch -> {"none", "run", "done"}] /\ asked \in [Node -> Nat]
  BY DEF TypeOK
<1>1. CASE Sleep \/ Request \/ PublishNothing \/ Finish \/ Abandon
  BY <1>1 DEF Sleep, Request, PublishNothing, Finish, Abandon, low, conn, nodes, stats
<1>2. ASSUME NEW k \in 0..BatchSize, Publish(k)
      PROVE  /\ UNCHANGED <<replies, in, handled, answered, copier>>
             /\ \A n \in Node : asked[n] > 0 => asked'[n] > 0
  <2>1. UNCHANGED <<replies, in, handled, answered, copier>>
    BY <1>2 DEF Publish, conn, stats
  <2>2. \A n \in Node : asked'[n] = asked[n] \/ asked'[n] = asked[n] + 1
    BY <1>2 DEF Publish
  <2> QED BY <2>1, <2>2, <1>T
<1>3. ASSUME NEW b \in Batch, Receiver(b)
      PROVE  /\ UNCHANGED <<replies, in, handled, answered, asked>>
             /\ \A c \in Batch : copier'[c] = "run" => copier[c] = "run" \/ in[c] = <<>>
  <2>1. UNCHANGED <<replies, in, handled, answered, asked>>
    BY <1>3 DEF Receiver, Receive, Subscribe, Ready, conn, nodes, stats
  <2>2. CASE Receive(b)
    <3>1. recv[b] = "start" /\ copier' = [copier EXCEPT ![b] = "run"]
      BY <2>2 DEF Receive
    <3>2. in[b] = <<>>
      BY <3>1 DEF Flow, Fresh
    <3> QED BY <2>1, <3>1, <3>2, <1>T
  <2>3. CASE Subscribe(b) \/ Ready(b)
    BY <2>1, <2>3 DEF Subscribe, Ready, conn
  <2> QED BY <1>3, <2>2, <2>3 DEF Receiver
<1>4. CASE Aside
  <2>1. \A b \in Batch : copier'[b] = "run" => copier[b] = "run"
    BY <1>4, AsideFrame
  <2>2. UNCHANGED <<replies, in, handled, answered, asked>>
    <3>1. CASE Interrupt \/ CloseConnection \/ CloseNats \/ UNCHANGED vars
      BY <3>1 DEF Interrupt, CloseConnection, CloseNats, vars, low, conn, nodes, stats
    <3>2. CASE \E b \in Batch : HandlerEnd(b) \/ CopierEnd(b) \/ CopierQuit(b)
      BY <3>2 DEF HandlerEnd, CopierEnd, CopierQuit, low, conn, nodes, stats
    <3> QED BY <1>4, <3>1, <3>2 DEF Aside, Handler, Copier
  <2> QED BY <2>1, <2>2
<1> QED BY <1>1, <1>2, <1>3, <1>4, Steps DEF conn

LEMMA OnePlaceStep ==
  ASSUME TypeOK, Flow, OnePlace, [Next]_vars
  PROVE  OnePlace'
<1>T. /\ replies \in Seq(Node) /\ in \in [Batch -> Seq(Node)] /\ handled \in [Node -> Nat]
      /\ \A b \in Batch : in[b] \in Seq(Node)
  BY DEF TypeOK
<1>0. /\ Once(replies) /\ \A b \in Batch : Once(in[b])
      /\ \A n \in Node : PlaceAt(n)
  BY DEF OnePlace, PlaceAt
<1>1. ASSUME NEW b \in Batch, Handle(b) \/ HandleUnreadable(b) PROVE OnePlace'
  <2>1. /\ replies # <<>> /\ replies' = Tail(replies) /\ UNCHANGED <<in, copier, asked, answered>>
        /\ \/ handled' = handled
           \/ handled' = [handled EXCEPT ![Head(replies)] = @ + 1]
    BY <1>1 DEF Handle, HandleUnreadable, RecordReceived, conn, nodes, stats
  <2> DEFINE h == Head(replies)
  <2>2. /\ In(replies, h) /\ h \in Node
        /\ \A n : In(replies', n) => In(replies, n)
        /\ Once(replies') /\ ~In(replies', h)
    BY <2>1, <1>0, <1>T, Taken
  <2>3. handled[h] = 0 /\ h \in answered
    BY <2>2, <1>0 DEF PlaceAt
  <2> HIDE DEF h
  <2>4. ASSUME NEW n \in Node PROVE PlaceAt(n)'
    <3>0. PlaceAt(n)
      BY <1>0
    <3>1. CASE n # h
      <4>1. handled'[n] = handled[n]
        BY <2>1, <2>2, <3>1, <1>T DEF h
      <4> QED BY <4>1, <2>1, <2>2, <3>0 DEF PlaceAt
    <3>2. CASE n = h
      <4>1. handled'[n] \in {0, 1}
        BY <2>1, <2>2, <2>3, <3>2, <1>T DEF h
      <4>2. \A c \in Batch : ~(copier[c] = "run" /\ In(in[c], n))
        BY <2>2, <3>0, <3>2 DEF PlaceAt
      <4>3. /\ handled'[n] <= 1 /\ ~In(replies', n) /\ n \in answered'
            /\ n \in answered' => asked'[n] > 0
        BY <4>1, <2>1, <2>2, <2>3, <3>0, <3>2 DEF PlaceAt
      <4> QED BY <4>2, <4>3, <2>1 DEF PlaceAt
    <3> QED BY <3>1, <3>2
  <2> QED BY <2>1, <2>2, <2>4, <1>0 DEF OnePlace, PlaceAt
<1>2. ASSUME NEW b \in Batch, Copy(b) PROVE OnePlace'
  <2>1. /\ copier[b] = "run" /\ in[b] # <<>> /\ replies' = Append(replies, Head(in[b]))
        /\ in' = [in EXCEPT ![b] = Tail(in[b])] /\ UNCHANGED <<copier, asked, answered, handled>>
    BY <1>2 DEF Copy, nodes, stats
  <2> DEFINE h == Head(in[b])
             t == Tail(in[b])
  <2>2. /\ In(in[b], h) /\ h \in Node
        /\ \A n : In(t, n) => In(in[b], n)
        /\ Once(t) /\ ~In(t, h)
    BY <2>1, <1>0, <1>T, Taken
  <2>3. handled[h] = 0 /\ h \in answered /\ ~In(replies, h)
    BY <2>1, <2>2, <1>0 DEF PlaceAt
  <2> HIDE DEF h, t
  <2>4. /\ \A n : In(replies', n) <=> In(replies, n) \/ n = h
        /\ Once(replies')
    BY <2>1, <2>2, <2>3, <1>0, <1>T, Added DEF h
  <2>5. /\ in'[b] = t /\ \A c \in Batch : c # b => in'[c] = in[c]
        /\ \A c \in Batch : copier[c] = "run" => c = b
    BY <2>1, <1>T DEF t, Flow, OneCopier
  <2>6. ASSUME NEW n \in Node PROVE PlaceAt(n)'
    <3>0. PlaceAt(n)
      BY <1>0
    <3>1. \A c \in Batch : In(in'[c], n) => In(in[c], n)
      BY <2>2, <2>5
    <3>2. CASE n # h
      BY <2>1, <2>4, <3>0, <3>1, <3>2 DEF PlaceAt
    <3>3. CASE n = h
      BY <2>1, <2>2, <2>3, <2>4, <2>5, <3>0, <3>1, <3>3 DEF PlaceAt
    <3> QED BY <3>2, <3>3
  <2>7. \A c \in Batch : Once(in'[c])
    BY <2>2, <2>5, <1>0
  <2> QED BY <2>4, <2>6, <2>7 DEF OnePlace, PlaceAt
<1>3. ASSUME NEW m \in Node, Reply(m) PROVE OnePlace'
  <2>1. /\ asked[m] > 0 /\ m \notin answered /\ answered' = answered \cup {m}
        /\ \A c \in Batch : in'[c] = Append(in[c], m) \/ in'[c] = in[c]
        /\ UNCHANGED <<replies, copier, asked, handled>>
    BY <1>3 DEF Reply, low, stats
  <2>2. /\ handled[m] = 0 /\ ~In(replies, m) /\ \A c \in Batch : ~In(in[c], m)
    BY <2>1, <1>0, <1>T DEF PlaceAt
  <2>3. ASSUME NEW c \in Batch
        PROVE  Once(in'[c]) /\ \A n : In(in'[c], n) => In(in[c], n) \/ n = m
    <3>1. CASE in'[c] = in[c]
      BY <3>1, <1>0
    <3>2. CASE in'[c] = Append(in[c], m)
      BY <3>2, <2>2, <1>0, <1>T, Added
    <3> QED BY <2>1, <3>1, <3>2
  <2>4. ASSUME NEW n \in Node PROVE PlaceAt(n)'
    <3>0. PlaceAt(n)
      BY <1>0
    <3>1. CASE n # m
      BY <2>1, <2>3, <3>0, <3>1 DEF PlaceAt
    <3>2. CASE n = m
      BY <2>1, <2>2, <3>0, <3>2 DEF PlaceAt
    <3> QED BY <3>1, <3>2
  <2> QED BY <2>1, <2>3, <2>4, <1>0 DEF OnePlace, PlaceAt
<1>4. ASSUME \A b \in Batch : ~Handle(b) /\ ~HandleUnreadable(b) /\ ~Copy(b),
             \A n \in Node : ~Reply(n)
      PROVE  OnePlace'
  <2>1. /\ UNCHANGED <<replies, in, handled, answered>>
        /\ \A n \in Node : asked[n] > 0 => asked'[n] > 0
        /\ \A b \in Batch : copier'[b] = "run" => copier[b] = "run" \/ in[b] = <<>>
    BY <1>4, NoReplyMoves
  <2>2. \A n : ~In(<<>>, n)
    BY DEF In
  <2>3. \A b \in Batch : \A n : copier'[b] = "run" /\ In(in'[b], n) => copier[b] = "run" /\ In(in[b], n)
    BY <2>1, <2>2
  <2>4. ASSUME NEW n \in Node PROVE PlaceAt(n)'
    <3>0. PlaceAt(n)
      BY <1>0
    <3> QED BY <2>1, <2>3, <3>0 DEF PlaceAt
  <2> QED BY <2>1, <2>4, <1>0 DEF OnePlace, PlaceAt
<1> QED BY <1>1, <1>2, <1>3, <1>4

-----------------------------------------------------------------------------
(* The statistics.                                                         *)

\* The reply that a handler counts is of a node that was asked, and is new.
LEMMA HandleEffect ==
  ASSUME TypeOK, Flow, OnePlace, NEW b \in Batch, Handle(b)
  PROVE  /\ b = batch /\ hnd[b] = "run" /\ recv[b] \notin {"none", "start"}
         /\ \E h \in Node :
              /\ asked[h] > 0 /\ handled[h] = 0
              /\ outstanding' = [outstanding EXCEPT ![b] = outstanding[b] \ {h}]
              /\ \/ unexpected' = unexpected
                 \/ h \notin outstanding[b] /\ unexpected' = [unexpected EXCEPT ![b] = unexpected[b] \cup {h}]
              /\ handled' = [handled EXCEPT ![h] = handled[h] + 1]
              /\ over' = over \/ (outstanding[b] \ {h} = {} /\ over' = over \cup {b})
              /\ late' = IF pc = "done" THEN late \cup {h} ELSE late
         /\ UNCHANGED <<pc, batch, err, timedOut, ctx, recv, hnd, noResponse, totalUnexpected>>
<1> DEFINE h == Head(replies)
<1>1. /\ replies # <<>> /\ hnd[b] = "run"
      /\ outstanding' = [outstanding EXCEPT ![b] = outstanding[b] \ {h}]
      /\ \/ unexpected' = unexpected
         \/ h \notin outstanding[b] /\ unexpected' = [unexpected EXCEPT ![b] = unexpected[b] \cup {h}]
      /\ handled' = [handled EXCEPT ![h] = handled[h] + 1]
      /\ over' = over \/ (outstanding'[b] = {} /\ over' = over \cup {b})
      /\ late' = IF pc = "done" THEN late \cup {h} ELSE late
      /\ UNCHANGED <<pc, batch, err, timedOut, ctx, recv, hnd, noResponse, totalUnexpected>>
  BY DEF Handle, RecordReceived, do
<1>2. b = batch /\ recv[b] \notin {"none", "start"}
  BY <1>1, Current
<1>3. h \in Node /\ In(replies, h)
  BY <1>1, Taken DEF TypeOK
<1>4. asked[h] > 0 /\ handled[h] = 0
  BY <1>3 DEF OnePlace
<1>5. outstanding'[b] = outstanding[b] \ {h}
  BY <1>1 DEF TypeOK
<1> HIDE DEF h
<1> QED BY <1>1, <1>2, <1>3, <1>4, <1>5

\* What the other steps leave alone.
LEMMA StatsFrame ==
  ASSUME TypeOK, [Next]_vars, \A b \in Batch : ~Handle(b)
  PROVE  /\ UNCHANGED <<outstanding, unexpected, handled, late>>
         /\ Finish \/ Abandon \/ UNCHANGED <<noResponse, totalUnexpected>>
         /\ timedOut \subseteq timedOut'
<1>1. CASE Sleep \/ Request \/ (\E k \in 0..BatchSize : Publish(k)) \/ PublishNothing \/ Finish \/ Abandon
  BY <1>1 DEF Sleep, Request, Publish, PublishNothing, Finish, Abandon, stats
<1>2. CASE \E b \in Batch : Receiver(b)
  BY <1>2 DEF Receiver, Receive, Subscribe, Ready, do, stats
<1>3. CASE Interrupt \/ CloseConnection \/ CloseNats \/ (\E n \in Node : Reply(n)) \/ UNCHANGED vars
  BY <1>3 DEF Interrupt, CloseConnection, CloseNats, Reply, vars, do, stats
<1>4. CASE \E b \in Batch : Handler(b)
  BY <1>4 DEF Handler, HandleUnreadable, HandlerEnd, do, stats
<1>5. CASE \E b \in Batch : Copier(b)
  BY <1>5 DEF Copier, Copy, CopierEnd, CopierQuit, do, stats
<1> QED BY <1>1, <1>2, <1>3, <1>4, <1>5, Steps DEF Aside

LEMMA HeardStep ==
  ASSUME TypeOK, Flow, OnePlace, Heard, [Next]_vars
  PROVE  Heard'
<1>T. /\ outstanding \in [Batch -> SUBSET Node] /\ handled \in [Node -> Nat]
      /\ \A b \in Batch : Nodes(b) \subseteq Node
  BY Partition DEF TypeOK
<1>1. ASSUME NEW b \in Batch, Handle(b) PROVE Heard'
  <2>1. PICK h \in Node :
              /\ outstanding' = [outstanding EXCEPT ![b] = outstanding[b] \ {h}]
              /\ handled' = [handled EXCEPT ![h] = handled[h] + 1]
    BY <1>1, HandleEffect
  <2>2. \A n \in Node : (handled[n] > 0 => handled'[n] > 0) /\ (n = h => handled'[n] > 0)
    BY <2>1, <1>T
  <2>3. /\ outstanding'[b] = outstanding[b] \ {h}
        /\ \A c \in Batch : c # b => outstanding'[c] = outstanding[c]
    BY <2>1, <1>T
  <2> QED BY <2>2, <2>3, <1>T DEF Heard
<1>2. ASSUME \A b \in Batch : ~Handle(b) PROVE Heard'
  BY <1>2, StatsFrame DEF Heard
<1> QED BY <1>1, <1>2

LEMMA PendingStep ==
  ASSUME TypeOK, Flow, Asked, OnePlace, Heard, [Next]_vars
  PROVE  Pending'
<1>T. batch \in Batch /\ batch \in Nat
  BY Numbers DEF TypeOK
<1>0. pc = "publish" => batch \notin over
  BY DEF Flow, Pending
<1>1. CASE Request
  <2>1. pc = "request" /\ UNCHANGED <<batch, over>>
    BY <1>1 DEF Request
  <2>2. batch \notin over
    BY <2>1, <1>T DEF Flow, Turns, Fresh
  <2> QED BY <2>1, <2>2 DEF Pending
<1>2. ASSUME NEW b \in Batch, Handle(b), pc = "publish" PROVE over' = over
  <2>1. PICK h \in Node :
              /\ asked[h] > 0
              /\ over' = over \/ outstanding[b] \ {h} = {}
    BY <1>2, HandleEffect
  <2>2. b = batch
    BY <1>2, HandleEffect
  <2>3. \A n \in Nodes(b) : asked[n] = 0
    BY <1>2, <2>2 DEF Asked
  <2>4. \A n \in Nodes(b) : n \in outstanding[b]
    <3> TAKE n \in Nodes(b)
    <3>1. n \in Node /\ ~(asked[n] > 0)
      BY <2>3, Partition
    <3>2. ~(handled[n] > 0)
      BY <3>1 DEF OnePlace
    <3> QED BY <3>2 DEF Heard
  <2>5. h \notin Nodes(b)
    BY <2>1, <2>3
  <2> QED BY <2>1, <2>4, <2>5, Partition
<1>3. ASSUME ~Request, \A b \in Batch : ~Handle(b) PROVE Pending'
  <2>1. CASE Sleep \/ PublishNothing \/ Finish \/ Abandon \/ \E k \in 0..BatchSize : Publish(k)
    <3>1. pc' # "publish"
      BY <2>1 DEF Sleep, PublishNothing, Finish, Abandon, Publish
    <3> QED BY <3>1 DEF Pending
  <2>2. CASE (\E b \in Batch : Receiver(b)) \/ Aside
    <3>1. UNCHANGED <<pc, batch>>
      BY <2>2, AsideFrame DEF Receiver, Receive, Subscribe, Ready, do
    <3>2. over' = over
      BY <2>2, <1>3 DEF Receiver, Receive, Subscribe, Ready, Aside, Interrupt, CloseConnection, CloseNats,
           Handler, HandleUnreadable, HandlerEnd, Copier, Copy, CopierEnd, CopierQuit, Reply, vars
    <3> QED BY <3>1, <3>2, <1>0 DEF Pending
  <2> QED BY <1>3, <2>1, <2>2, Steps
<1>4. ASSUME NEW b \in Batch, Handle(b) PROVE Pending'
  <2>1. UNCHANGED <<pc, batch>>
    BY <1>4, HandleEffect
  <2> QED BY <2>1, <1>0, <1>2, <1>4 DEF Pending
<1> QED BY <1>1, <1>3, <1>4

LEMMA ReasonsStep ==
  ASSUME Sleeps, TypeOK, Flow, OnePlace, Reasons, [Next]_vars
  PROVE  Reasons'
<1>T. /\ outstanding \in [Batch -> SUBSET Node] /\ hnd \in [Batch -> {"none", "run", "done"}]
      /\ recv \in [Batch -> {"none", "start", "subscribe", "ready", "done"}]
      /\ batch \in Batch /\ batch \in Nat \ {0} /\ \A b \in Batch : b \in Nat \ {0}
  BY Numbers DEF TypeOK
\* Nobody becomes outstanding again, and what was a reason remains one.
<1>M. /\ timedOut \subseteq timedOut'
      /\ \A c \in Batch : outstanding[c] = {} => outstanding'[c] = {}
  <2>1. ASSUME NEW b \in Batch, Handle(b)
        PROVE  timedOut' = timedOut /\ \E h \in Node : outstanding' = [outstanding EXCEPT ![b] = outstanding[b] \ {h}]
    BY <2>1, HandleEffect
  <2>2. CASE \A b \in Batch : ~Handle(b)
    BY <2>2, StatsFrame
  <2>3. CASE \E b \in Batch : Handle(b)
    BY <2>1, <2>3, <1>T
  <2> QED BY <2>2, <2>3
<1>E. (ctx => ctx') /\ (err => err')
  <2>1. CASE Sleep \/ Request \/ (\E k \in 0..BatchSize : Publish(k)) \/ PublishNothing \/ Finish \/ Abandon
    BY <2>1 DEF Sleep, Request, Publish, PublishNothing, Finish, Abandon
  <2>2. CASE \E b \in Batch : Receiver(b)
    BY <2>2 DEF Receiver, Receive, Subscribe, Ready, do
  <2>3. CASE Aside
    BY <2>3, AsideFrame
  <2> QED BY <2>1, <2>2, <2>3, Steps
<1>H. \A c \in Batch : hnd[c] = "done" => hnd'[c] = "done"
  <2>1. CASE Sleep \/ Request \/ (\E k \in 0..BatchSize : Publish(k)) \/ PublishNothing \/ Finish \/ Abandon
    BY <2>1 DEF Sleep, Request, Publish, PublishNothing, Finish, Abandon, low
  <2>2. ASSUME NEW b \in Batch, Receiver(b) PROVE \A c \in Batch : hnd[c] = "done" => hnd'[c] = "done"
    <3>1. CASE Receive(b)
      <4>1. recv[b] = "start" /\ hnd' = [hnd EXCEPT ![b] = "run"]
        BY <3>1 DEF Receive
      <4>2. hnd[b] = "none"
        BY <4>1 DEF Flow, Fresh
      <4> QED BY <4>1, <4>2, <1>T
    <3>2. CASE Subscribe(b) \/ Ready(b)
      BY <3>2 DEF Subscribe, Ready
    <3> QED BY <2>2, <3>1, <3>2 DEF Receiver
  <2>3. CASE Aside
    BY <2>3, AsideFrame
  <2> QED BY <2>1, <2>2, <2>3, Steps
<1>1. ASSUME NEW c \in Batch, hnd'[c] = "done"
      PROVE  c \in timedOut' \/ ctx' \/ err' \/ outstanding'[c] = {}
  <2>1. CASE hnd[c] = "done"
    BY <2>1, <1>M, <1>E DEF Reasons
  <2>2. CASE hnd[c] # "done"
    <3>1. HandlerEnd(c)
      <4>1. CASE Sleep \/ Request \/ (\E k \in 0..BatchSize : Publish(k)) \/ PublishNothing \/ Finish \/ Abandon
        BY <4>1, <1>1, <2>2 DEF Sleep, Request, Publish, PublishNothing, Finish, Abandon, low
      <4>2. CASE \E b \in Batch : Receiver(b)
        BY <4>2, <1>1, <2>2, <1>T DEF Receiver, Receive, Subscribe, Ready
      <4>3. CASE Interrupt \/ CloseConnection \/ CloseNats \/ (\E n \in Node : Reply(n)) \/ UNCHANGED vars
        BY <4>3, <1>1, <2>2 DEF Interrupt, CloseConnection, CloseNats, Reply, vars, low
      <4>4. CASE \E b \in Batch : Copier(b)
        BY <4>4, <1>1, <2>2 DEF Copier, Copy, CopierEnd, CopierQuit, low
      <4>5. ASSUME NEW b \in Batch, Handler(b) PROVE HandlerEnd(c)
        <5>1. CASE Handle(b) \/ HandleUnreadable(b)
          BY <5>1, <1>1, <2>2 DEF Handle, HandleUnreadable
        <5>2. CASE HandlerEnd(b)
          <6>1. b = c
            BY <5>2, <1>1, <2>2, <1>T DEF HandlerEnd
          <6> QED BY <5>2, <6>1
        <5> QED BY <4>5, <5>1, <5>2 DEF Handler
      <4> QED BY <4>1, <4>2, <4>3, <4>4, <4>5, Steps DEF Aside
    <3>2. c \in timedOut' \/ Ended(c)
      BY <3>1 DEF HandlerEnd
    <3> QED BY <2>2, <3>2, <1>E, <1>M DEF Ended, Reasons
  <2> QED BY <2>1, <2>2
<1>2. ASSUME NEW c \in Batch, c \in over'
      PROVE  hnd'[c] = "done" \/ err' \/ outstanding'[c] = {}
  <2>1. CASE c \in over
    BY <2>1, <1>H, <1>E, <1>M DEF Reasons
  <2>2. CASE c \notin over
    <3>1. CASE Sleep \/ Request \/ PublishNothing
      BY <3>1, <1>2, <2>2 DEF Sleep, Request, PublishNothing
    <3>2. CASE \E k \in 0..BatchSize : Publish(k)
      BY <3>2, <1>2, <2>2 DEF Publish
    <3>3. CASE Finish \/ Abandon
      BY <3>3, <1>2, <2>2, <1>H DEF Finish, Abandon
    <3>4. CASE \E b \in Batch : Receiver(b)
      BY <3>4, <1>2, <2>2 DEF Receiver, Receive, Subscribe, Ready
    <3>5. CASE Interrupt \/ CloseConnection \/ CloseNats \/ (\E n \in Node : Reply(n)) \/ UNCHANGED vars
      BY <3>5, <1>2, <2>2 DEF Interrupt, CloseConnection, CloseNats, Reply, vars
    <3>6. CASE \E b \in Batch : Copier(b) \/ HandleUnreadable(b) \/ HandlerEnd(b)
      BY <3>6, <1>2, <2>2 DEF Copier, Copy, CopierEnd, CopierQuit, HandleUnreadable, HandlerEnd
    <3>7. ASSUME NEW b \in Batch, Handle(b) PROVE outstanding'[c] = {}
      <4>1. PICK h \in Node :
              /\ outstanding' = [outstanding EXCEPT ![b] = outstanding[b] \ {h}]
              /\ over' = over \/ (outstanding[b] \ {h} = {} /\ over' = over \cup {b})
        BY <3>7, HandleEffect
      <4> QED BY <4>1, <1>2, <2>2, <1>T
    <3> QED BY <3>1, <3>2, <3>3, <3>4, <3>5, <3>6, <3>7, Steps DEF Aside, Handler
  <2> QED BY <2>1, <2>2
<1>3. ASSUME pc' = "request" \/ recv'[batch'] # "none" \/ (~ctx' /\ ~err'),
             NEW c \in Batch, c < batch'
      PROVE  c \in timedOut' \/ outstanding'[c] = {}
  <2>0. ASSUME pc = "request" \/ recv[batch] # "none" \/ (~ctx /\ ~err), c < batch
        PROVE  c \in timedOut' \/ outstanding'[c] = {}
    BY <2>0, <1>M DEF Reasons
  <2>1. CASE Sleep
    <3>1. /\ pc = "sleep" /\ UNCHANGED <<batch, recv, ctx>>
          /\ (pc' = "request" /\ err' = err /\ (batch = 1 \/ ~ctx)) \/ (pc' = "done" /\ err')
      BY <2>1 DEF Sleep, low
    <3>2. ~err /\ recv[batch] = "none"
      BY <3>1, <1>T DEF Flow, Place, Turns
    <3>3. c < batch /\ batch # 1
      BY <3>1, <1>3, <1>T
    <3>4. recv'[batch'] = "none"
      BY <3>1, <3>2
    <3>5. ~err'
      BY <3>1, <3>2, <3>4, <1>3
    <3>6. ~ctx
      BY <3>1, <3>3, <3>5
    <3> QED BY <2>0, <3>2, <3>3, <3>6
  <2>2. CASE Request
    BY <2>2, <2>0, <1>3 DEF Request
  <2>3. ASSUME Abandon \/ \E k \in 0..BatchSize : Publish(k) PROVE c \in timedOut' \/ outstanding'[c] = {}
    <3>1. recv[batch] = "done" /\ batch' = batch
      BY <2>3, AtPublish DEF Publish, Abandon, Flow, Place
    <3> QED BY <3>1, <2>0, <1>3
  <2>4. CASE PublishNothing
    <3>1. pc' = "wait" /\ UNCHANGED <<batch, recv, ctx, err>>
      BY <2>4 DEF PublishNothing, low
    <3> QED BY <3>1, <2>0, <1>3
  <2>5. CASE Finish
    <3>1. /\ recv[batch] = "done" /\ hnd[batch] = "done" /\ UNCHANGED <<recv, ctx, err>> /\ pc' # "request"
          /\ batch' = batch \/ (batch' = batch + 1 /\ batch < Len(Groups))
      BY <2>5 DEF Finish, low
    <3>2. CASE c < batch
      BY <3>1, <3>2, <2>0
    <3>3. CASE ~(c < batch)
      <4>1. c = batch /\ batch' = batch + 1 /\ batch < Len(Groups)
        BY <3>1, <3>3, <1>3, <1>T
      <4>2. batch + 1 \in Batch /\ batch + 1 > batch
        BY <4>1, <1>T, Numbers
      <4>3. recv'[batch'] = "none"
        BY <3>1, <4>1, <4>2 DEF Flow, Turns
      <4>4. ~ctx /\ ~err
        BY <3>1, <4>3, <1>3
      <4> QED BY <3>1, <4>1, <4>4, <1>M DEF Reasons
    <3> QED BY <3>2, <3>3
  <2>6. ASSUME NEW b \in Batch, Receiver(b) PROVE c \in timedOut' \/ outstanding'[c] = {}
    <3>1. recv[b] \in {"start", "subscribe", "ready"} /\ batch' = batch
      BY <2>6 DEF Receiver, Receive, Subscribe, Ready, do
    <3>2. b = batch
      BY <3>1, Current
    <3> QED BY <3>1, <3>2, <2>0, <1>3
  <2>7. CASE Aside
    <3>1. UNCHANGED <<pc, batch, err, recv>> /\ (ctx => ctx')
      BY <2>7, AsideFrame
    <3> QED BY <3>1, <2>0, <1>3
  <2> QED BY <2>1, <2>2, <2>3, <2>4, <2>5, <2>6, <2>7, Steps
<1> QED BY <1>1, <1>2, <1>3 DEF Reasons

\* A node that is late remains so: its own batch is over.
LEMMA LateStep ==
  ASSUME TypeOK, Flow, OnePlace, [Next]_vars, NEW n, NEW b \in Batch, b <= batch, Late(n, b)
  PROVE  \E c \in Batch : c < b /\ c \in timedOut' /\ n \in Nodes(c) /\ n \in outstanding'[c]
<1>1. PICK c \in Batch : c < b /\ c \in timedOut /\ n \in Nodes(c) /\ n \in outstanding[c]
  BY DEF Late
<1>2. c < batch
  BY <1>1, Numbers DEF TypeOK
<1>3. c \in timedOut' /\ outstanding'[c] = outstanding[c]
  <2>1. CASE \A d \in Batch : ~Handle(d)
    BY <2>1, <1>1, StatsFrame
  <2>2. ASSUME NEW d \in Batch, Handle(d) PROVE c \in timedOut' /\ outstanding'[c] = outstanding[c]
    <3>1. d = batch /\ timedOut' = timedOut
      BY <2>2, HandleEffect
    <3>2. \E h \in Node : outstanding' = [outstanding EXCEPT ![d] = outstanding[d] \ {h}]
      BY <2>2, HandleEffect
    <3>3. c # d
      BY <3>1, <1>2, Numbers DEF TypeOK
    <3>4. outstanding'[c] = outstanding[c]
      BY <3>2, <3>3 DEF TypeOK
    <3> QED BY <3>1, <3>4, <1>1
  <2> QED BY <2>1, <2>2
<1> QED BY <1>1, <1>3

LEMMA UnexpectedStep ==
  ASSUME TypeOK, Flow, Asked, OnePlace, Heard, Reasons, Unexpected, [Next]_vars
  PROVE  Unexpected'
<1>T. /\ unexpected \in [Batch -> SUBSET Node] /\ outstanding \in [Batch -> SUBSET Node]
      /\ batch \in Batch /\ batch \in Nat /\ \A b \in Batch : b \in Nat
  BY Numbers DEF TypeOK
<1>0. ASSUME NEW b \in Batch, NEW n \in unexpected[b] PROVE Late(n, b)'
  <2>1. recv[b] # "none"
    BY <1>0 DEF Flow, Fresh
  <2>2. b <= batch
    BY <2>1, <1>T DEF Flow, Turns
  <2>3. Late(n, b)
    BY DEF Unexpected
  <2> QED BY <2>2, <2>3, LateStep DEF Late
<1>1. ASSUME NEW n \in totalUnexpected \cup unexpected[batch] PROVE Late(n, batch)'
  <2>1. Late(n, batch)
    BY <1>1, <1>T DEF Unexpected
  <2>2. \E c \in Batch : c < batch /\ c \in timedOut' /\ n \in Nodes(c) /\ n \in outstanding'[c]
    BY <2>1, <1>T, LateStep
  <2>3. batch' = batch \/ batch' = batch + 1
    <3>1. CASE Sleep \/ Request \/ (\E k \in 0..BatchSize : Publish(k)) \/ PublishNothing \/ Finish \/ Abandon
      BY <3>1 DEF Sleep, Request, Publish, PublishNothing, Finish, Abandon
    <3>2. CASE \E b \in Batch : Receiver(b)
      BY <3>2 DEF Receiver, Receive, Subscribe, Ready, do
    <3>3. CASE Aside
      BY <3>3, AsideFrame
    <3> QED BY <3>1, <3>2, <3>3, Steps
  <2> QED BY <2>2, <2>3, <1>T DEF Late
<1>2. ASSUME NEW b \in Batch, Handle(b) PROVE Unexpected'
  <2>1. PICK h \in Node :
          /\ asked[h] > 0 /\ handled[h] = 0
          /\ \/ unexpected' = unexpected
             \/ h \notin outstanding[b] /\ unexpected' = [unexpected EXCEPT ![b] = unexpected[b] \cup {h}]
    BY <1>2, HandleEffect
  <2>2. b = batch /\ recv[b] # "none" /\ totalUnexpected' = totalUnexpected /\ batch' = batch
    BY <1>2, HandleEffect
  <2>3. ASSUME h \notin outstanding[b] PROVE Late(h, b)
    <3>1. PICK c \in Batch : h \in Nodes(c)
      BY Partition
    <3>2. h \in outstanding[c]
      BY <2>1, <3>1 DEF Heard
    <3>3. c # b
      BY <2>3, <3>2
    <3>4. ~(c > batch)
      BY <2>1, <3>1 DEF Asked
    <3>5. c < batch
      BY <3>3, <3>4, <2>2, <1>T
    <3>6. c \in timedOut
      BY <3>2, <3>5, <2>2 DEF Reasons
    <3> QED BY <3>1, <3>2, <3>5, <3>6, <2>2 DEF Late
  <2>4. ASSUME NEW c \in Batch, NEW n \in unexpected'[c] PROVE Late(n, c)'
    <3>1. CASE n \in unexpected[c]
      BY <3>1, <1>0
    <3>2. CASE n \notin unexpected[c]
      <4>1. c = b /\ n = h /\ h \notin outstanding[b]
        BY <2>1, <2>4, <3>2, <1>T
      <4>2. Late(n, b) /\ b <= batch
        BY <4>1, <2>2, <2>3, <1>T
      <4> QED BY <4>1, <4>2, LateStep DEF Late
    <3> QED BY <3>1, <3>2
  <2>5. \A n \in totalUnexpected' : Late(n, batch)'
    BY <2>2, <1>1
  <2> QED BY <2>4, <2>5 DEF Unexpected
<1>3. ASSUME \A b \in Batch : ~Handle(b) PROVE Unexpected'
  <2>1. unexpected' = unexpected /\ (Finish \/ Abandon \/ totalUnexpected' = totalUnexpected)
    BY <1>3, StatsFrame
  <2>2. totalUnexpected' \subseteq totalUnexpected \cup unexpected[batch]
    BY <2>1 DEF Finish, Abandon, Merge
  <2>3. \A n \in totalUnexpected' : Late(n, batch)'
    BY <2>2, <1>1
  <2>4. \A c \in Batch : \A n \in unexpected'[c] : Late(n, c)'
    BY <2>1, <1>0
  <2> QED BY <2>3, <2>4 DEF Unexpected
<1> QED BY <1>2, <1>3

LEMMA TotalsStep ==
  ASSUME TypeOK, Flow, OnePlace, Heard, Totals, [Next]_vars
  PROVE  Totals'
<1>T. /\ outstanding \in [Batch -> SUBSET Node]
      /\ batch \in Batch /\ batch \in Nat
  BY Numbers DEF TypeOK
\* Nothing is counted after Do() returned without an error.
<1>L. late' # {} => pc' = "done" /\ err'
  <2>1. ASSUME NEW b \in Batch, Handle(b) PROVE late' # {} => pc' = "done" /\ err'
    <3>1. b = batch /\ hnd[b] = "run" /\ UNCHANGED <<pc, err>> /\ (pc # "done" => late' = late)
      BY <2>1, HandleEffect
    <3>2. pc = "done" => err
      BY <3>1 DEF Flow, Place
    <3> QED BY <3>1, <3>2 DEF Totals
  <2>2. ASSUME \A b \in Batch : ~Handle(b) PROVE late' # {} => pc' = "done" /\ err'
    <3>1. late' = late
      BY <2>2, StatsFrame
    <3>2. CASE late = {}
      BY <3>1, <3>2
    <3>3. CASE late # {}
      <4>1. pc = "done" /\ err
        BY <3>3 DEF Totals
      <4>2. CASE Sleep \/ Request \/ (\E k \in 0..BatchSize : Publish(k)) \/ PublishNothing \/ Finish \/ Abandon
        BY <4>1, <4>2 DEF Sleep, Request, Publish, PublishNothing, Finish, Abandon
      <4>3. CASE (\E b \in Batch : Receiver(b)) \/ Aside
        BY <4>1, <4>3, AsideFrame DEF Receiver, Receive, Subscribe, Ready, do
      <4> QED BY <4>2, <4>3, Steps
    <3> QED BY <3>2, <3>3
  <2> QED BY <2>1, <2>2
<1> SUFFICES ASSUME NEW c \in Batch, NEW n \in Nodes(c)
             PROVE  n \in noResponse' <=> (n \in outstanding'[c] \/ ~Merged(c)' \/ n \in late')
  BY <1>L DEF Totals
<1>N. c \in Nat /\ n \in Node
  BY Numbers, Partition
<1>0. n \in noResponse <=> (n \in outstanding[c] \/ ~Merged(c) \/ n \in late)
  BY DEF Totals
<1>1. CASE Finish \/ Abandon
  <2>1. /\ pc # "done" /\ noResponse' = noResponse \ (Nodes(batch) \ outstanding[batch])
        /\ UNCHANGED <<outstanding, late>>
        /\ \/ pc' = "sleep" /\ batch' = batch + 1
           \/ pc' = "done" /\ batch' = batch
    BY <1>1 DEF Finish, Abandon, Merge
  <2>2. late = {}
    BY <2>1 DEF Totals
  <2>3. CASE c = batch
    <3>1. ~Merged(c) /\ Merged(c)'
      BY <2>1, <2>3, <1>T DEF Merged
    <3> QED BY <2>1, <2>2, <2>3, <3>1, <1>0
  <2>4. CASE c # batch
    <3>1. n \notin Nodes(batch)
      BY <2>4, <1>T, Partition
    <3>2. Merged(c)' <=> Merged(c)
      BY <2>1, <2>4, <1>T, <1>N DEF Merged
    <3> QED BY <2>1, <3>1, <3>2, <1>0
  <2> QED BY <2>3, <2>4
<1>2. ASSUME NEW b \in Batch, Handle(b)
      PROVE  n \in noResponse' <=> (n \in outstanding'[c] \/ ~Merged(c)' \/ n \in late')
  <2>1. b = batch /\ UNCHANGED <<pc, batch, err, noResponse>>
    BY <1>2, HandleEffect
  <2>2. PICK h \in Node : /\ outstanding' = [outstanding EXCEPT ![b] = outstanding[b] \ {h}]
                          /\ handled[h] = 0
                          /\ late' = IF pc = "done" THEN late \cup {h} ELSE late
    BY <1>2, HandleEffect
  <2>3. Merged(c)' <=> Merged(c)
    BY <2>1 DEF Merged
  <2>4. n = h => n \in outstanding[c]
    BY <2>2 DEF Heard
  <2>5. n # h => (n \in outstanding'[c] <=> n \in outstanding[c]) /\ (n \in late' <=> n \in late)
    BY <2>2, <1>T
  <2>6. CASE n # h
    BY <2>1, <2>3, <2>5, <2>6, <1>0
  <2>7. CASE n = h /\ pc = "done"
    BY <2>1, <2>2, <2>4, <2>7, <1>0
  <2>8. CASE n = h /\ pc # "done"
    <3>1. CASE c = batch
      BY <2>1, <2>3, <2>4, <2>8, <3>1, <1>0, <1>T DEF Merged
    <3>2. CASE c # batch
      <4>1. outstanding'[c] = outstanding[c]
        BY <2>1, <2>2, <3>2, <1>T
      <4> QED BY <4>1, <2>1, <2>2, <2>3, <2>8, <1>0
    <3> QED BY <3>1, <3>2
  <2> QED BY <2>6, <2>7, <2>8
<1>3. ASSUME ~Finish, ~Abandon, \A b \in Batch : ~Handle(b)
      PROVE  n \in noResponse' <=> (n \in outstanding'[c] \/ ~Merged(c)' \/ n \in late')
  <2>1. UNCHANGED <<outstanding, noResponse, late>>
    BY <1>3, StatsFrame
  <2>2. CASE Request \/ PublishNothing \/ \E k \in 0..BatchSize : Publish(k)
    <3>1. batch' = batch /\ pc # "done" /\ pc' # "done"
      BY <2>2 DEF Request, PublishNothing, Publish
    <3>2. Merged(c)' <=> Merged(c)
      BY <3>1 DEF Merged
    <3> QED BY <2>1, <3>2, <1>0
  <2>3. CASE (\E b \in Batch : Receiver(b)) \/ Aside
    <3>1. UNCHANGED <<pc, batch>>
      BY <2>3, AsideFrame DEF Receiver, Receive, Subscribe, Ready, do
    <3>2. Merged(c)' <=> Merged(c)
      BY <3>1 DEF Merged
    <3> QED BY <2>1, <3>2, <1>0
  <2>4. CASE Sleep
    <3>1. batch' = batch /\ pc = "sleep"
      BY <2>4 DEF Sleep
    <3>2. CASE c = batch
      <4>1. recv[c] = "none"
        BY <3>1, <3>2, <1>T DEF Flow, Turns
      <4>2. n \in outstanding[c]
        BY <4>1 DEF Flow, Fresh
      <4> QED BY <4>2, <2>1, <1>0
    <3>3. CASE c # batch
      <4>1. Merged(c)' <=> Merged(c)
        BY <3>1, <3>3 DEF Merged
      <4> QED BY <4>1, <2>1, <1>0
    <3> QED BY <3>2, <3>3
  <2> QED BY <1>3, <2>2, <2>3, <2>4, Steps
<1> QED BY <1>1, <1>2, <1>3

-----------------------------------------------------------------------------
(* The theorems.                                                           *)

LEMMA InvInit == Init => Inv
<1> SUFFICES ASSUME Init PROVE Inv
  OBVIOUS
<1>1. TypeOK
  BY TypeInit
<1>2. /\ pc = "sleep" /\ batch = 1 /\ ~err /\ over = {} /\ timedOut = {} /\ receiverReady = 0
      /\ entry = {} /\ live = {} /\ quit = {} /\ link = "open" /\ replies = <<>> /\ answered = {}
      /\ totalUnexpected = {} /\ noResponse = Node /\ late = {}
  BY DEF Init
<1>3. \A b \in Batch : /\ recv[b] = "none" /\ hnd[b] = "none" /\ copier[b] = "none" /\ in[b] = <<>>
                       /\ outstanding[b] = Nodes(b) /\ unexpected[b] = {}
  BY DEF Init
<1>4. \A n \in Node : asked[n] = 0 /\ handled[n] = 0
  BY DEF Init
<1>5. batch \in Batch /\ \A b \in Batch : ~(b < batch)
  BY <1>1, <1>2, Numbers DEF TypeOK
<1> HIDE DEF Init
<1>6. Fresh /\ OneCopier
  BY <1>2, <1>3, <1>5 DEF Fresh, OneCopier
<1>7. Turns
  BY <1>2, <1>3, <1>5 DEF Turns
<1>8. Token /\ Pending /\ Place /\ Kept
  BY <1>2, <1>3 DEF Token, Pending, Place, Kept
<1>9. Asked
  <2>1. ASSUME NEW b \in Batch, NEW n \in Nodes(b) PROVE asked[n] = 0
    BY <1>4, Partition
  <2> QED BY <2>1, <1>2, <1>5 DEF Asked
<1>10. OnePlace
  <2>1. DOMAIN <<>> = {}
    OBVIOUS
  <2> QED BY <1>2, <1>3, <1>4, <2>1 DEF OnePlace, In, Once
<1>11. Heard /\ Reasons
  BY <1>2, <1>3, <1>5 DEF Heard, Reasons
<1>12. Unexpected
  BY <1>2, <1>3 DEF Unexpected
<1>13. Totals
  BY <1>2, <1>3, Partition DEF Totals
<1> QED BY <1>1, <1>6, <1>7, <1>8, <1>9, <1>10, <1>11, <1>12, <1>13 DEF Inv, Flow

LEMMA InvStep ==
  ASSUME Sleeps
  PROVE  Inv /\ [Next]_vars => Inv'
<1> SUFFICES ASSUME Inv, [Next]_vars PROVE Inv'
  OBVIOUS
<1>1. TypeOK /\ Flow /\ Asked /\ OnePlace /\ Heard /\ Reasons /\ Unexpected /\ Totals
  BY DEF Inv
<1>2. TypeOK' /\ Fresh' /\ Turns'
  BY <1>1, TypeStep, FreshStep, TurnsStep
<1>3. OneCopier' /\ Token' /\ Place' /\ Kept'
  BY <1>1, OneCopierStep, TokenStep, PlaceStep, KeptStep
<1>4. Pending' /\ Asked' /\ OnePlace' /\ Heard'
  BY <1>1, PendingStep, AskedStep, OnePlaceStep, HeardStep
<1>5. Reasons' /\ Unexpected' /\ Totals'
  BY <1>1, ReasonsStep, UnexpectedStep, TotalsStep
<1> QED BY <1>2, <1>3, <1>4, <1>5 DEF Inv, Flow

LEMMA Invariance ==
  ASSUME Sleeps
  PROVE  Spec => []Inv
BY InvInit, InvStep, PTL DEF Spec

\* The state of the request, of the low level client and of the connection is of
\* its type whether or not Do() sleeps between the batches.
THEOREM TypeCorrect == Spec => []TypeOK
BY TypeInit, TypeStep, PTL DEF Spec

\* When the sleep between batches outlasts the copier of the batch before, no
\* batch of Do() is deaf: QueueSubscribe() and Unsubscribe() of different batches
\* use one name, and still the subscription of a batch that goes on is known to
\* the broker from the moment it is published.
THEOREM NoBatchIsDeaf ==
  ASSUME Sleeps
  PROVE  Spec => []Listening
<1>1. Inv => Listening
  <2> SUFFICES ASSUME Inv, NEW b \in Batch, b = batch, pc = "wait", hnd[b] = "run", ~Ended(b)
               PROVE  b \in live
    BY DEF Listening
  <2>1. ~ctx /\ b \notin over
    BY DEF Ended
  <2>2. recv[b] = "done"
    BY <2>1 DEF Inv, Flow, Place
  <2> QED BY <2>1, <2>2 DEF Inv, Flow, Kept
<1> QED BY <1>1, Invariance, PTL

\* With the same sleep, whatever times out, fails or is interrupted: every
\* target is asked at most once and its reply counted at most once, all are asked by
\* a request without error or interrupt, the nodes Do() tells of as not
\* responding are those that were not heard of in their own batch when it
\* returned, also where publishing failed after some were asked, a reply is counted
\* later only after an error, and unexpected responses are late ones of such nodes.
THEOREM StatisticsAreTrue ==
  ASSUME Sleeps
  PROVE  Spec => []StatsAgree
<1>1. Inv => AskedOnce
  <2> SUFFICES ASSUME Inv, NEW n \in Node
               PROVE  asked[n] <= 1 /\ (pc = "done" /\ ~err /\ ~ctx => asked[n] = 1)
    BY DEF AskedOnce
  <2>1. PICK b \in Batch : n \in Nodes(b)
    BY Partition
  <2>2. pc = "done" /\ ~err => b < batch \/ b = batch
    BY Numbers DEF Inv, Flow, Place, TypeOK
  <2> QED BY <2>1, <2>2 DEF Inv, Asked
<1>2. Inv => CountedOnce
  BY DEF Inv, OnePlace, CountedOnce
<1>3. Inv => NobodyMissed
  <2> SUFFICES ASSUME Inv PROVE NobodyMissed
    OBVIOUS
  <2>1. \A b \in Batch : hnd[b] = "done" /\ b \notin timedOut /\ ~ctx /\ ~err => outstanding[b] = {}
    BY DEF Inv, Reasons
  <2>2. ASSUME pc = "done", NEW b \in Batch, NEW n \in Nodes(b)
        PROVE  n \in noResponse <=> n \in outstanding[b] \/ n \in late
    <3>0. b \in Nat /\ batch \in Nat
      BY Numbers DEF Inv, TypeOK
    <3>1. n \in noResponse <=> (n \in outstanding[b] \/ ~Merged(b) \/ n \in late)
      BY DEF Inv, Totals
    <3>2. CASE b < batch
      BY <3>0, <3>1, <3>2 DEF Merged
    <3>3. CASE b = batch
      BY <2>2, <3>0, <3>1, <3>3 DEF Merged
    <3>4. CASE b > batch
      <4>1. recv[b] = "none"
        BY <3>4 DEF Inv, Flow, Turns
      <4>2. n \in outstanding[b]
        BY <4>1 DEF Inv, Flow, Fresh
      <4> QED BY <3>1, <4>2
    <3> QED BY <3>0, <3>2, <3>3, <3>4
  <2>3. late # {} => pc = "done" /\ err
    BY DEF Inv, Totals
  <2> QED BY <2>1, <2>2, <2>3 DEF NobodyMissed
<1>4. Inv => UnexpectedIsLate
  <2> SUFFICES ASSUME Inv, NEW n \in totalUnexpected
               PROVE  n \in noResponse /\ \E b \in timedOut : n \in Nodes(b)
    BY DEF UnexpectedIsLate
  <2>1. PICK c \in Batch : c \in timedOut /\ n \in Nodes(c) /\ n \in outstanding[c]
    BY DEF Inv, Unexpected, Late
  <2> QED BY <2>1 DEF Inv, Totals
<1> QED BY <1>1, <1>2, <1>3, <1>4, Invariance, PTL DEF StatsAgree
=============================================================================
