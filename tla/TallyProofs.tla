---------------------------- MODULE TallyProofs -----------------------------
(***************************************************************************)
(* Proofs about Tally, for any finite set of hosts, any versions and any   *)
(* number of changes, faults and callbacks: the gauges count what was      *)
(* observed, what was observed is what runs once things are quiet, and one *)
(* lost event does not make the recorder forget a running server.          *)
(***************************************************************************)
EXTENDS Tally, FiniteSetTheorems, SequenceTheorems, TLAPS

\* A process that runs has a version.
Versioned == \A h \in Host : server[h].status # "down" => server[h].version \in Version

\* Without an election the label is 1.
Labelled == ~elected => active = 1

TypeInv == TypeOK /\ Versioned /\ Labelled

\* In quiet time there is nothing under way but the alive event a server
\* published in this unit.
QuietNet ==
  quiet > 0 =>
    \A h \in Host :
      /\ server[h].status # "closing"
      /\ net[h] # <<>> => server[h].status = "up" /\ server[h].next = AliveInterval
      /\ \A i \in DOMAIN net[h] : /\ net[h][i].type = "alive" /\ ~net[h][i].old
                                  /\ net[h][i].version = server[h].version

\* Its version is counted and the record is no older than an alive interval.
Counted(h) == observed[h].version = server[h].version /\ observed[h].age <= AliveInterval

\* In quiet time the next alive event of a server that runs is to come within an
\* alive interval of the last change, is under way, or follows one that was counted.
Announced ==
  \A h \in Host : server[h].status = "up" /\ quiet > 0 =>
    \/ server[h].next + quiet <= AliveInterval
    \/ net[h] # <<>> /\ (quiet <= AliveInterval \/ Counted(h))
    \/ Counted(h) /\ observed[h].age + server[h].next <= AliveInterval

\* Of a server that ended there is no record younger than the quiet time.
Silent ==
  \A h \in Host :
    server[h].status = "down" /\ observed[h].version # None =>
      /\ observed[h].age >= quiet
      /\ maintained => quiet <= Expire

\* An event of the running process is under way.
Coming(h) == \E i \in DOMAIN net[h] : ~net[h][i].old

\* How old the record of a server can be that was heard of: k alive intervals,
\* of which the time to the next alive event is a part.
Within(h, k) ==
  /\ observed[h].age <= k * AliveInterval
  /\ ~Coming(h) => observed[h].age + server[h].next <= k * AliveInterval

\* Every loss adds an alive interval.
Recent ==
  \A h \in Host :
    server[h].status = "up" /\ h \in heard /\ observed[h].version # None =>
      /\ lost[h] = 0 => Within(h, 1)
      /\ lost[h] = 1 => Within(h, 2)

Inv == TypeInv /\ NetTally /\ QuietNet /\ Announced /\ Silent /\ Recent

-----------------------------------------------------------------------------
(* The events under way.                                                   *)

LEMMA Part ==
  ASSUME NEW s, NEW m \in Nat, NEW n \in Nat, m >= 1, m <= n + 1, \A k \in m..n : s[k] \in Event
  PROVE  /\ SubSeq(s, m, n) \in Seq(Event)
         /\ Len(SubSeq(s, m, n)) = n - m + 1
         /\ \A k \in 1..n-m+1 : SubSeq(s, m, n)[k] = s[m+k-1]
<1>1. m \in Int /\ n \in Int
  OBVIOUS
<1>2. /\ SubSeq(s, m, n) \in Seq(Event)
      /\ Len(SubSeq(s, m, n)) = IF m <= n THEN n-m+1 ELSE 0
      /\ \A k \in 1..n-m+1 : SubSeq(s, m, n)[k] = s[m+k-1]
  <2>1. SubSeq(s, m, n) \in Seq(Event)
    BY <1>1, SubSeqProperties
  <2>2. Len(SubSeq(s, m, n)) = IF m <= n THEN n-m+1 ELSE 0
    BY <1>1, SubSeqProperties
  <2>3. \A k \in 1..n-m+1 : SubSeq(s, m, n)[k] = s[m+k-1]
    BY <1>1, SubSeqProperties
  <2> QED BY <2>1, <2>2, <2>3
<1> QED BY <1>2

\* What is left after an event was taken are events that were under way.
LEMMA Removed ==
  ASSUME NEW s \in Seq(Event), NEW i \in DOMAIN s
  PROVE  /\ RemoveAt(s, i) \in Seq(Event)
         /\ \A j \in DOMAIN RemoveAt(s, i) :
              \E k \in DOMAIN s : RemoveAt(s, i)[j] = s[k]
<1> DEFINE a == SubSeq(s, 1, i-1)
           b == SubSeq(s, i+1, Len(s))
<1>1. i \in 1..Len(s) /\ Len(s) \in Nat /\ DOMAIN s = 1..Len(s)
  BY LenProperties
<1>2. \A k \in 1..Len(s) : s[k] \in Event
  BY LenProperties
<1>3. /\ a \in Seq(Event) /\ Len(a) = i - 1
      /\ \A j \in 1..i-1 : a[j] = s[j]
  <2> DEFINE n == i - 1
  <2>1. 1 \in Nat /\ n \in Nat /\ 1 >= 1 /\ 1 <= n + 1 /\ \A k \in 1..n : s[k] \in Event
    BY <1>1, <1>2
  <2> HIDE DEF n
  <2> HIDE DEF a
  <2>2. a = SubSeq(s, 1, n)
    BY DEF a, n
  <2>3. /\ a \in Seq(Event) /\ Len(a) = n-1+1
        /\ \A j \in 1..n-1+1 : a[j] = s[1+j-1]
    BY <2>1, <2>2, Part, Zenon
  <2> QED BY <1>1, <2>3 DEF n
<1>4. /\ b \in Seq(Event) /\ Len(b) = Len(s) - i
      /\ \A j \in 1..Len(s)-i : b[j] = s[i+j]
  <2> DEFINE m == i + 1
             n == Len(s)
  <2>1. m \in Nat /\ n \in Nat /\ m >= 1 /\ m <= n + 1 /\ \A k \in m..n : s[k] \in Event
    BY <1>1, <1>2
  <2> HIDE DEF m, n
  <2> HIDE DEF b
  <2>2. b = SubSeq(s, m, n)
    BY DEF b, m, n
  <2>3. /\ b \in Seq(Event) /\ Len(b) = n-m+1
        /\ \A j \in 1..n-m+1 : b[j] = s[m+j-1]
    BY <2>1, <2>2, Part, Zenon
  <2> QED BY <1>1, <2>3 DEF m, n
<1>5. RemoveAt(s, i) = a \o b
  BY DEF RemoveAt
<1> DEFINE r == a \o b
<1> HIDE DEF a, b, r
<1>6. /\ r \in Seq(Event) /\ Len(r) = Len(a) + Len(b)
      /\ \A j \in 1..Len(a) + Len(b) : r[j] = IF j <= Len(a) THEN a[j] ELSE b[j - Len(a)]
  BY <1>3, <1>4, ConcatProperties, Zenon DEF r
<1>7. DOMAIN r = 1..Len(s)-1
  BY <1>1, <1>3, <1>4, <1>6, LenProperties
<1>8. ASSUME NEW j \in DOMAIN r PROVE \E k \in DOMAIN s : r[j] = s[k]
  <2>1. CASE j <= i - 1
    <3>1. r[j] = a[j] /\ j \in 1..i-1 /\ j \in DOMAIN s
      BY <2>1, <1>1, <1>3, <1>4, <1>6, <1>7
    <3> QED BY <3>1, <1>3
  <2>2. CASE ~(j <= i - 1)
    <3>1. j \in 1..Len(a) + Len(b) /\ ~(j <= Len(a)) /\ Len(a) = i - 1
      BY <2>2, <1>1, <1>3, <1>4, <1>7
    <3>a. r[j] = b[j - (i-1)]
      BY <3>1, <1>6
    <3>b. j - (i-1) \in 1..Len(s)-i /\ j + 1 \in DOMAIN s
      BY <2>2, <1>1, <1>7
    <3>2. b[j - (i-1)] = s[i + (j - (i-1))]
      BY <3>b, <1>4
    <3>3. i + (j - (i-1)) = j + 1
      BY <1>1, <1>7
    <3> QED BY <3>a, <3>b, <3>2, <3>3
  <2> QED BY <2>1, <2>2
<1> QED BY <1>5, <1>6, <1>8 DEF r

LEMMA Marked ==
  ASSUME NEW e \in Event
  PROVE  [e EXCEPT !.old = TRUE] \in Event
BY DEF Event

\* The events of the earlier process are marked and the startup event follows.
LEMMA Restarted ==
  ASSUME NEW s \in Seq(Event), NEW v \in Version
  PROVE  Append([i \in DOMAIN s |-> [s[i] EXCEPT !.old = TRUE]],
                [type |-> "startup", version |-> v, old |-> FALSE]) \in Seq(Event)
<1> DEFINE m == [i \in DOMAIN s |-> [s[i] EXCEPT !.old = TRUE]]
           e == [type |-> "startup", version |-> v, old |-> FALSE]
<1>1. e \in Event
  BY DEF Event
<1>2. Len(s) \in Nat /\ DOMAIN s = 1..Len(s) /\ \A i \in DOMAIN s : s[i] \in Event
  BY LenProperties
<1>3. \A i \in DOMAIN s : m[i] \in Event
  BY <1>2, Marked, Zenon
<1>4. m \in [1..Len(s) -> Event]
  <2>1. m = [i \in 1..Len(s) |-> m[i]]
    BY <1>2, Zenon
  <2> HIDE DEF m
  <2> QED BY <1>2, <1>3, <2>1
<1> HIDE DEF m, e
<1>5. m \in Seq(Event)
  BY <1>2, <1>4, SeqDef
<1>6. Append(m, e) \in Seq(Event)
  BY <1>1, <1>5, AppendProperties
<1> QED BY <1>6, Zenon DEF m, e

-----------------------------------------------------------------------------
(* The gauges.                                                             *)

\* The gauges of a version over both labels, and the hosts observed with it.
Total(g, v) == g[v][0] + g[v][1]
With(o, v) == {h \in Host : o[h].version = v}

Gauges == [Version -> [Label -> Int]]
Records == [Host -> [version : Version \union {None}, age : Nat]]

\* One gauge goes up by one, or down.
LEMMA IncAdds ==
  ASSUME NEW g \in Gauges, NEW w \in Version, NEW l \in Label
  PROVE  /\ Inc(g, w, l) \in Gauges
         /\ Total(Inc(g, w, l), w) = Total(g, w) + 1
         /\ \A v \in Version \ {w} : Total(Inc(g, w, l), v) = Total(g, v)
         /\ l = 1 => \A v \in Version : Inc(g, w, l)[v][0] = g[v][0]
<1> DEFINE f == Inc(g, w, l)
<1>1. f = [g EXCEPT ![w] = [g[w] EXCEPT ![l] = @ + 1]]
  BY DEF Inc, Gauges
<1> HIDE DEF f
<1>2. /\ f \in Gauges
      /\ \A v \in Version \ {w} : f[v] = g[v]
      /\ f[w] = [g[w] EXCEPT ![l] = @ + 1]
  BY <1>1 DEF Gauges, Label
<1>3. g[w] \in [Label -> Int]
  BY DEF Gauges
<1>4. Total(f, w) = Total(g, w) + 1
  BY <1>2, <1>3 DEF Total, Label
<1>5. \A v \in Version \ {w} : Total(f, v) = Total(g, v)
  BY <1>2 DEF Total
<1>6. l = 1 => f[w][0] = g[w][0]
  BY <1>2, <1>3 DEF Label
<1>7. l = 1 => \A v \in Version : f[v][0] = g[v][0]
  BY <1>2, <1>6
<1> QED BY <1>2, <1>4, <1>5, <1>7 DEF f

LEMMA DecTakes ==
  ASSUME NEW g \in Gauges, NEW w \in Version, NEW l \in Label
  PROVE  /\ Dec(g, w, l) \in Gauges
         /\ Total(Dec(g, w, l), w) = Total(g, w) - 1
         /\ \A v \in Version \ {w} : Total(Dec(g, w, l), v) = Total(g, v)
         /\ l = 1 => \A v \in Version : Dec(g, w, l)[v][0] = g[v][0]
<1> DEFINE f == Dec(g, w, l)
<1>1. f = [g EXCEPT ![w] = [g[w] EXCEPT ![l] = @ - 1]]
  BY DEF Dec, Gauges
<1> HIDE DEF f
<1>2. /\ f \in Gauges
      /\ \A v \in Version \ {w} : f[v] = g[v]
      /\ f[w] = [g[w] EXCEPT ![l] = @ - 1]
  BY <1>1 DEF Gauges, Label
<1>3. g[w] \in [Label -> Int]
  BY DEF Gauges
<1>4. Total(f, w) = Total(g, w) - 1
  BY <1>2, <1>3 DEF Total, Label
<1>5. \A v \in Version \ {w} : Total(f, v) = Total(g, v)
  BY <1>2 DEF Total
<1>6. l = 1 => f[w][0] = g[w][0]
  BY <1>2, <1>3 DEF Label
<1>7. l = 1 => \A v \in Version : f[v][0] = g[v][0]
  BY <1>2, <1>6
<1> QED BY <1>2, <1>4, <1>5, <1>7 DEF f

\* One if the versions are the same.
Is(u, v) == IF u = v THEN 1 ELSE 0

\* The record of one host changes.
LEMMA RecordChanges ==
  ASSUME NEW o \in Records, NEW h \in Host, NEW r \in [version : Version \union {None}, age : Nat],
         NEW p, p = [o EXCEPT ![h] = r], NEW v \in Version
  PROVE  /\ p \in Records
         /\ Cardinality(With(o, v)) \in Nat
         /\ Cardinality(With(p, v)) = Cardinality(With(o, v))
              - Is(o[h].version, v) + Is(r.version, v)
<1>1. p \in Records
  BY DEF Records
<1>2. IsFiniteSet(With(o, v))
  BY TallyAssumption, FS_Subset DEF With
<1>3. Cardinality(With(o, v)) \in Nat
  BY <1>2, FS_CardinalityType
<1> DEFINE R == With(o, v) \ {h}
<1>4. /\ IsFiniteSet(R)
      /\ Cardinality(R) = IF h \in With(o, v) THEN Cardinality(With(o, v)) - 1
                          ELSE Cardinality(With(o, v))
  BY <1>2, FS_RemoveElement
<1>5. h \in With(o, v) <=> o[h].version = v
  BY DEF With
<1>6. CASE r.version = v
  <2>1. With(p, v) = R \union {h}
    BY <1>6 DEF With, Records
  <2>2. h \notin R
    OBVIOUS
  <2> HIDE DEF R
  <2>3. Cardinality(With(p, v)) = Cardinality(R) + 1
    BY <2>1, <2>2, <1>4, FS_AddElement
  <2> QED BY <2>3, <1>1, <1>3, <1>4, <1>5, <1>6 DEF Is
<1>7. CASE r.version # v
  <2>1. With(p, v) = R
    BY <1>7 DEF With, Records
  <2> HIDE DEF R
  <2> QED BY <2>1, <1>1, <1>3, <1>4, <1>5, <1>7 DEF Is
<1> QED BY <1>6, <1>7

\* The gauges count the records; without an election they all have label 1.
Tallied(g, o) ==
  \A v \in Version :
    /\ Total(g, v) = Cardinality(With(o, v))
    /\ ~elected => g[v][0] = 0

\* A host is taken off the gauge of its old version u, if it had one, and put on
\* the gauge of the new version w, if it has one.
Moved(g, u, k, w, l) ==
  LET d == IF u = None THEN g ELSE Dec(g, u, k)
  IN IF w = None THEN d ELSE Inc(d, w, l)

LEMMA Moves ==
  ASSUME NEW g \in Gauges, NEW o \in Records, Tallied(g, o),
         NEW h \in Host, NEW r \in [version : Version \union {None}, age : Nat],
         NEW k \in Label, NEW l \in Label, ~elected => k = 1 /\ l = 1
  PROVE  /\ Moved(g, o[h].version, k, r.version, l) \in Gauges
         /\ [o EXCEPT ![h] = r] \in Records
         /\ Tallied(Moved(g, o[h].version, k, r.version, l), [o EXCEPT ![h] = r])
<1> DEFINE u == o[h].version
           w == r.version
           p == [o EXCEPT ![h] = r]
           d == IF u = None THEN g ELSE Dec(g, u, k)
           f == Moved(g, u, k, w, l)
<1>a. p = [o EXCEPT ![h] = r]
  OBVIOUS
<1> HIDE DEF p, d, f
<1>0. u \in Version \union {None} /\ w \in Version \union {None} /\ None \notin Version
  BY TallyAssumption DEF Records
<1>1. p \in Records
  BY <1>a DEF Records
<1>2. \A v \in Version :
        /\ Cardinality(With(o, v)) \in Nat
        /\ Cardinality(With(p, v)) = Cardinality(With(o, v))
              - Is(u, v) + Is(w, v)
  <2> HIDE DEF u, w
  <2> TAKE v \in Version
  <2>1. Cardinality(With(o, v)) \in Nat
    BY <1>a, RecordChanges
  <2>2. u = o[h].version /\ w = r.version
    BY DEF u, w
  <2>3. Cardinality(With(p, v)) = Cardinality(With(o, v))
              - Is(u, v) + Is(w, v)
    BY RecordChanges, <1>a, <2>2
  <2> QED BY <2>1, <2>3
<1> HIDE DEF u, w
<1>3. /\ d \in Gauges
      /\ \A v \in Version : Total(d, v) = Total(g, v) - Is(u, v)
      /\ ~elected => \A v \in Version : d[v][0] = g[v][0]
  <2>1. CASE u = None
    <3>1. d = g
      BY <2>1 DEF d
    <3>2. \A v \in Version : Total(g, v) \in Int
      BY <1>2 DEF Tallied
    <3> QED BY <2>1, <3>1, <3>2, <1>0 DEF Is
  <2>2. CASE u # None
    <3>1. d = Dec(g, u, k) /\ u \in Version
      BY <2>2, <1>0 DEF d
    <3>2. \A v \in Version : Total(g, v) \in Int
      BY <1>2 DEF Tallied
    <3>3. /\ d \in Gauges
          /\ Total(d, u) = Total(g, u) - 1
          /\ \A v \in Version \ {u} : Total(d, v) = Total(g, v)
          /\ k = 1 => \A v \in Version : d[v][0] = g[v][0]
      BY <3>1, DecTakes
    <3>4. \A v \in Version : Total(d, v) = Total(g, v) - Is(u, v)
      BY <3>2, <3>3 DEF Is
    <3> QED BY <3>3, <3>4
  <2> QED BY <2>1, <2>2
<1>4. /\ f \in Gauges
      /\ \A v \in Version : Total(f, v) = Total(d, v) + Is(w, v)
      /\ ~elected => \A v \in Version : f[v][0] = d[v][0]
  <2>0. \A v \in Version : Total(d, v) \in Int
    BY <1>2, <1>3 DEF Tallied, Is
  <2>1. CASE w = None
    <3>1. f = d
      BY <2>1 DEF f, d, Moved
    <3> QED BY <2>1, <2>0, <3>1, <1>0, <1>3 DEF Is
  <2>2. CASE w # None
    <3>1. f = Inc(d, w, l) /\ w \in Version
      BY <2>2, <1>0 DEF f, d, Moved
    <3>3. /\ f \in Gauges
          /\ Total(f, w) = Total(d, w) + 1
          /\ \A v \in Version \ {w} : Total(f, v) = Total(d, v)
          /\ l = 1 => \A v \in Version : f[v][0] = d[v][0]
      <4>1. d \in Gauges
        BY <1>3
      <4> QED BY <3>1, <4>1, IncAdds
    <3>4. \A v \in Version : Total(f, v) = Total(d, v) + Is(w, v)
      BY <2>0, <3>3 DEF Is
    <3> QED BY <3>3, <3>4
  <2> QED BY <2>1, <2>2
<1>5. ASSUME NEW v \in Version
      PROVE  Total(f, v) = Cardinality(With(p, v)) /\ (~elected => f[v][0] = 0)
  <2>1. Total(g, v) = Cardinality(With(o, v)) /\ (~elected => g[v][0] = 0)
    BY DEF Tallied
  <2>2. Total(f, v) = Cardinality(With(o, v)) - Is(u, v) + Is(w, v)
    BY <2>1, <1>3, <1>4, <1>2 DEF Is
  <2> QED BY <2>1, <2>2, <1>2, <1>3, <1>4
<1>6. f \in Gauges /\ p \in Records /\ Tallied(f, p)
  BY <1>1, <1>4, <1>5 DEF Tallied
<1> QED BY <1>6, Zenon DEF f, p, u, w

LEMMA TalliedIs == NetTally <=> Tallied(gauge, observed)
BY DEF NetTally, Tallied, Total, With

\* A label read in a handler is one, and 1 without an election.
LEMMA LabelRead ==
  ASSUME TypeInv, NEW l \in Label, Relabelled(l)
  PROVE  active' \in Label /\ (~elected => l = 1 /\ active = 1 /\ active' = 1)
BY DEF TypeInv, TypeOK, Labelled, Relabelled, Label

LEMMA ProcessCounts ==
  ASSUME TypeInv, NetTally, NEW h \in Host, NEW i \in Deliverable(h), NEW l \in Label,
         process(h, i, l)
  PROVE  gauge' \in Gauges /\ observed' \in Records /\ NetTally'
<1> DEFINE e == net[h][i]
           u == observed[h].version
<1>1. gauge \in Gauges /\ observed \in Records /\ Tallied(gauge, observed) /\ active \in Label
  BY TalliedIs DEF TypeInv, TypeOK, Gauges, Records
<1>2. e \in Event /\ i \in DOMAIN net[h]
  <2>1. net[h] \in Seq(Event) /\ i \in DOMAIN net[h]
    BY DEF TypeInv, TypeOK, Deliverable
  <2> QED BY <2>1, LenProperties
<1>3. ~elected => active = 1 /\ l = 1
  BY LabelRead DEF process
<1>4. elected' = elected
  BY DEF process
<1>5. None \notin Version
  BY TallyAssumption
<1>6. \/ e.type = "alive" /\ processAlive(h, e.version, l)
      \/ e.type = "startup" /\ processStartup(h, e.version, l)
      \/ e.type = "shutdown" /\ processShutdown(h, l)
  BY DEF process
<1> DEFINE Good == gauge' \in Gauges /\ observed' \in Records /\ Tallied(gauge', observed')
<1>7. ASSUME processAlive(h, e.version, l) \/ processStartup(h, e.version, l)
      PROVE  Good
  <2> DEFINE r == [version |-> e.version, age |-> 0]
  <2>1. r \in [version : Version \union {None}, age : Nat] /\ r.version = e.version /\ e.version # None
    BY <1>2, <1>5 DEF Event
  <2>2. observed' = [observed EXCEPT ![h] = r]
    BY <1>7 DEF processAlive, processStartup
  <2>3. CASE gauge' = Inc(IF u = None THEN gauge ELSE Dec(gauge, u, active), e.version, l)
    <3>1. gauge' = Moved(gauge, observed[h].version, active, r.version, l)
      BY <2>1, <2>3 DEF Moved
    <3> HIDE DEF r
    <3> QED BY <1>1, <1>3, <2>1, <2>2, <3>1, Moves
  <2>4. CASE gauge' = gauge /\ u = e.version
    <3>1. \A v \in Version : With(observed', v) = With(observed, v)
      BY <1>1, <2>1, <2>2, <2>4 DEF With, Records
    <3>2. observed' \in Records
      BY <1>1, <2>1, <2>2 DEF Records
    <3> QED BY <1>1, <2>4, <3>1, <3>2 DEF Tallied
  <2>5. gauge' = Inc(IF u = None THEN gauge ELSE Dec(gauge, u, active), e.version, l) \/ (gauge' = gauge /\ u = e.version)
    BY <1>7 DEF processAlive, processStartup
  <2> QED BY <2>3, <2>4, <2>5
<1>8. ASSUME processShutdown(h, l)
      PROVE  Good
  <2>1. Unseen \in [version : Version \union {None}, age : Nat] /\ Unseen.version = None
    BY DEF Unseen
  <2>2. observed' = [observed EXCEPT ![h] = Unseen]
    BY <1>8 DEF processShutdown
  <2>3. gauge' = Moved(gauge, observed[h].version, l, Unseen.version, l)
    BY <2>1, <1>8 DEF processShutdown, Moved
  <2> QED BY <1>1, <1>3, <2>1, <2>2, <2>3, Moves
<1> HIDE DEF Good
<1>9. Good
  BY <1>6, <1>7, <1>8
<1>10. Tallied(gauge', observed') => NetTally'
  BY <1>4 DEF NetTally, Tallied, Total, With
<1> QED BY <1>9, <1>10 DEF Good

\* maintenance() takes the expired hosts off, each with the label read for it.
LEMMA MaintenanceCounts ==
  ASSUME TypeInv, NetTally, NEW first \in SUBSET Expired, NEW l \in Label, maintenance(first, l)
  PROVE  gauge' \in Gauges /\ observed' \in Records /\ NetTally'
<1> DEFINE Off(v, k) == {h \in Expired : /\ observed[h].version = v
                                         /\ k = IF h \in first THEN active ELSE l}
<1>1. gauge \in Gauges /\ observed \in Records /\ Tallied(gauge, observed) /\ active \in Label
  BY TalliedIs DEF TypeInv, TypeOK, Gauges, Records
<1>2. observed' \in Records
  BY <1>1 DEF maintenance, Records, Unseen
<1>3. gauge' = [v \in Version |-> [k \in Label |-> gauge[v][k] - Cardinality(Off(v, k))]]
  BY DEF maintenance
<1>4. ~elected => active = 1 /\ l = 1
  BY LabelRead DEF maintenance
<1>5. \A v \in Version, k \in Label : IsFiniteSet(Off(v, k)) /\ Cardinality(Off(v, k)) \in Nat
  <2> TAKE v \in Version, k \in Label
  <2>1. Off(v, k) \in SUBSET Host
    BY DEF Expired
  <2>2. IsFiniteSet(Off(v, k))
    BY <2>1, TallyAssumption, FS_Subset
  <2> QED BY <2>2, FS_CardinalityType
<1>6. \A v \in Version : /\ gauge'[v][0] = gauge[v][0] - Cardinality(Off(v, 0))
                         /\ gauge'[v][1] = gauge[v][1] - Cardinality(Off(v, 1))
                         /\ gauge[v][0] \in Int /\ gauge[v][1] \in Int
  <2> HIDE DEF Off
  <2> QED BY <1>1, <1>3 DEF Gauges, Label
<1>7. gauge' \in Gauges
  <2> HIDE DEF Off
  <2> QED BY <1>1, <1>3, <1>5 DEF Gauges
<1>8. ASSUME NEW v \in Version
      PROVE  Total(gauge', v) = Cardinality(With(observed', v)) /\ (~elected => gauge'[v][0] = 0)
  <2> DEFINE A == Off(v, 0)
             B == Off(v, 1)
             W == With(observed, v)
  <2>1. A \cap B = {} /\ A \union B \subseteq W
    BY DEF With, Expired
  <2>2. With(observed', v) = W \ (A \union B)
    BY <1>1, TallyAssumption DEF With, maintenance, Expired, Unseen, Records, Label
  <2>3. ~elected => A = {}
    BY <1>4
  <2>4. IsFiniteSet(W)
    BY TallyAssumption, FS_Subset DEF With
  <2>5. IsFiniteSet(A) /\ IsFiniteSet(B) /\ Cardinality(A) \in Nat /\ Cardinality(B) \in Nat
    BY <1>5 DEF Label
  <2>6. Total(gauge, v) = Cardinality(W) /\ (~elected => gauge[v][0] = 0)
    BY <1>1 DEF Tallied
  <2>7. Total(gauge', v) = Total(gauge, v) - Cardinality(A) - Cardinality(B)
    <3>1. /\ gauge'[v][0] = gauge[v][0] - Cardinality(A)
          /\ gauge'[v][1] = gauge[v][1] - Cardinality(B)
          /\ gauge[v][0] \in Int /\ gauge[v][1] \in Int
      BY <1>6
    <3> HIDE DEF A, B
    <3> QED BY <2>5, <3>1 DEF Total
  <2>8. ~elected => gauge'[v][0] = gauge[v][0] - Cardinality(A)
    BY <1>6
  <2> HIDE DEF A, B, W
  <2>9. Cardinality(A \union B) = Cardinality(A) + Cardinality(B)
    <3>1. Cardinality(A \union B) = Cardinality(A) + Cardinality(B) - Cardinality(A \cap B)
      BY <2>5, FS_Union
    <3>2. Cardinality(A \cap B) = 0
      BY <2>1, FS_EmptySet
    <3> QED BY <3>1, <3>2, <2>5
  <2>10. Cardinality(W \ (A \union B)) = Cardinality(W) - Cardinality(A \union B)
    <3>1. W \cap (A \union B) = A \union B
      BY <2>1
    <3> QED BY <3>1, <2>4, FS_Difference
  <2>11. Cardinality(W) \in Nat
    BY <2>4, FS_CardinalityType
  <2> QED BY <2>2, <2>3, <2>5, <2>6, <2>7, <2>8, <2>9, <2>10, <2>11, FS_EmptySet
<1>9. elected' = elected
  BY DEF maintenance
<1> HIDE DEF Off
<1>10. NetTally'
  BY <1>8, <1>9 DEF NetTally, Total, With
<1> QED BY <1>2, <1>7, <1>10

-----------------------------------------------------------------------------
(* Types.                                                                  *)

LEMMA NoneIsNoVersion == None \notin Version
BY TallyAssumption

\* An event is appended to, or taken from, what is under way.
LEMMA NetGrows ==
  ASSUME TypeInv, NEW h \in Host, NEW t \in {"alive", "startup", "shutdown"},
         server[h].version \in Version, PublishEvent(h, t)
  PROVE  /\ net' \in [Host -> Seq(Event)]
         /\ \A g \in Host \ {h} : net'[g] = net[g]
         /\ net'[h] = Append(net[h], [type |-> t, version |-> server[h].version, old |-> FALSE])
         /\ [type |-> t, version |-> server[h].version, old |-> FALSE] \in Event
<1> DEFINE e == [type |-> t, version |-> server[h].version, old |-> FALSE]
<1>1. e \in Event
  BY DEF Event
<1>2. net \in [Host -> Seq(Event)]
  BY DEF TypeInv, TypeOK
<1> HIDE DEF e
<1>3. net' = [net EXCEPT ![h] = Append(net[h], e)]
  BY DEF PublishEvent, e
<1>4. Append(net[h], e) \in Seq(Event)
  BY <1>1, <1>2, AppendProperties
<1> QED BY <1>1, <1>2, <1>3, <1>4 DEF e

LEMMA NetShrinks ==
  ASSUME TypeInv, NEW h \in Host, NEW i \in Deliverable(h), net' = [net EXCEPT ![h] = RemoveAt(@, i)]
  PROVE  /\ net' \in [Host -> Seq(Event)]
         /\ \A g \in Host : \A j \in DOMAIN net'[g] : \E k \in DOMAIN net[g] : net'[g][j] = net[g][k]
         /\ net[h][i] \in Event
<1>1. net \in [Host -> Seq(Event)] /\ i \in DOMAIN net[h] /\ net[h] \in Seq(Event)
  BY DEF TypeInv, TypeOK, Deliverable
<1> DEFINE r == RemoveAt(net[h], i)
<1>2. r \in Seq(Event) /\ \A j \in DOMAIN r : \E k \in DOMAIN net[h] : r[j] = net[h][k]
  BY <1>1, Removed
<1>3. net' = [net EXCEPT ![h] = r]
  BY <1>1
<1>4. net[h][i] \in Event
  BY <1>1, LenProperties
<1> HIDE DEF r
<1> QED BY <1>1, <1>2, <1>3, <1>4

\* The processes of the hosts.
Processes == [Host -> [status : {"down", "up", "closing"}, version : Version \union {None},
                       next : 0..AliveInterval]]

LEMMA ServerSteps ==
  ASSUME TypeInv, NEW h \in Host
  PROVE  /\ \A v \in Version, delay \in 0..AliveInterval-1 :
              publishStartupEvent(h, v, delay) => server' \in Processes /\ Versioned'
         /\ publishAliveEvents(h) \/ publishShutdownEvent(h) \/ Close(h) \/ Crash(h)
              => server' \in Processes /\ Versioned'
<1>1. server \in Processes /\ AliveInterval \in Nat \ {0}
  BY TallyAssumption DEF TypeInv, TypeOK, Processes
<1>2. ASSUME NEW v \in Version, NEW delay \in 0..AliveInterval-1, publishStartupEvent(h, v, delay)
      PROVE  server' \in Processes /\ Versioned'
  <2>1. server' = [server EXCEPT ![h] = [status |-> "up", version |-> v, next |-> delay]]
    BY <1>2 DEF publishStartupEvent
  <2> QED BY <1>1, <2>1 DEF Processes, Versioned, TypeInv
<1>3. ASSUME publishAliveEvents(h)
      PROVE  server' \in Processes /\ Versioned'
  <2>1. server' = [server EXCEPT ![h].next = AliveInterval]
    BY <1>3 DEF publishAliveEvents
  <2> QED BY <1>1, <2>1 DEF Processes, Versioned, TypeInv
<1>4. ASSUME publishShutdownEvent(h)
      PROVE  server' \in Processes /\ Versioned'
  <2>1. server' = [server EXCEPT ![h].status = "closing"] /\ server[h].status = "up"
    BY <1>4 DEF publishShutdownEvent
  <2> QED BY <1>1, <2>1 DEF Processes, Versioned, TypeInv
<1>5. ASSUME Close(h) \/ Crash(h)
      PROVE  server' \in Processes /\ Versioned'
  <2>1. server' = [server EXCEPT ![h] = [status |-> "down", version |-> None, next |-> 0]]
    BY <1>5 DEF Close, Crash
  <2> QED BY <1>1, <2>1 DEF Processes, Versioned, TypeInv
<1> QED BY <1>2, <1>3, <1>4, <1>5

LEMMA TypeInit == Init => TypeInv
<1> SUFFICES ASSUME Init PROVE TypeInv
  OBVIOUS
<1>1. AliveInterval \in Nat \ {0} /\ Expire \in Nat
  BY TallyAssumption
<1>2. /\ server \in Processes
      /\ \A h \in Host : server[h].status = "down"
  BY <1>1 DEF Init, Processes
<1>3. net \in [Host -> Seq(Event)]
  BY EmptySeq DEF Init
<1>4. observed \in Records
  BY DEF Init, Records, Unseen
<1>5. gauge \in Gauges
  BY DEF Init, Gauges
<1>6. elected \in BOOLEAN /\ active \in Label /\ Labelled
  BY DEF Init, Label, Labelled
<1>a. maintained \in BOOLEAN
  BY DEF Init
<1>7. quiet \in 0..Expire+1 /\ heard \subseteq Host /\ lost \in [Host -> Nat]
  BY <1>1 DEF Init
<1> HIDE DEF Init
<1>8. TypeOK
  BY <1>2, <1>3, <1>4, <1>5, <1>6, <1>7, <1>a DEF TypeOK, Processes, Records, Gauges
<1> QED BY <1>2, <1>6, <1>8 DEF TypeInv, Versioned

\* Nothing observed and nothing counted.
LEMMA EmptyTally ==
  ASSUME NEW o, o = [h \in Host |-> Unseen],
         NEW g, g = [v \in Version |-> [l \in Label |-> 0]]
  PROVE  o \in Records /\ g \in Gauges /\ Tallied(g, o)
<1>1. o \in Records
  BY DEF Records, Unseen
<1>2. g \in Gauges
  BY DEF Gauges
<1>3. \A v \in Version : With(o, v) = {}
  BY TallyAssumption DEF With, Unseen
<1>4. \A v \in Version : g[v][0] = 0 /\ g[v][1] = 0
  BY DEF Label
<1> QED BY <1>1, <1>2, <1>3, <1>4, FS_EmptySet DEF Tallied, Total

LEMMA NothingCounted ==
  ASSUME observed' = [h \in Host |-> Unseen],
         gauge' = [v \in Version |-> [l \in Label |-> 0]], elected' = elected
  PROVE  observed' \in Records /\ gauge' \in Gauges /\ NetTally'
<1>1. observed' \in Records /\ gauge' \in Gauges /\ Tallied(gauge', observed')
  BY EmptyTally
<1>2. Tallied(gauge', observed') => NetTally'
  BY DEF NetTally, Tallied, Total, With
<1> QED BY <1>1, <1>2

\* The variables of the recorder and of the bookkeeping, by their parts.
LEMMA TypeParts ==
  TypeInv <=> /\ server \in Processes /\ Versioned
              /\ net \in [Host -> Seq(Event)]
              /\ observed \in Records /\ gauge \in Gauges
              /\ elected \in BOOLEAN /\ active \in Label /\ Labelled
              /\ maintained \in BOOLEAN
              /\ quiet \in 0..Expire+1 /\ heard \subseteq Host /\ lost \in [Host -> Nat]
BY DEF TypeInv, TypeOK, Processes, Records, Gauges

\* The time to the next alive event of a server, and the age of a record, after a unit.
LEMMA UnitPasses ==
  ASSUME NEW s \in [status : {"down", "up", "closing"}, version : Version \union {None},
                    next : 0..AliveInterval],
         NEW r \in [version : Version \union {None}, age : Nat]
  PROVE  /\ s.next > 0 =>
              /\ [s EXCEPT !.next = @ - 1] \in [status : {"down", "up", "closing"},
                    version : Version \union {None}, next : 0..AliveInterval]
              /\ [s EXCEPT !.next = @ - 1].status = s.status
              /\ [s EXCEPT !.next = @ - 1].version = s.version
              /\ [s EXCEPT !.next = @ - 1].next = s.next - 1
         /\ [r EXCEPT !.age = @ + 1] \in [version : Version \union {None}, age : Nat]
         /\ [r EXCEPT !.age = @ + 1].version = r.version
         /\ [r EXCEPT !.age = @ + 1].age = r.age + 1
BY TallyAssumption

\* What a unit of time does to a host.
LEMMA TickSteps ==
  ASSUME TypeInv, Tick, NEW h \in Host
  PROVE  /\ server'[h] \in [status : {"down", "up", "closing"}, version : Version \union {None},
                            next : 0..AliveInterval]
         /\ server'[h].status = server[h].status /\ server'[h].version = server[h].version
         /\ server[h].status = "up" => server'[h].next = server[h].next - 1 /\ server[h].next > 0
         /\ observed'[h] \in [version : Version \union {None}, age : Nat]
         /\ observed'[h].version = observed[h].version
         /\ observed[h].version # None => observed'[h].age = observed[h].age + 1
<1>1. /\ server[h] \in [status : {"down", "up", "closing"}, version : Version \union {None},
                        next : 0..AliveInterval]
      /\ observed[h] \in [version : Version \union {None}, age : Nat]
  BY DEF TypeInv, TypeOK
<1>2. server'[h] = IF server[h].status = "up" THEN [server[h] EXCEPT !.next = @ - 1] ELSE server[h]
  BY DEF Tick
<1>3. server[h].status = "up" => server[h].next > 0
  BY DEF Tick
<1>4. observed'[h] = IF observed[h].version = None THEN Unseen ELSE [observed[h] EXCEPT !.age = @ + 1]
  BY DEF Tick
<1>5. Unseen \in [version : Version \union {None}, age : Nat] /\ Unseen.version = None
  BY DEF Unseen
<1> DEFINE s == server[h]
           r == observed[h]
<1>6. /\ s.next > 0 =>
              /\ [s EXCEPT !.next = @ - 1] \in [status : {"down", "up", "closing"},
                    version : Version \union {None}, next : 0..AliveInterval]
              /\ [s EXCEPT !.next = @ - 1].status = s.status
              /\ [s EXCEPT !.next = @ - 1].version = s.version
              /\ [s EXCEPT !.next = @ - 1].next = s.next - 1
      /\ [r EXCEPT !.age = @ + 1] \in [version : Version \union {None}, age : Nat]
      /\ [r EXCEPT !.age = @ + 1].version = r.version
      /\ [r EXCEPT !.age = @ + 1].age = r.age + 1
  BY <1>1, UnitPasses, Zenon
<1>7. CASE server[h].status = "up"
  BY <1>1, <1>2, <1>3, <1>4, <1>5, <1>6, <1>7, Zenon
<1>8. CASE server[h].status # "up"
  BY <1>1, <1>2, <1>3, <1>4, <1>5, <1>6, <1>8, Zenon
<1> QED BY <1>7, <1>8

\* NetTally speaks of three variables.
LEMMA TallyFrame ==
  ASSUME NetTally, UNCHANGED <<gauge, elected>>,
         \A h \in Host : observed'[h].version = observed[h].version
  PROVE  NetTally'
BY DEF NetTally

LEMMA TypeStep == TypeInv /\ NetTally /\ [Next]_vars => TypeInv' /\ NetTally'
<1> SUFFICES ASSUME TypeInv, NetTally, [Next]_vars PROVE TypeInv' /\ NetTally'
  OBVIOUS
<1> DEFINE ServerPart == server' \in Processes /\ Versioned'
           NetPart == net' \in [Host -> Seq(Event)]
           Flags == elected' \in BOOLEAN /\ active' \in Label /\ Labelled'
           Maintained == maintained' \in BOOLEAN
           Counters == quiet' \in 0..Expire+1 /\ heard' \subseteq Host /\ lost' \in [Host -> Nat]
           CountPart == observed' \in Records /\ gauge' \in Gauges /\ NetTally'
<1>T. /\ server \in Processes /\ Versioned
      /\ net \in [Host -> Seq(Event)]
      /\ observed \in Records /\ gauge \in Gauges
      /\ elected \in BOOLEAN /\ active \in Label /\ Labelled
      /\ maintained \in BOOLEAN
      /\ quiet \in 0..Expire+1 /\ heard \subseteq Host /\ lost \in [Host -> Nat]
      /\ AliveInterval \in Nat \ {0} /\ Expire \in Nat
  BY TypeParts, TallyAssumption
<1>S. UNCHANGED server => ServerPart
  BY <1>T DEF Versioned
<1>R. UNCHANGED recorder => Flags /\ Maintained /\ CountPart
  BY <1>T, TallyFrame DEF recorder, Labelled
<1>Q. SUFFICES ServerPart /\ NetPart /\ Flags /\ Maintained /\ Counters /\ CountPart
  <2>1. ASSUME ServerPart, NetPart, Flags, Maintained, Counters, CountPart
        PROVE  TypeInv'
    BY <2>1 DEF TypeInv, TypeOK, Processes, Records, Gauges
  <2> QED BY <2>1
<1>1. ASSUME NEW h \in Host, NEW v \in Version, NEW delay \in 0..AliveInterval-1,
             publishStartupEvent(h, v, delay)
      PROVE  ServerPart /\ NetPart /\ Flags /\ Maintained /\ Counters /\ CountPart
  <2>1. ServerPart
    BY <1>1, ServerSteps
  <2>2. NetPart
    <3> DEFINE s == Append([i \in DOMAIN net[h] |-> [net[h][i] EXCEPT !.old = TRUE]],
                           [type |-> "startup", version |-> v, old |-> FALSE])
    <3>1. net' = [net EXCEPT ![h] = s]
      BY <1>1 DEF publishStartupEvent
    <3>2. s \in Seq(Event)
      BY <1>T, Restarted
    <3> HIDE DEF s
    <3> QED BY <1>T, <3>1, <3>2
  <2>3. Counters
    BY <1>1, <1>T DEF publishStartupEvent
  <2>4. UNCHANGED recorder
    BY <1>1 DEF publishStartupEvent
  <2> HIDE DEF ServerPart, NetPart, Flags, Maintained, Counters, CountPart
  <2> QED BY <2>1, <2>2, <2>3, <2>4, <1>R
<1>2. ASSUME NEW h \in Host, publishAliveEvents(h) \/ publishShutdownEvent(h) \/ Close(h) \/ Crash(h)
      PROVE  ServerPart /\ NetPart /\ Flags /\ Maintained /\ Counters /\ CountPart
  <2>1. ServerPart
    BY <1>2, ServerSteps
  <2>2. NetPart
    <3>1. CASE publishAliveEvents(h)
      <4>1. PublishEvent(h, "alive") /\ server[h].version \in Version
        BY <3>1, <1>T DEF publishAliveEvents, Versioned
      <4> QED BY <4>1, NetGrows
    <3>2. CASE publishShutdownEvent(h)
      <4>1. PublishEvent(h, "shutdown") /\ server[h].version \in Version
        BY <3>2, <1>T DEF publishShutdownEvent, Versioned
      <4> QED BY <4>1, NetGrows
    <3>3. CASE Close(h) \/ Crash(h)
      BY <3>3, <1>T DEF Close, Crash
    <3> QED BY <1>2, <3>1, <3>2, <3>3
  <2>3. Counters
    BY <1>2, <1>T DEF publishAliveEvents, publishShutdownEvent, Close, Crash
  <2>4. UNCHANGED recorder
    BY <1>2 DEF publishAliveEvents, publishShutdownEvent, Close, Crash
  <2> HIDE DEF ServerPart, NetPart, Flags, Maintained, Counters, CountPart
  <2> QED BY <2>1, <2>2, <2>3, <2>4, <1>R
<1>3. ASSUME NEW h \in Host, NEW i \in Deliverable(h), Lose(h, i)
      PROVE  ServerPart /\ NetPart /\ Flags /\ Maintained /\ Counters /\ CountPart
  <2>1. /\ net' = [net EXCEPT ![h] = RemoveAt(@, i)] /\ UNCHANGED <<server, recorder, heard>>
        /\ lost' = [lost EXCEPT ![h] = @ + 1] /\ quiet' = 0
    BY <1>3 DEF Lose
  <2>2. NetPart
    BY <2>1, NetShrinks
  <2>3. Counters
    BY <2>1, <1>T
  <2>4. ServerPart
    BY <2>1, <1>S
  <2> HIDE DEF ServerPart, NetPart, Flags, Maintained, Counters, CountPart
  <2> QED BY <2>1, <2>2, <2>3, <2>4, <1>R
<1>4. ASSUME NEW h \in Host, NEW i \in Deliverable(h), NEW l \in Label, process(h, i, l)
      PROVE  ServerPart /\ NetPart /\ Flags /\ Maintained /\ Counters /\ CountPart
  <2>1. /\ net' = [net EXCEPT ![h] = RemoveAt(@, i)] /\ UNCHANGED <<elected, server, maintained, quiet>>
        /\ Relabelled(l)
    BY <1>4 DEF process
  <2>2. NetPart
    BY <2>1, NetShrinks
  <2>3. heard' \subseteq Host /\ lost' \in [Host -> Nat]
    <3>1. CASE net[h][i].old
      BY <3>1, <1>4, <1>T DEF process
    <3>2. CASE ~net[h][i].old
      <4>1. heard' = heard \union {h} /\ lost' = [lost EXCEPT ![h] = 0]
        BY <3>2, <1>4 DEF process
      <4> QED BY <4>1, <1>T
    <3> QED BY <3>1, <3>2
  <2>4. Counters
    BY <2>1, <2>3, <1>T
  <2>5. Flags
    BY <2>1, <1>T, LabelRead DEF Labelled
  <2>6. Maintained
    BY <2>1, <1>T
  <2>7. CountPart
    BY <1>4, ProcessCounts
  <2>8. ServerPart
    BY <2>1, <1>S
  <2> HIDE DEF ServerPart, NetPart, Flags, Maintained, Counters, CountPart
  <2> QED BY <2>2, <2>4, <2>5, <2>6, <2>7, <2>8
<1>5. ASSUME NEW first \in SUBSET Expired, NEW l \in Label, maintenance(first, l)
      PROVE  ServerPart /\ NetPart /\ Flags /\ Maintained /\ Counters /\ CountPart
  <2>1. UNCHANGED <<elected, server, net, quiet, heard, lost>> /\ Relabelled(l) /\ maintained' = TRUE
    BY <1>5 DEF maintenance
  <2>2. Flags
    BY <2>1, <1>T, LabelRead DEF Labelled
  <2>3. CountPart
    BY <1>5, MaintenanceCounts
  <2>4. ServerPart
    BY <2>1, <1>S
  <2>5. NetPart /\ Counters
    BY <2>1, <1>T
  <2>6. Maintained
    BY <2>1
  <2> HIDE DEF ServerPart, NetPart, Flags, Maintained, Counters, CountPart
  <2> QED BY <2>2, <2>3, <2>4, <2>5, <2>6
<1>6. ASSUME Leadership
      PROVE  ServerPart /\ NetPart /\ Flags /\ Maintained /\ Counters /\ CountPart
  <2>1. /\ UNCHANGED <<elected, server, net, observed, gauge, maintained, quiet, heard, lost>>
        /\ elected /\ active' = 1 - active
    BY <1>6 DEF Leadership
  <2>2. Flags
    BY <2>1, <1>T DEF Label, Labelled
  <2>3. CountPart
    BY <2>1, <1>T, TallyFrame
  <2>4. ServerPart
    BY <2>1, <1>S
  <2>5. NetPart /\ Counters
    BY <2>1, <1>T
  <2>6. Maintained
    BY <2>1, <1>T
  <2> HIDE DEF ServerPart, NetPart, Flags, Maintained, Counters, CountPart
  <2> QED BY <2>2, <2>3, <2>4, <2>5, <2>6
<1>7. ASSUME New
      PROVE  ServerPart /\ NetPart /\ Flags /\ Maintained /\ Counters /\ CountPart
  <2>1. /\ UNCHANGED <<elected, server, maintained, lost>>
        /\ active' = (IF elected THEN 0 ELSE 1) /\ quiet' = 0 /\ heard' = {}
        /\ observed' = [h \in Host |-> Unseen] /\ net' = [h \in Host |-> <<>>]
        /\ gauge' = [v \in Version |-> [l \in Label |-> 0]]
    BY <1>7 DEF New
  <2>2. Flags
    BY <2>1, <1>T DEF Label, Labelled
  <2>3. CountPart
    BY <2>1, NothingCounted
  <2>4. ServerPart
    BY <2>1, <1>S
  <2>5. NetPart
    BY <2>1, EmptySeq
  <2>6. Counters
    BY <2>1, <1>T
  <2>7. Maintained
    BY <2>1, <1>T
  <2> HIDE DEF ServerPart, NetPart, Flags, Maintained, Counters, CountPart
  <2> QED BY <2>2, <2>3, <2>4, <2>5, <2>6, <2>7
<1>8. ASSUME Tick
      PROVE  ServerPart /\ NetPart /\ Flags /\ Maintained /\ Counters /\ CountPart
  <2>1. /\ UNCHANGED <<elected, net, active, gauge, heard, lost, budget>>
        /\ maintained' = FALSE
        /\ quiet' = IF quiet > Expire THEN quiet ELSE quiet + 1
    BY <1>8 DEF Tick
  <2>2. ServerPart
    <3>1. server' = [h \in Host |-> IF server[h].status = "up"
                               THEN [server[h] EXCEPT !.next = @ - 1] ELSE server[h]]
      BY <1>8 DEF Tick
    <3>2. \A h \in Host : server'[h] \in [status : {"down", "up", "closing"}, version : Version \union {None},
                                          next : 0..AliveInterval]
      BY <1>8, TickSteps
    <3>3. \A h \in Host : server'[h].status = server[h].status /\ server'[h].version = server[h].version
      BY <1>8, TickSteps
    <3>4. Versioned'
      BY <3>3, <1>T DEF Versioned
    <3>5. server' = [h \in Host |-> server'[h]]
      BY <3>1
    <3>6. server' \in Processes
      BY <3>2, <3>5, Zenon DEF Processes
    <3> QED BY <3>4, <3>6
  <2>3. observed' \in Records /\ \A h \in Host : observed'[h].version = observed[h].version
    <3>1. observed' = [h \in Host |-> IF observed[h].version = None THEN Unseen
                                 ELSE [observed[h] EXCEPT !.age = @ + 1]]
      BY <1>8 DEF Tick
    <3>2. \A h \in Host : observed'[h] \in [version : Version \union {None}, age : Nat]
      BY <1>8, TickSteps
    <3>3. \A h \in Host : observed'[h].version = observed[h].version
      BY <1>8, TickSteps
    <3>4. observed' = [h \in Host |-> observed'[h]]
      BY <3>1
    <3>5. observed' \in Records
      BY <3>2, <3>4, Zenon DEF Records
    <3> QED BY <3>3, <3>5
  <2>4. CountPart
    BY <2>1, <2>3, <1>T, TallyFrame
  <2>5. Counters
    BY <2>1, <1>T
  <2>6. Flags /\ NetPart
    BY <2>1, <1>T DEF Labelled
  <2>7. Maintained
    BY <2>1
  <2> HIDE DEF ServerPart, NetPart, Flags, Maintained, Counters, CountPart
  <2> QED BY <2>2, <2>4, <2>5, <2>6, <2>7
<1>9. ASSUME UNCHANGED vars
      PROVE  ServerPart /\ NetPart /\ Flags /\ Maintained /\ Counters /\ CountPart
  <2>1. UNCHANGED <<server, recorder, net, quiet, heard, lost>>
    BY <1>9 DEF vars, recorder
  <2>2. NetPart /\ Counters
    BY <2>1, <1>T
  <2> HIDE DEF ServerPart, NetPart, Flags, Maintained, Counters, CountPart
  <2> QED BY <2>1, <2>2, <1>S, <1>R
<1> HIDE DEF ServerPart, NetPart, Flags, Maintained, Counters, CountPart
<1> QED BY <1>1, <1>2, <1>3, <1>4, <1>5, <1>6, <1>7, <1>8, <1>9 DEF Next

\* The gauges count what was observed.
LEMMA TypeAndTally == Spec => [](TypeInv /\ NetTally)
<1>1. Init => TypeInv /\ NetTally
  <2> SUFFICES ASSUME Init PROVE TypeInv /\ NetTally
    OBVIOUS
  <2>1. /\ observed = [h \in Host |-> Unseen]
        /\ gauge = [v \in Version |-> [l \in Label |-> 0]]
    BY DEF Init
  <2>2. Tallied(gauge, observed)
    BY <2>1, EmptyTally
  <2> QED BY <2>2, TalliedIs, TypeInit
<1> QED BY <1>1, TypeStep, PTL DEF Spec

-----------------------------------------------------------------------------
(* Quiet time.                                                             *)

Settling == QuietNet /\ Announced /\ Silent

\* The steps that do not end a quiet time.
LEMMA QuietSteps ==
  ASSUME TypeInv, [Next]_vars, quiet' > 0
  PROVE  \/ \E h \in Host : publishAliveEvents(h)
         \/ \E h \in Host : \E i \in Deliverable(h), l \in Label : process(h, i, l)
         \/ \E first \in SUBSET Expired, l \in Label : maintenance(first, l)
         \/ Tick
         \/ UNCHANGED <<server, net, observed, maintained, quiet>>
<1>1. quiet' # 0
  OBVIOUS
<1> QED BY <1>1 DEF Next, vars, publishStartupEvent, publishShutdownEvent, Close, Crash, Lose, New, Leadership

\* What is known of a host and its numbers.
LEMMA Numbers ==
  ASSUME TypeInv, NEW h \in Host
  PROVE  /\ server[h].next \in Nat /\ server[h].next <= AliveInterval
         /\ server[h].status \in {"down", "up", "closing"}
         /\ observed[h].age \in Nat /\ lost[h] \in Nat /\ quiet \in Nat
         /\ net[h] \in Seq(Event)
         /\ AliveInterval \in Nat /\ AliveInterval > 0 /\ Expire \in Nat /\ 2 * AliveInterval <= Expire
BY TallyAssumption DEF TypeInv, TypeOK

LEMMA SettlingInit == Init => Settling
<1> SUFFICES ASSUME Init PROVE Settling
  OBVIOUS
<1>1. quiet = 0 /\ \A h \in Host : observed[h].version = None
  BY DEF Init, Unseen
<1> HIDE DEF Init
<1> QED BY <1>1 DEF Settling, QuietNet, Announced, Silent

\* The alive event of the unit is published.
LEMMA AliveSettles ==
  ASSUME TypeInv, Settling, quiet' > 0, NEW h \in Host, publishAliveEvents(h)
  PROVE  Settling'
<1>1. /\ server[h].status \in {"up", "closing"} /\ server[h].next = 0
      /\ PublishEvent(h, "alive") /\ server' = [server EXCEPT ![h].next = AliveInterval]
      /\ UNCHANGED <<observed, maintained, quiet>>
  BY DEF publishAliveEvents, recorder
<1>2. /\ server'[h].status = server[h].status /\ server'[h].version = server[h].version
      /\ server'[h].next = AliveInterval
      /\ \A g \in Host \ {h} : server'[g] = server[g]
      /\ \A g \in Host : server'[g].status = server[g].status
  BY <1>1 DEF TypeInv, TypeOK
<1>3. server[h].status = "up" /\ server[h].version \in Version
  BY <1>1 DEF Settling, QuietNet, TypeInv, Versioned
<1> DEFINE e == [type |-> "alive", version |-> server[h].version, old |-> FALSE]
<1>4. /\ \A g \in Host \ {h} : net'[g] = net[g]
      /\ net'[h] = Append(net[h], e) /\ e \in Event
  BY <1>1, <1>3, NetGrows, Zenon
<1>5. e.type = "alive" /\ e.version = server[h].version /\ ~e.old
  OBVIOUS
<1>6. net[h] = <<>>
  BY <1>1, Numbers DEF Settling, QuietNet
<1> HIDE DEF e
<1>7. /\ net'[h] # <<>> /\ DOMAIN net'[h] = {1} /\ net'[h][1] = e
  BY <1>4, <1>6
<1>8. QuietNet'
  <2> SUFFICES ASSUME NEW g \in Host
               PROVE  /\ server'[g].status # "closing"
                      /\ net'[g] # <<>> => server'[g].status = "up" /\ server'[g].next = AliveInterval
                      /\ \A i \in DOMAIN net'[g] : /\ net'[g][i].type = "alive" /\ ~net'[g][i].old
                                                   /\ net'[g][i].version = server'[g].version
    BY DEF QuietNet
  <2>1. CASE g = h
    BY <2>1, <1>2, <1>3, <1>5, <1>7
  <2>2. CASE g # h
    BY <2>2, <1>1, <1>2, <1>4 DEF Settling, QuietNet
  <2> QED BY <2>1, <2>2
<1>9. Announced'
  <2> SUFFICES ASSUME NEW g \in Host, server'[g].status = "up"
               PROVE  \/ server'[g].next + quiet' <= AliveInterval
                      \/ net'[g] # <<>> /\ (quiet' <= AliveInterval \/ Counted(g)')
                      \/ Counted(g)' /\ observed'[g].age + server'[g].next <= AliveInterval
    BY DEF Announced
  <2>1. CASE g = h
    <3>1. quiet <= AliveInterval \/ Counted(h)
      BY <1>1, <1>3, <1>6, Numbers DEF Settling, Announced
    <3>2. Counted(h) => Counted(h)'
      BY <1>1, <1>2 DEF Counted
    <3> QED BY <2>1, <3>1, <3>2, <1>1, <1>7
  <2>2. CASE g # h
    BY <2>2, <1>1, <1>2, <1>4 DEF Settling, Announced, Counted
  <2> QED BY <2>1, <2>2
<1>10. Silent'
  BY <1>1, <1>2 DEF Settling, Silent
<1> QED BY <1>8, <1>9, <1>10 DEF Settling

\* The event under way is counted.
LEMMA ProcessSettles ==
  ASSUME TypeInv, Settling, quiet' > 0,
         NEW h \in Host, NEW i \in Deliverable(h), NEW l \in Label, process(h, i, l)
  PROVE  Settling'
<1>1. net' = [net EXCEPT ![h] = RemoveAt(@, i)] /\ UNCHANGED <<server, maintained, quiet>>
  BY DEF process
<1>2. /\ \A g \in Host : \A j \in DOMAIN net'[g] : \E k \in DOMAIN net[g] : net'[g][j] = net[g][k]
      /\ net' \in [Host -> Seq(Event)]
  BY <1>1, NetShrinks
<1>3. /\ i \in DOMAIN net[h] /\ net[h][i].type = "alive" /\ net[h][i].version = server[h].version
      /\ \A g \in Host \ {h} : net'[g] = net[g]
  BY <1>1 DEF Deliverable, Settling, QuietNet, TypeInv, TypeOK
<1>4. server[h].status = "up" /\ server[h].next = AliveInterval
  <2>1. net[h] # <<>>
    BY <1>3
  <2> QED BY <1>1, <2>1 DEF Settling, QuietNet
<1>5. observed' = [observed EXCEPT ![h] = [version |-> server[h].version, age |-> 0]]
  BY <1>3 DEF process, processAlive
<1>6. /\ observed'[h].version = server[h].version /\ observed'[h].age = 0
      /\ \A g \in Host \ {h} : observed'[g] = observed[g]
  BY <1>5 DEF TypeInv, TypeOK
<1>7. QuietNet'
  <2> SUFFICES ASSUME NEW g \in Host
               PROVE  /\ server'[g].status # "closing"
                      /\ net'[g] # <<>> => server'[g].status = "up" /\ server'[g].next = AliveInterval
                      /\ \A j \in DOMAIN net'[g] : /\ net'[g][j].type = "alive" /\ ~net'[g][j].old
                                                   /\ net'[g][j].version = server'[g].version
    BY DEF QuietNet
  <2>1. /\ server[g].status # "closing"
        /\ net[g] # <<>> => server[g].status = "up" /\ server[g].next = AliveInterval
        /\ \A k \in DOMAIN net[g] : /\ net[g][k].type = "alive" /\ ~net[g][k].old
                                    /\ net[g][k].version = server[g].version
    BY <1>1 DEF Settling, QuietNet
  <2>2. net'[g] # <<>> => net[g] # <<>>
    BY <1>2, <1>3
  <2> QED BY <2>1, <2>2, <1>1, <1>2
<1>8. Announced'
  <2> SUFFICES ASSUME NEW g \in Host, server'[g].status = "up"
               PROVE  \/ server'[g].next + quiet' <= AliveInterval
                      \/ net'[g] # <<>> /\ (quiet' <= AliveInterval \/ Counted(g)')
                      \/ Counted(g)' /\ observed'[g].age + server'[g].next <= AliveInterval
    BY DEF Announced
  <2>1. CASE g = h
    BY <2>1, <1>1, <1>4, <1>6, Numbers DEF Counted
  <2>2. CASE g # h
    BY <2>2, <1>1, <1>3, <1>6 DEF Settling, Announced, Counted
  <2> QED BY <2>1, <2>2
<1>9. Silent'
  BY <1>1, <1>4, <1>6 DEF Settling, Silent
<1> QED BY <1>7, <1>8, <1>9 DEF Settling

\* maintenance() leaves the young records.
LEMMA MaintenanceSettles ==
  ASSUME TypeInv, Settling, quiet' > 0,
         NEW first \in SUBSET Expired, NEW l \in Label, maintenance(first, l)
  PROVE  Settling'
<1>1. UNCHANGED <<server, net, quiet>>
  BY DEF maintenance
<1>2. \A g \in Host : /\ g \in Expired => observed'[g] = Unseen
                      /\ g \notin Expired => observed'[g] = observed[g]
  BY DEF maintenance
<1>3. QuietNet'
  BY <1>1 DEF Settling, QuietNet
<1>4. Announced'
  <2> SUFFICES ASSUME NEW g \in Host, server'[g].status = "up"
               PROVE  \/ server'[g].next + quiet' <= AliveInterval
                      \/ net'[g] # <<>> /\ (quiet' <= AliveInterval \/ Counted(g)')
                      \/ Counted(g)' /\ observed'[g].age + server'[g].next <= AliveInterval
    BY DEF Announced
  <2>1. Counted(g) => g \notin Expired
    BY Numbers DEF Counted, Expired
  <2>2. Counted(g) => Counted(g)' /\ observed'[g] = observed[g]
    BY <2>1, <1>1, <1>2 DEF Counted
  <2> QED BY <2>2, <1>1 DEF Settling, Announced
<1>5. Silent'
  <2> SUFFICES ASSUME NEW g \in Host, server'[g].status = "down", observed'[g].version # None
               PROVE  observed'[g].age >= quiet' /\ quiet' <= Expire
    BY DEF Silent
  <2>1. g \notin Expired /\ observed'[g] = observed[g]
    BY <1>2 DEF Unseen
  <2>2. observed[g].age <= Expire
    BY <2>1, Numbers DEF Expired
  <2> QED BY <2>1, <2>2, <1>1, Numbers DEF Settling, Silent
<1> QED BY <1>3, <1>4, <1>5 DEF Settling

\* A unit passes.
LEMMA TickSettles ==
  ASSUME TypeInv, Settling, Tick
  PROVE  Settling'
<1>1. /\ \A h \in Host : net[h] = <<>> /\ server[h].status # "closing"
      /\ quiet' = IF quiet > Expire THEN quiet ELSE quiet + 1
      /\ net' = net /\ maintained' = FALSE
  BY DEF Tick
<1>2. QuietNet'
  BY <1>1, TickSteps DEF QuietNet
<1>3. Announced'
  <2> SUFFICES ASSUME NEW g \in Host, server'[g].status = "up"
               PROVE  \/ server'[g].next + quiet' <= AliveInterval
                      \/ Counted(g)' /\ observed'[g].age + server'[g].next <= AliveInterval
    BY DEF Announced
  <2>1. /\ server[g].status = "up" /\ server'[g].next = server[g].next - 1 /\ server[g].next > 0
        /\ server'[g].version = server[g].version
        /\ observed'[g].version = observed[g].version
        /\ observed[g].version # None => observed'[g].age = observed[g].age + 1
    BY TickSteps
  <2>2. observed[g].version = server[g].version => observed[g].version # None
    BY <2>1, NoneIsNoVersion DEF TypeInv, Versioned
  <2>3. \/ server[g].next + quiet <= AliveInterval
        \/ Counted(g) /\ observed[g].age + server[g].next <= AliveInterval
    BY <1>1, <2>1, Numbers DEF Settling, Announced
  <2>4. CASE server[g].next + quiet <= AliveInterval
    BY <2>1, <2>4, <1>1, Numbers
  <2>5. CASE Counted(g) /\ observed[g].age + server[g].next <= AliveInterval
    <3>1. observed'[g].age = observed[g].age + 1 /\ observed'[g].version = server'[g].version
      BY <2>1, <2>2, <2>5 DEF Counted
    <3> QED BY <2>1, <2>5, <3>1, Numbers DEF Counted
  <2> QED BY <2>3, <2>4, <2>5
<1>4. Silent'
  <2> SUFFICES ASSUME NEW g \in Host, server'[g].status = "down", observed'[g].version # None
               PROVE  observed'[g].age >= quiet'
    BY <1>1 DEF Silent
  <2>1. server[g].status = "down" /\ observed[g].version # None /\ observed'[g].age = observed[g].age + 1
    BY TickSteps
  <2> QED BY <2>1, <1>1, Numbers DEF Settling, Silent
<1> QED BY <1>2, <1>3, <1>4 DEF Settling

LEMMA SettlingStep == TypeInv /\ TypeInv' /\ Settling /\ [Next]_vars => Settling'
<1> SUFFICES ASSUME TypeInv, TypeInv', Settling, [Next]_vars PROVE Settling'
  OBVIOUS
<1>1. CASE quiet' = 0
  <2>1. Expire \in Nat /\ \A h \in Host : observed'[h].age \in Nat
    BY TallyAssumption DEF TypeInv, TypeOK
  <2> QED BY <1>1, <2>1 DEF Settling, QuietNet, Announced, Silent
<1>2. CASE quiet' > 0
  <2>1. CASE UNCHANGED <<server, net, observed, maintained, quiet>>
    BY <2>1 DEF Settling, QuietNet, Announced, Silent, Counted
  <2> QED BY <1>2, <2>1, QuietSteps, AliveSettles, ProcessSettles, MaintenanceSettles, TickSettles
<1>3. quiet' \in Nat
  BY TallyAssumption DEF TypeInv, TypeOK
<1> QED BY <1>1, <1>2, <1>3

-----------------------------------------------------------------------------
(* Lost events.                                                            *)

\* What Recent says of one host.
RecentHost(h) ==
  server[h].status = "up" /\ h \in heard /\ observed[h].version # None =>
    /\ lost[h] = 0 => Within(h, 1)
    /\ lost[h] = 1 => Within(h, 2)

LEMMA RecentIs == Recent <=> \A h \in Host : RecentHost(h)
BY DEF Recent, RecentHost

\* A host nothing happens to, and one whose record is new.
LEMMA RecentFrame ==
  ASSUME NEW h \in Host, RecentHost(h), server'[h] = server[h], net'[h] = net[h],
         lost'[h] = lost[h], h \in heard' => h \in heard,
         observed'[h] = observed[h] \/ observed'[h].version = None
  PROVE  RecentHost(h)'
BY DEF RecentHost, Within, Coming

LEMMA RecentFresh ==
  ASSUME TypeInv, NEW h \in Host, server'[h] = server[h], observed'[h].age = 0
  PROVE  RecentHost(h)'
BY Numbers DEF RecentHost, Within

LEMMA RecentStep == TypeInv /\ Recent /\ [Next]_vars => Recent'
<1> SUFFICES ASSUME TypeInv, Recent, [Next]_vars, NEW g \in Host PROVE RecentHost(g)'
  BY DEF Recent, RecentHost
<1>0. RecentHost(g)
  BY RecentIs
<1>1. ASSUME NEW h \in Host, NEW v \in Version, NEW delay \in 0..AliveInterval-1,
             publishStartupEvent(h, v, delay)
      PROVE  RecentHost(g)'
  <2>1. CASE g = h
    BY <2>1, <1>1 DEF publishStartupEvent, RecentHost
  <2>2. CASE g # h
    <3>1. /\ server'[g] = server[g] /\ net'[g] = net[g] /\ lost'[g] = lost[g]
          /\ g \in heard' => g \in heard
          /\ observed'[g] = observed[g]
      BY <2>2, <1>1 DEF publishStartupEvent, recorder, TypeInv, TypeOK
    <3> QED BY <1>0, <3>1, RecentFrame
  <2> QED BY <2>1, <2>2
<1>2. ASSUME NEW h \in Host, publishAliveEvents(h)
      PROVE  RecentHost(g)'
  <2>0. /\ server' = [server EXCEPT ![h].next = AliveInterval] /\ UNCHANGED <<observed, heard, lost>>
        /\ server[h].version \in Version /\ PublishEvent(h, "alive")
    BY <1>2 DEF publishAliveEvents, recorder, TypeInv, Versioned
  <2> DEFINE e == [type |-> "alive", version |-> server[h].version, old |-> FALSE]
  <2>1. /\ \A k \in Host \ {h} : net'[k] = net[k]
        /\ net'[h] = Append(net[h], e) /\ e \in Event /\ ~e.old
    <3>1. /\ \A k \in Host \ {h} : net'[k] = net[k]
          /\ net'[h] = Append(net[h], e) /\ e \in Event
      BY <2>0, NetGrows, Zenon
    <3> QED BY <3>1
  <2> HIDE DEF e
  <2>2. CASE g = h
    <3>1. Coming(h)'
      <4>1. net[h] \in Seq(Event)
        BY DEF TypeInv, TypeOK
      <4>2. Len(net[h]) + 1 \in DOMAIN net'[h] /\ net'[h][Len(net[h]) + 1] = e
        BY <4>1, <2>1
      <4> QED BY <4>2, <2>1 DEF Coming
    <3>2. server'[h].status = server[h].status /\ server'[h].version = server[h].version
      BY <2>0 DEF TypeInv, TypeOK
    <3> QED BY <2>0, <2>2, <3>1, <3>2, <1>0 DEF RecentHost, Within
  <2>3. CASE g # h
    <3>1. server'[g] = server[g]
      BY <2>0, <2>3 DEF TypeInv, TypeOK
    <3> QED BY <1>0, <2>0, <2>1, <2>3, <3>1, RecentFrame
  <2> QED BY <2>2, <2>3
<1>3. ASSUME NEW h \in Host, publishShutdownEvent(h) \/ Close(h) \/ Crash(h)
      PROVE  RecentHost(g)'
  <2>1. /\ server'[h].status # "up"
        /\ \A k \in Host \ {h} : server'[k] = server[k] /\ net'[k] = net[k]
        /\ UNCHANGED <<observed, heard, lost>>
    BY <1>3 DEF publishShutdownEvent, Close, Crash, recorder, PublishEvent, TypeInv, TypeOK
  <2>2. CASE g = h
    BY <2>1, <2>2 DEF RecentHost
  <2>3. CASE g # h
    BY <1>0, <2>1, <2>3, RecentFrame
  <2> QED BY <2>2, <2>3
<1>4. ASSUME NEW h \in Host, NEW i \in Deliverable(h), Lose(h, i)
      PROVE  RecentHost(g)'
  <2>1. /\ UNCHANGED <<server, observed, heard>>
        /\ net' = [net EXCEPT ![h] = RemoveAt(@, i)]
        /\ lost' = [lost EXCEPT ![h] = @ + 1]
    BY <1>4 DEF Lose, recorder
  <2>2. CASE g = h
    <3>1. lost'[h] = lost[h] + 1
      BY <2>1 DEF TypeInv, TypeOK
    <3> QED BY <1>0, <2>1, <2>2, <3>1, Numbers DEF RecentHost, Within
  <2>3. CASE g # h
    <3>1. net'[g] = net[g] /\ lost'[g] = lost[g]
      BY <2>1, <2>3 DEF TypeInv, TypeOK
    <3> QED BY <1>0, <2>1, <2>3, <3>1, RecentFrame
  <2> QED BY <2>2, <2>3
<1>5. ASSUME NEW h \in Host, NEW i \in Deliverable(h), NEW l \in Label, process(h, i, l)
      PROVE  RecentHost(g)'
  <2>1. UNCHANGED server /\ net' = [net EXCEPT ![h] = RemoveAt(@, i)]
    BY <1>5 DEF process
  <2>2. \/ observed' = [observed EXCEPT ![h] = [version |-> net[h][i].version, age |-> 0]]
        \/ observed' = [observed EXCEPT ![h] = Unseen]
    BY <1>5 DEF process, processAlive, processStartup, processShutdown
  <2>3. observed'[h].age = 0 /\ \A k \in Host \ {h} : observed'[k] = observed[k]
    BY <2>2 DEF Unseen, TypeInv, TypeOK
  <2>4. CASE g = h
    BY <2>1, <2>3, <2>4, RecentFresh
  <2>5. CASE g # h
    <3>1. net'[g] = net[g] /\ lost'[g] = lost[g] /\ (g \in heard' => g \in heard)
      BY <1>5, <2>5 DEF process, TypeInv, TypeOK
    <3> QED BY <1>0, <2>1, <2>3, <2>5, <3>1, RecentFrame
  <2> QED BY <2>4, <2>5
<1>6. ASSUME NEW first \in SUBSET Expired, NEW l \in Label, maintenance(first, l)
      PROVE  RecentHost(g)'
  <2>1. UNCHANGED <<server, net, heard, lost>> /\ observed'[g] \in {observed[g], Unseen}
    BY <1>6 DEF maintenance
  <2> QED BY <1>0, <2>1, RecentFrame DEF Unseen
<1>7. ASSUME New
      PROVE  RecentHost(g)'
  BY <1>7 DEF New, RecentHost
<1>8. ASSUME Tick
      PROVE  RecentHost(g)'
  <2>1. net[g] = <<>> /\ UNCHANGED <<net, heard, lost>>
    BY <1>8 DEF Tick
  <2>2. ~Coming(g)
    BY <2>1 DEF Coming
  <2>3. /\ server'[g].status = server[g].status
        /\ server[g].status = "up" => server'[g].next = server[g].next - 1 /\ server[g].next > 0
        /\ observed'[g].version = observed[g].version
        /\ observed[g].version # None => observed'[g].age = observed[g].age + 1
    BY <1>8, TickSteps
  <2>4. ASSUME NEW k \in {1, 2}, server[g].status = "up", observed[g].version # None, Within(g, k)
        PROVE  Within(g, k)'
    BY <2>2, <2>3, <2>4, Numbers DEF Within
  <2> QED BY <1>0, <2>1, <2>3, <2>4 DEF RecentHost
<1>9. ASSUME Leadership \/ UNCHANGED vars
      PROVE  RecentHost(g)'
  <2>1. UNCHANGED <<server, net, heard, lost, observed>>
    BY <1>9 DEF Leadership, vars
  <2> QED BY <1>0, <2>1, RecentFrame
<1> QED BY <1>1, <1>2, <1>3, <1>4, <1>5, <1>6, <1>7, <1>8, <1>9 DEF Next

-----------------------------------------------------------------------------
(* Results.                                                                *)

LEMMA Invariance == Spec => []Inv
<1>1. Init => Settling /\ Recent
  <2> SUFFICES ASSUME Init PROVE Settling /\ Recent
    OBVIOUS
  <2>1. heard = {}
    BY DEF Init
  <2>2. Recent
    BY <2>1 DEF Recent
  <2> QED BY <2>2, SettlingInit
<1>2. TypeInv /\ TypeInv' /\ Settling /\ Recent /\ [Next]_vars => Settling' /\ Recent'
  BY SettlingStep, RecentStep
<1>3. Spec => [](TypeInv /\ NetTally /\ Settling /\ Recent)
  BY <1>1, <1>2, TypeAndTally, PTL DEF Spec
<1>4. TypeInv /\ NetTally /\ Settling /\ Recent => Inv
  BY DEF Inv, Settling
<1> QED BY <1>3, <1>4, PTL

\* The variables keep their types (all of tally.go and lifecycle.go that the
\* module models).
THEOREM TypeCorrect == Spec => []TypeOK
<1>1. Inv => TypeOK
  BY DEF Inv, TypeInv
<1> QED BY <1>1, Invariance, PTL

\* Whatever the order of events, expiries and callbacks of the election, the
\* gauges of a version over both labels count the hosts observed with it, and
\* without an election the gauge with label 1 is that count
\* (processAlive(), processStartup(), processShutdown(), maintenance()).
THEOREM GaugesCount == Spec => []NetTally
<1>1. Inv => NetTally
  BY DEF Inv
<1> QED BY <1>1, Invariance, PTL

\* Once an alive interval passed without a change or a fault every running server
\* is counted under its version, and once the limit passed and maintenance() ran
\* no server that ended is.
THEOREM Settles == Spec => []TallySettles
<1>1. Inv => TallySettles
  <2> SUFFICES ASSUME Inv PROVE TallySettles
    OBVIOUS
  <2>1. RunningIsCounted
    <3> SUFFICES ASSUME NEW h \in Host, server[h].status = "up", quiet > AliveInterval
                 PROVE  observed[h].version = server[h].version
      BY DEF RunningIsCounted
    <3>1. quiet > 0 /\ ~(quiet <= AliveInterval) /\ ~(server[h].next + quiet <= AliveInterval)
      BY Numbers DEF Inv
    <3> QED BY <3>1 DEF Inv, Announced, Counted
  <2>2. EndedIsForgotten
    <3> SUFFICES ASSUME NEW h \in Host, server[h].status = "down", quiet > Expire, maintained
                 PROVE  observed[h].version = None
      BY DEF EndedIsForgotten
    <3>1. ~(quiet <= Expire)
      BY Numbers DEF Inv
    <3> QED BY <3>1 DEF Inv, Silent
  <2> QED BY <2>1, <2>2 DEF TallySettles
<1> QED BY <1>1, Invariance, PTL

\* maintenance() never forgets a running server it heard of because one of its
\* events was lost: two alive intervals are within the limit.
THEOREM ToleratesOneLoss == Spec => OneLossIsTolerated
<1> DEFINE Tolerated ==
      \A h \in Host : /\ observed[h].version # None /\ observed'[h].version = None
                      /\ ~maintained /\ maintained'
                      => server[h].status # "up" \/ h \notin heard \/ lost[h] > 1
<1>1. Inv /\ [Next]_vars => [Tolerated]_vars
  <2> SUFFICES ASSUME Inv, Next, NEW h \in Host, observed[h].version # None,
                      observed'[h].version = None, ~maintained, maintained',
                      server[h].status = "up", h \in heard
               PROVE  lost[h] > 1
    OBVIOUS
  <2>1. PICK first \in SUBSET Expired, l \in Label : maintenance(first, l)
    BY DEF Next, publishStartupEvent, publishAliveEvents, publishShutdownEvent, Close, Crash,
           Lose, process, Leadership, New, Tick, recorder
  <2>2. h \in Expired
    BY <2>1 DEF maintenance
  <2>3. observed[h].age > Expire
    BY <2>2 DEF Expired
  <2>4. ~Within(h, 1) /\ ~Within(h, 2)
    BY <2>3, Numbers DEF Within, Inv
  <2>5. lost[h] # 0 /\ lost[h] # 1
    BY <2>4 DEF Inv, Recent
  <2> QED BY <2>5, Numbers DEF Inv
<1> QED BY <1>1, Invariance, PTL DEF Spec, OneLossIsTolerated
=============================================================================
