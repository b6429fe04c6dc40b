------------------------ MODULE ExternalAgentsProofs ------------------------
(***************************************************************************)
(* Proofs about ExternalAgents, for any number of places, agents, versions *)
(* and collectives: the server is subscribed for the agents it has and,    *)
(* unless subscribing or unsubscribing failed, for no others, and the list *)
(* of the provider is what the Manager has unless several agents went at   *)
(* once.                                                                   *)
(***************************************************************************)
EXTENDS ExternalAgents, FiniteSetTheorems, FunctionTheorems, SequenceTheorems, WellFoundedInduction, TLAPS

\* What SubscriptionsMatch says of one agent.
SubscribedTo(n) ==
  /\ agents[n] # NoDDL => subs[n] = Collective /\ \A c \in Collective : conn[n][c] > 0
  /\ \A c \in Collective : n \notin leaky => conn[n][c] = Registered(n)
  /\ \A c \in Collective : conn[n][c] <= Registered(n) + fails
  /\ agents[n] = NoDDL /\ n \notin leaky => subs[n] = NoSubs

Subscribed == \A n \in Name : SubscribedTo(n)

\* The list has no two DDLs of an agent.
Distinct ==
  \A i, j \in DOMAIN listed : NameOfDDL(listed[i]) = NameOfDDL(listed[j]) => i = j

\* The indices to remove are those of entries that were looked at; as long as no
\* more than one is removed at a time they fit, and there is no panic.
Indices ==
  /\ pc \in {"idle", "scan", "register", "upgrade"} => orphans = <<>>
  /\ pc = "orphan" => \A k \in DOMAIN orphans : orphans[k] \in DOMAIN listed /\ orphans[k] < ix
  /\ pc = "remove" /\ ~multi => /\ Len(orphans) <= 1
                                /\ ix = 1 => \A k \in DOMAIN orphans : orphans[k] \in DOMAIN listed
  /\ pc = "crashed" => multi

\* The entry is to be removed: its agent is not registered any more.
Gone(i) == \E k \in DOMAIN orphans : orphans[k] = i /\ (pc = "orphan" \/ k >= ix)

\* An entry is the DDL its agent was registered with, and there is one for
\* every agent that is registered.
Entries(n) ==
  /\ \A i \in DOMAIN listed : NameOfDDL(listed[i]) = n =>
       agents[n] = IF Gone(i) THEN NoDDL ELSE listed[i]
  /\ agents[n] # NoDDL => n \in Names(listed)

InStep == ~multi => \A n \in Name \ spoiled : Entries(n)

Inv == TypeOK /\ Subscribed /\ Distinct /\ Indices /\ InStep

-----------------------------------------------------------------------------
(* Sequences, names and places.                                            *)

LEMMA Part ==
  ASSUME NEW s, NEW m \in Nat, NEW n \in Nat, m >= 1, m <= n + 1,
         \A k \in m..n : s[k] \in DDL
  PROVE  /\ SubSeq(s, m, n) \in Seq(DDL)
         /\ Len(SubSeq(s, m, n)) = n - m + 1
         /\ \A k \in 1..n-m+1 : SubSeq(s, m, n)[k] = s[m+k-1]
<1>1. m \in Int /\ n \in Int
  OBVIOUS
<1>2. SubSeq(s, m, n) \in Seq(DDL)
  BY <1>1, SubSeqProperties
<1>3. Len(SubSeq(s, m, n)) = IF m <= n THEN n-m+1 ELSE 0
  BY <1>1, SubSeqProperties
<1>4. \A k \in 1..n-m+1 : SubSeq(s, m, n)[k] = s[m+k-1]
  BY <1>1, SubSeqProperties
<1> QED BY <1>2, <1>3, <1>4

\* What append(list[:i], list[i+1:]...) makes of a list.
LEMMA Cut ==
  ASSUME NEW s \in Seq(DDL), NEW i \in DOMAIN s
  PROVE  /\ RemoveAt(s, i) \in Seq(DDL)
         /\ DOMAIN RemoveAt(s, i) = 1..Len(s)-1
         /\ \A j \in 1..Len(s)-1 : RemoveAt(s, i)[j] = s[IF j < i THEN j ELSE j + 1]
<1> DEFINE a == SubSeq(s, 1, i-1)
           b == SubSeq(s, i+1, Len(s))
           r == a \o b
<1>1. i \in 1..Len(s) /\ Len(s) \in Nat /\ DOMAIN s = 1..Len(s)
  BY LenProperties
<1>2. \A k \in 1..Len(s) : s[k] \in DDL
  BY LenProperties
<1>3. /\ a \in Seq(DDL) /\ Len(a) = i - 1
      /\ \A j \in 1..i-1 : a[j] = s[j]
  <2> DEFINE n == i - 1
  <2>1. 1 \in Nat /\ n \in Nat /\ 1 >= 1 /\ 1 <= n + 1 /\ \A k \in 1..n : s[k] \in DDL
    BY <1>1, <1>2
  <2> HIDE DEF n, a
  <2>2. a = SubSeq(s, 1, n)
    BY DEF a, n
  <2>3. /\ a \in Seq(DDL) /\ Len(a) = n-1+1
        /\ \A j \in 1..n-1+1 : a[j] = s[1+j-1]
    BY <2>1, <2>2, Part, Zenon
  <2> QED BY <1>1, <2>3 DEF n
<1>4. /\ b \in Seq(DDL) /\ Len(b) = Len(s) - i
      /\ \A j \in 1..Len(s)-i : b[j] = s[i+j]
  <2> DEFINE m == i + 1
             n == Len(s)
  <2>1. m \in Nat /\ n \in Nat /\ m >= 1 /\ m <= n + 1 /\ \A k \in m..n : s[k] \in DDL
    BY <1>1, <1>2
  <2> HIDE DEF m, n, b
  <2>2. b = SubSeq(s, m, n)
    BY DEF b, m, n
  <2>3. /\ b \in Seq(DDL) /\ Len(b) = n-m+1
        /\ \A j \in 1..n-m+1 : b[j] = s[m+j-1]
    BY <2>1, <2>2, Part, Zenon
  <2> QED BY <1>1, <2>3 DEF m, n
<1>5. RemoveAt(s, i) = r
  BY DEF RemoveAt
<1> HIDE DEF a, b, r
<1>6. /\ r \in Seq(DDL) /\ Len(r) = Len(a) + Len(b)
      /\ \A j \in 1..Len(a) + Len(b) : r[j] = IF j <= Len(a) THEN a[j] ELSE b[j - Len(a)]
  BY <1>3, <1>4, ConcatProperties, Zenon DEF r
<1>7. DOMAIN r = 1..Len(s)-1 /\ Len(a) + Len(b) = Len(s) - 1
  BY <1>1, <1>3, <1>4, <1>6, LenProperties
<1>8. ASSUME NEW j \in 1..Len(s)-1 PROVE r[j] = s[IF j < i THEN j ELSE j + 1]
  <2>1. CASE j < i
    <3>1. r[j] = a[j] /\ j \in 1..i-1
      BY <2>1, <1>1, <1>3, <1>6, <1>7
    <3> QED BY <3>1, <1>3, <2>1
  <2>2. CASE ~(j < i)
    <3>1. ~(j <= Len(a)) /\ Len(a) = i - 1 /\ j \in 1..Len(a) + Len(b)
      BY <2>2, <1>1, <1>3, <1>7
    <3>2. r[j] = b[j - (i-1)]
      BY <3>1, <1>6
    <3>3. j - (i-1) \in 1..Len(s)-i
      BY <2>2, <1>1
    <3>4. b[j - (i-1)] = s[i + (j - (i-1))]
      BY <3>3, <1>4
    <3>5. i + (j - (i-1)) = j + 1
      BY <1>1
    <3> QED BY <3>2, <3>4, <3>5, <2>2
  <2> QED BY <2>1, <2>2
<1> QED BY <1>5, <1>6, <1>7, <1>8

\* Every other entry stays, and keeps its order.
LEMMA CutKeeps ==
  ASSUME NEW s \in Seq(DDL), NEW i \in DOMAIN s
  PROVE  /\ \A j \in DOMAIN RemoveAt(s, i) :
              LET k == IF j < i THEN j ELSE j + 1
              IN  k \in DOMAIN s /\ k # i /\ RemoveAt(s, i)[j] = s[k]
         /\ \A k \in DOMAIN s : k # i => \E j \in DOMAIN RemoveAt(s, i) : RemoveAt(s, i)[j] = s[k]
<1> DEFINE r == RemoveAt(s, i)
<1>1. i \in 1..Len(s) /\ Len(s) \in Nat /\ DOMAIN s = 1..Len(s)
  BY LenProperties
<1>2. /\ DOMAIN r = 1..Len(s)-1
      /\ \A j \in 1..Len(s)-1 : r[j] = s[IF j < i THEN j ELSE j + 1]
  BY Cut
<1> HIDE DEF r
<1>3. \A j \in DOMAIN r : LET k == IF j < i THEN j ELSE j + 1
                          IN  k \in DOMAIN s /\ k # i /\ r[j] = s[k]
  BY <1>1, <1>2
<1>4. ASSUME NEW k \in DOMAIN s, k # i PROVE \E j \in DOMAIN r : r[j] = s[k]
  <2>1. CASE k < i
    <3>1. k \in DOMAIN r /\ k \in 1..Len(s)-1
      BY <2>1, <1>1, <1>2
    <3>2. r[k] = s[k]
      BY <2>1, <3>1, <1>2
    <3> QED BY <3>1, <3>2
  <2>2. CASE ~(k < i)
    <3>1. k-1 \in DOMAIN r /\ k-1 \in 1..Len(s)-1 /\ ~(k-1 < i) /\ (k-1)+1 = k
      BY <2>2, <1>1, <1>2, <1>4
    <3>2. r[k-1] = s[(k-1)+1]
      BY <3>1, <1>2
    <3> QED BY <3>1, <3>2
  <2> QED BY <2>1, <2>2
<1> QED BY <1>3, <1>4 DEF r

LEMMA Least ==
  ASSUME NEW T, T \subseteq Nat, T # {}
  PROVE  Min(T) \in T
<1> DEFINE R == OpToRel(<, Nat)
<1>1. IsWellFoundedOn(R, Nat)
  BY NatLessThanWellFounded
<1>2. \A x, y \in Nat : x < y => <<x, y>> \in R
  BY DEF OpToRel
<1> HIDE DEF R
<1>3. PICK x \in T : \A y \in T : ~(<<y, x>> \in R)
  BY <1>1, WFMin
<1>4. \A y \in T : x <= y
  <2> TAKE y \in T
  <2>1. x \in Nat /\ y \in Nat
    OBVIOUS
  <2>2. ~(y < x)
    BY <1>2, <1>3, <2>1
  <2> QED BY <2>1, <2>2
<1> QED BY <1>4 DEF Min

\* The DDLs of the places that have one, and their names.
LEMMA Places ==
  /\ NoDDL \notin DDL
  /\ \A d \in DDL : NameOfDDL(d) \in Name /\ d.file \in File /\ d.version # 0
BY ExternalAgentsAssumption DEF NoDDL, DDL, File, Name, NameOfDDL

LEMMA FoundIsDDL ==
  ASSUME TypeOK, NEW f \in File, found[f] # 0
  PROVE  Found(f) \in DDL /\ NameOfDDL(Found(f)) = NameOf[f]
BY ExternalAgentsAssumption DEF TypeOK, Found, DDL, NameOfDDL

LEMMA WantedIsNew ==
  ASSUME TypeOK, NEW f \in File, Wanted(Found(f))
  PROVE  Found(f) \in DDL /\ NameOfDDL(Found(f)) \notin Names(listed)
<1>1. found[f] # 0
  BY DEF Wanted, Found
<1> QED BY <1>1, FoundIsDDL DEF Wanted

LEMMA UpgradeIsDDL ==
  ASSUME TypeOK, NEW d \in DDL, Candidates(d) # {}
  PROVE  /\ Found(Min(Candidates(d))) \in DDL
         /\ NameOfDDL(Found(Min(Candidates(d)))) = NameOfDDL(d)
<1>1. Candidates(d) \subseteq Nat
  BY DEF Candidates, File
<1>2. Min(Candidates(d)) \in Candidates(d)
  BY <1>1, Least
<1>3. PICK f \in File : f = Min(Candidates(d)) /\ found[f] # 0 /\ NameOf[f] = NameOfDDL(d)
  BY <1>2 DEF Candidates
<1> QED BY <1>3, FoundIsDDL

-----------------------------------------------------------------------------
(* Types.                                                                  *)

\* What the Manager and the connection hold.
ManagerType ==
  /\ agents \in [Name -> DDL \cup {NoDDL}]
  /\ subs \in [Name -> (SUBSET Collective) \cup {NoSubs}]
  /\ conn \in [Name -> [Collective -> Nat]]

\* What the provider holds.
ProviderType ==
  /\ pc \in {"idle", "scan", "register", "upgrade", "orphan", "remove", "crashed"}
  /\ found \in [File -> 0..MaxVersion] /\ listed \in Seq(DDL)
  /\ ix \in Nat \ {0} /\ orphans \in Seq(Nat \ {0})
  /\ paths \in [Name -> 0..NFiles]

DiskType ==
  /\ disk \in [File -> 0..MaxVersion]
  /\ fresh \in [File -> BOOLEAN]
  /\ edits \in 0..MaxEdits

HistoryType ==
  fails \in 0..MaxFails /\ multi \in BOOLEAN /\ spoiled \subseteq Name /\ leaky \subseteq Name

LEMMA TypeParts == TypeOK <=> ManagerType /\ ProviderType /\ DiskType /\ HistoryType
BY DEF TypeOK, ManagerType, ProviderType, DiskType, HistoryType

LEMMA Bounds ==
  /\ NFiles \in Nat /\ MaxVersion \in Nat /\ MaxEdits \in Nat /\ MaxFails \in Nat
  /\ NCollectives \in Nat /\ 1 \in Collective
BY ExternalAgentsAssumption DEF Collective

LEMMA TypeInit == Init => TypeOK
<1> SUFFICES ASSUME Init PROVE TypeOK
  OBVIOUS
<1>1. ManagerType
  <2>1. agents \in [Name -> DDL \cup {NoDDL}]
    BY DEF Init
  <2>2. subs \in [Name -> (SUBSET Collective) \cup {NoSubs}]
    BY DEF Init
  <2>3. conn \in [Name -> [Collective -> Nat]]
    BY DEF Init
  <2> QED BY <2>1, <2>2, <2>3 DEF ManagerType
<1>2. ProviderType
  BY Bounds, EmptySeq DEF Init, ProviderType, Nothing
<1>3. DiskType
  <2>1. fresh \in [File -> BOOLEAN]
    BY DEF Init
  <2>2. disk \in [File -> 0..MaxVersion] /\ edits \in 0..MaxEdits
    BY Bounds DEF Init
  <2> QED BY <2>1, <2>2 DEF DiskType
<1>4. HistoryType
  <2>1. multi \in BOOLEAN
    BY DEF Init
  <2>2. fails \in 0..MaxFails /\ spoiled \subseteq Name /\ leaky \subseteq Name
    BY Bounds DEF Init
  <2> QED BY <2>1, <2>2 DEF HistoryType
<1> QED BY <1>1, <1>2, <1>3, <1>4, TypeParts

\* The parts that a step leaves alone.
LEMMA TypeFrame ==
  ASSUME TypeOK
  PROVE  /\ UNCHANGED manager => ManagerType'
         /\ UNCHANGED <<disk, fresh, edits>> => DiskType'
         /\ UNCHANGED <<fails, multi, spoiled, leaky>> => HistoryType'
         /\ UNCHANGED provider => ProviderType'
BY TypeParts DEF ManagerType, ProviderType, DiskType, HistoryType, manager, provider

LEMMA FileSteps ==
  ASSUME TypeOK, NEW f \in File
  PROVE  /\ \A v \in 0..MaxVersion : Edit(f, v) => TypeOK'
         /\ Age(f) => TypeOK'
<1>1. ASSUME NEW v \in 0..MaxVersion, Edit(f, v) PROVE TypeOK'
  <2>1. UNCHANGED <<provider, manager, fails, multi, spoiled, leaky>>
    BY <1>1 DEF Edit
  <2>2. disk' \in [File -> 0..MaxVersion]
    BY <1>1 DEF Edit, TypeOK
  <2>3. fresh' \in [File -> BOOLEAN]
    BY <1>1 DEF Edit, TypeOK
  <2>4. edits' \in 0..MaxEdits
    BY <1>1, Bounds DEF Edit, TypeOK
  <2>5. DiskType'
    BY <2>2, <2>3, <2>4 DEF DiskType
  <2>6. ManagerType' /\ ProviderType' /\ HistoryType'
    BY <2>1, TypeFrame
  <2> QED BY <2>5, <2>6 DEF TypeOK, ManagerType, ProviderType, DiskType, HistoryType
<1>2. ASSUME Age(f) PROVE TypeOK'
  <2>1. UNCHANGED <<disk, edits, provider, manager, fails, multi, spoiled, leaky>>
    BY <1>2 DEF Age
  <2>2. fresh' \in [File -> BOOLEAN]
    BY <1>2 DEF Age, TypeOK
  <2>3. DiskType'
    BY <2>1, <2>2 DEF DiskType, TypeOK
  <2>4. ManagerType' /\ ProviderType' /\ HistoryType'
    BY <2>1, TypeFrame
  <2> QED BY <2>3, <2>4 DEF TypeOK, ManagerType, ProviderType, DiskType, HistoryType
<1> QED BY <1>1, <1>2

\* Adding and removing subscriptions.
LEMMA Counts ==
  ASSUME TypeOK, NEW n \in Name, NEW cs
  PROVE  More(n, cs) \in [Collective -> Nat] /\ Less(n, cs) \in [Collective -> Nat]
<1>1. \A c \in Collective : conn[n][c] \in Nat
  BY DEF TypeOK
<1> QED BY <1>1 DEF More, Less

LEMMA Connected ==
  ASSUME TypeOK, NEW n \in Name, NEW x \in [Collective -> Nat]
  PROVE  [conn EXCEPT ![n] = x] \in [Name -> [Collective -> Nat]]
BY DEF TypeOK

\* What registering, replacing and removing an agent do to the Manager.
LEMMA ManagerSteps ==
  ASSUME TypeOK, NEW d \in DDL, NEW n \in Name
  PROVE  /\ \A ok \in BOOLEAN : RegisterAccepted(d, ok) => ManagerType'
         /\ \A ok \in BOOLEAN : RegisterRefused(d, ok) => ManagerType'
         /\ \A c \in Collective : \A left : SubscribeFails(d, c, left) => ManagerType'
         /\ \A k \in Nat : Unregister(n, k) => ManagerType'
<1> DEFINE m == NameOfDDL(d)
<1>1. m \in Name
  BY Places
<1>2. /\ agents \in [Name -> DDL \cup {NoDDL}]
      /\ subs \in [Name -> (SUBSET Collective) \cup {NoSubs}]
  BY DEF TypeOK
<1>3. ASSUME NEW ok \in BOOLEAN, RegisterAccepted(d, ok) PROVE ManagerType'
  <2>1. CASE UNCHANGED manager
    BY <2>1, TypeFrame
  <2>2. CASE /\ agents' = [agents EXCEPT ![m] = d]
             /\ subs' = [subs EXCEPT ![m] = Collective]
             /\ conn' = [conn EXCEPT ![m] = More(m, Collective)]
    <3> HIDE DEF m
    <3>1. agents' \in [Name -> DDL \cup {NoDDL}]
      BY <2>2, <1>1, <1>2
    <3>2. subs' \in [Name -> (SUBSET Collective) \cup {NoSubs}]
      <4>1. Collective \in (SUBSET Collective) \cup {NoSubs}
        OBVIOUS
      <4> QED BY <4>1, <2>2, <1>1, <1>2
    <3>3. conn' \in [Name -> [Collective -> Nat]]
      BY <2>2, <1>1, Counts, Connected
    <3> QED BY <3>1, <3>2, <3>3 DEF ManagerType
  <2> QED BY <1>3, <2>1, <2>2 DEF RegisterAccepted
<1>4. ASSUME NEW ok \in BOOLEAN, RegisterRefused(d, ok) PROVE ManagerType'
  BY <1>4, TypeFrame DEF RegisterRefused
<1>5. ASSUME NEW c \in Collective, NEW left, SubscribeFails(d, c, left) PROVE ManagerType'
  <2>1. /\ subs' = [subs EXCEPT ![m] = 1..(c - 1)]
        /\ conn' = [conn EXCEPT ![m] = More(m, left)]
        /\ agents' = agents
    BY <1>5 DEF SubscribeFails
  <2> HIDE DEF m
  <2>2. 1..(c-1) \in SUBSET Collective
    BY Bounds DEF Collective
  <2>3. subs' \in [Name -> (SUBSET Collective) \cup {NoSubs}]
    <3>1. 1..(c-1) \in (SUBSET Collective) \cup {NoSubs}
      BY <2>2
    <3> DEFINE X == 1..(c-1)
    <3> HIDE DEF X
    <3>2. subs' = [subs EXCEPT ![m] = X]
      BY <2>1 DEF X
    <3>3. X \in (SUBSET Collective) \cup {NoSubs}
      BY <3>1 DEF X
    <3> QED BY <3>2, <3>3, <1>1, <1>2
  <2>4. conn' \in [Name -> [Collective -> Nat]]
    BY <2>1, <1>1, Counts, Connected
  <2> QED BY <2>1, <2>3, <2>4, <1>2 DEF ManagerType
<1>6. ASSUME NEW k \in Nat, Unregister(n, k) PROVE ManagerType'
  <2>1. /\ agents' = [agents EXCEPT ![n] = NoDDL] /\ subs' = [subs EXCEPT ![n] = NoSubs]
        /\ conn' = [conn EXCEPT ![n] = Less(n, {c \in subs[n] : c < k})]
    BY <1>6 DEF Unregister
  <2>2. agents' \in [Name -> DDL \cup {NoDDL}]
    BY <2>1, <1>2
  <2>3. subs' \in [Name -> (SUBSET Collective) \cup {NoSubs}]
    BY <2>1, <1>2
  <2>4. conn' \in [Name -> [Collective -> Nat]]
    BY <2>1, Counts, Connected
  <2> QED BY <2>2, <2>3, <2>4 DEF ManagerType
<1> QED BY <1>3, <1>4, <1>5, <1>6

\* What a failure adds to the history.
LEMMA FailureType ==
  ASSUME TypeOK, NEW n \in Name,
         fails' = fails \/ (fails < MaxFails /\ fails' = fails + 1),
         leaky' = leaky \/ leaky' = leaky \cup {n}
  PROVE  fails' \in 0..MaxFails /\ leaky' \subseteq Name
BY Bounds DEF TypeOK

\* ok is a truth value.
LEMMA Answers == Activation \subseteq BOOLEAN
BY ExternalAgentsAssumption

\* The subscriptions that are left over are of collectives.
LEMMA Lefts == \A c \in Collective : SUBSET (1..c) \subseteq SUBSET Nat
BY Bounds DEF Collective

LEMMA RegisterSteps ==
  ASSUME TypeOK
  PROVE  /\ \A ok \in Activation : RegisterNew(ok) => TypeOK'
         /\ RegisterFails => TypeOK'
<1> DEFINE d == Found(ix)
           n == NameOfDDL(d)
<1>1. ASSUME NEW ok \in Activation, RegisterNew(ok) PROVE TypeOK'
  <2>1. /\ ix \in File /\ Wanted(d) /\ RegisterAccepted(d, ok)
        /\ listed' = Append(listed, d)
        /\ paths' = [paths EXCEPT ![n] = d.file]
        /\ spoiled' = IF ok THEN spoiled ELSE spoiled \cup {n}
        /\ ix' = ix + 1
        /\ UNCHANGED <<pc, found, orphans, disk, fresh, edits, fails, multi, leaky>>
    BY <1>1 DEF RegisterNew, Advance
  <2>2. d \in DDL /\ n \in Name /\ d.file \in File
    BY <2>1, WantedIsNew, Places
  <2> HIDE DEF d, n
  <2>3. listed' \in Seq(DDL)
    BY <2>1, <2>2, AppendProperties DEF TypeOK
  <2>4. paths' \in [Name -> 0..NFiles]
    BY <2>1, <2>2, Bounds DEF TypeOK, File
  <2>5. ProviderType'
    BY <2>1, <2>3, <2>4 DEF ProviderType, TypeOK
  <2>6. ManagerType'
    BY <2>1, <2>2, Answers, ManagerSteps
  <2>7. HistoryType'
    BY <2>1, <2>2 DEF HistoryType, TypeOK
  <2>8. DiskType'
    BY <2>1, TypeFrame
  <2> QED BY <2>5, <2>6, <2>7, <2>8 DEF TypeOK, ManagerType, ProviderType, DiskType, HistoryType
<1>2. ASSUME RegisterFails PROVE TypeOK'
  <2>1. /\ ix \in File /\ Wanted(d)
        /\ \/ \E ok \in Activation : RegisterRefused(d, ok)
           \/ \E c \in Collective, left \in SUBSET Nat : SubscribeFails(d, c, left)
        /\ ix' = ix + 1
        /\ UNCHANGED <<pc, found, orphans, disk, fresh, edits, listed, paths, multi>>
    BY <1>2, Lefts DEF RegisterFails, Advance
  <2>2. d \in DDL /\ n \in Name
    BY <2>1, WantedIsNew, Places
  <2> HIDE DEF d, n
  <2>3. ProviderType'
    BY <2>1 DEF ProviderType, TypeOK
  <2>4. ManagerType'
    BY <2>1, <2>2, Answers, ManagerSteps
  <2>5. /\ fails' = fails \/ (fails < MaxFails /\ fails' = fails + 1)
        /\ leaky' = leaky \/ leaky' = leaky \cup {n}
        /\ spoiled' = spoiled \/ spoiled' = spoiled \cup {n}
    BY <2>1 DEF RegisterRefused, SubscribeFails, n
  <2>6. HistoryType'
    <3>1. fails' \in 0..MaxFails /\ leaky' \subseteq Name
      BY <2>2, <2>5, FailureType
    <3> QED BY <3>1, <2>1, <2>2, <2>5 DEF HistoryType, TypeOK
  <2>7. DiskType'
    BY <2>1, TypeFrame
  <2> QED BY <2>3, <2>4, <2>6, <2>7 DEF TypeOK, ManagerType, ProviderType, DiskType, HistoryType
<1> QED BY <1>1, <1>2

\* The steps that only move on.
Move == (\E ok \in BOOLEAN : Scan(ok)) \/ ScanDone \/ RegisterSkip \/ RegisterDone \/ UpgradeSkip \/ UpgradeDone \/ OrphanSkip
        \/ OrphansDone \/ ReconcileDone

\* They leave the list and the Manager alone, and nothing goes wrong but that a
\* DDL is not read.
LEMMA MoveFrame ==
  ASSUME Move
  PROVE  /\ UNCHANGED <<disk, fresh, edits, listed, paths, manager, spoiled, leaky>>
         /\ fails' = fails \/ (fails < MaxFails /\ fails' = fails + 1)
BY DEF Move, Scan, ScanDone, RegisterSkip, RegisterDone, UpgradeSkip, UpgradeDone, OrphanSkip,
       OrphansDone, ReconcileDone, Advance

LEMMA MoveSteps ==
  ASSUME TypeOK, Move
  PROVE  TypeOK'
<1>1. /\ UNCHANGED <<disk, fresh, edits, listed, paths, manager, spoiled, leaky>>
      /\ fails' = fails \/ (fails < MaxFails /\ fails' = fails + 1)
  BY MoveFrame
<1>2. pc' \in {"idle", "scan", "register", "upgrade", "orphan", "remove", "crashed"}
  BY DEF Move, Scan, ScanDone, RegisterSkip, RegisterDone, UpgradeSkip, UpgradeDone, OrphanSkip,
         OrphansDone, ReconcileDone, Advance, TypeOK
<1>3. found' \in [File -> 0..MaxVersion]
  <2>1. \/ found' = found \/ found' = Nothing
        \/ ix \in File /\ \E v \in {0, disk[ix]} : found' = [found EXCEPT ![ix] = v]
    BY DEF Move, Scan, ScanDone, RegisterSkip, RegisterDone, UpgradeSkip, UpgradeDone, OrphanSkip,
           OrphansDone, ReconcileDone, Advance
  <2>2. Nothing \in [File -> 0..MaxVersion]
    BY Bounds DEF Nothing
  <2>3. \A v \in {0, disk[ix]} : ix \in File => v \in 0..MaxVersion
    BY Bounds DEF TypeOK
  <2> QED BY <2>1, <2>2, <2>3 DEF TypeOK
<1>4. ix' \in Nat \ {0}
  <2>1. ix' = 1 \/ ix' = ix + 1
    BY DEF Move, Scan, ScanDone, RegisterSkip, RegisterDone, UpgradeSkip, UpgradeDone, OrphanSkip,
           OrphansDone, ReconcileDone, Advance
  <2> QED BY <2>1 DEF TypeOK
<1>5. orphans' \in Seq(Nat \ {0})
  <2>1. orphans' = orphans \/ orphans' = <<>>
    BY DEF Move, Scan, ScanDone, RegisterSkip, RegisterDone, UpgradeSkip, UpgradeDone, OrphanSkip,
           OrphansDone, ReconcileDone, Advance
  <2> QED BY <2>1, EmptySeq DEF TypeOK
<1>6. multi' \in BOOLEAN
  <2>1. multi' = multi \/ multi' = (multi \/ Len(orphans) > 1)
    BY DEF Move, Scan, ScanDone, RegisterSkip, RegisterDone, UpgradeSkip, UpgradeDone, OrphanSkip,
           OrphansDone, ReconcileDone, Advance
  <2>2. multi \in BOOLEAN
    BY DEF TypeOK
  <2> QED BY <2>1, <2>2, Zenon
<1>7. ProviderType'
  BY <1>1, <1>2, <1>3, <1>4, <1>5 DEF ProviderType, TypeOK
<1>8. HistoryType'
  <2>1. fails' \in 0..MaxFails /\ spoiled' \subseteq Name /\ leaky' \subseteq Name
    BY <1>1, Bounds DEF TypeOK
  <2> QED BY <2>1, <1>6 DEF HistoryType
<1>9. ManagerType' /\ DiskType'
  BY <1>1, TypeFrame
<1> QED BY <1>7, <1>8, <1>9 DEF TypeOK, ManagerType, ProviderType, DiskType, HistoryType

\* What Upgrade does, with the entry it is at.
LEMMA UpgradeEffect ==
  ASSUME TypeOK, NEW ok \in Activation, Upgrade(ok)
  PROVE  \E d \in DDL :
           /\ pc = "upgrade" /\ ix \in DOMAIN listed /\ listed[ix] \in DDL
           /\ NameOfDDL(d) = NameOfDDL(listed[ix])
           /\ \/ /\ agents[NameOfDDL(d)] # NoDDL
                 /\ agents' = [agents EXCEPT ![NameOfDDL(d)] = d]
                 /\ listed' = [listed EXCEPT ![ix] = d]
                 /\ paths' = [paths EXCEPT ![NameOfDDL(d)] = d.file]
                 /\ UNCHANGED spoiled
              \/ /\ spoiled' = spoiled \/ spoiled' = spoiled \cup {NameOfDDL(d)}
                 /\ UNCHANGED <<agents, listed, paths>>
           /\ ix' = ix + 1
           /\ UNCHANGED <<pc, found, orphans, disk, fresh, edits, subs, conn, fails, multi, leaky>>
<1>1. pc = "upgrade" /\ ix \in DOMAIN listed /\ Candidates(listed[ix]) # {}
  BY DEF Upgrade
<1>2. listed[ix] \in DDL
  BY <1>1, LenProperties DEF TypeOK
<1> DEFINE d == Found(Min(Candidates(listed[ix])))
<1>3. d \in DDL /\ NameOfDDL(d) = NameOfDDL(listed[ix])
  BY <1>1, <1>2, UpgradeIsDDL
<1>4. /\ IF Replaceable(d, ok)
         THEN /\ agents' = [agents EXCEPT ![NameOfDDL(d)] = d]
              /\ listed' = [listed EXCEPT ![ix] = d]
              /\ paths' = [paths EXCEPT ![NameOfDDL(d)] = d.file]
              /\ UNCHANGED spoiled
         ELSE /\ spoiled' = IF Valid(d) THEN spoiled \cup {NameOfDDL(d)} ELSE spoiled
              /\ UNCHANGED <<agents, listed, paths>>
      /\ ix' = ix + 1
      /\ UNCHANGED <<pc, found, orphans, disk, fresh, edits, subs, conn, fails, multi, leaky>>
  BY DEF Upgrade, Advance
<1> HIDE DEF d
<1> QED BY <1>1, <1>2, <1>3, <1>4 DEF Replaceable

LEMMA UpgradeSteps ==
  ASSUME TypeOK, NEW ok \in Activation, Upgrade(ok)
  PROVE  TypeOK'
<1>1. PICK d \in DDL :
           /\ pc = "upgrade" /\ ix \in DOMAIN listed /\ listed[ix] \in DDL
           /\ NameOfDDL(d) = NameOfDDL(listed[ix])
           /\ \/ /\ agents[NameOfDDL(d)] # NoDDL
                 /\ agents' = [agents EXCEPT ![NameOfDDL(d)] = d]
                 /\ listed' = [listed EXCEPT ![ix] = d]
                 /\ paths' = [paths EXCEPT ![NameOfDDL(d)] = d.file]
                 /\ UNCHANGED spoiled
              \/ /\ spoiled' = spoiled \/ spoiled' = spoiled \cup {NameOfDDL(d)}
                 /\ UNCHANGED <<agents, listed, paths>>
           /\ ix' = ix + 1
           /\ UNCHANGED <<pc, found, orphans, disk, fresh, edits, subs, conn, fails, multi, leaky>>
  BY UpgradeEffect, Zenon
<1>2. NameOfDDL(d) \in Name /\ d.file \in File
  BY Places
<1>3. agents' \in [Name -> DDL \cup {NoDDL}] /\ paths' \in [Name -> 0..NFiles]
  <2>1. agents' = [agents EXCEPT ![NameOfDDL(d)] = d] \/ agents' = agents
    BY <1>1
  <2>2. paths' = [paths EXCEPT ![NameOfDDL(d)] = d.file] \/ paths' = paths
    BY <1>1
  <2>3. agents' \in [Name -> DDL \cup {NoDDL}]
    BY <2>1, <1>2 DEF TypeOK
  <2>4. d.file \in 0..NFiles
    BY <1>2, Bounds DEF File
  <2>5. paths' \in [Name -> 0..NFiles]
    BY <2>2, <2>4, <1>2 DEF TypeOK
  <2> QED BY <2>3, <2>5
<1>4. listed' \in Seq(DDL)
  <2>1. CASE listed' = [listed EXCEPT ![ix] = d]
    BY <1>1, <2>1, ExceptSeq DEF TypeOK
  <2> QED BY <1>1, <2>1 DEF TypeOK
<1>5. ManagerType'
  BY <1>1, <1>3 DEF ManagerType, TypeOK
<1>6. ProviderType'
  BY <1>1, <1>3, <1>4 DEF ProviderType, TypeOK
<1>7. HistoryType'
  BY <1>1, <1>2 DEF HistoryType, TypeOK
<1>8. DiskType'
  BY <1>1, TypeFrame
<1> QED BY <1>5, <1>6, <1>7, <1>8 DEF TypeOK, ManagerType, ProviderType, DiskType, HistoryType

LEMMA OrphanSteps ==
  ASSUME TypeOK
  PROVE  /\ \A k \in 1..(NCollectives + 1) : Orphan(k) => TypeOK'
         /\ RemoveListed => TypeOK'
         /\ Restart => TypeOK'
<1>1. ASSUME NEW k \in 1..(NCollectives + 1), Orphan(k) PROVE TypeOK'
  <2> DEFINE n == NameOfDDL(listed[ix])
  <2>1. /\ ix \in DOMAIN listed /\ Unregister(n, k)
        /\ paths' = [paths EXCEPT ![n] = 0]
        /\ orphans' = Append(orphans, ix) /\ ix' = ix + 1
        /\ UNCHANGED <<disk, fresh, edits, pc, found, listed, multi, spoiled>>
    BY <1>1 DEF Orphan
  <2>2. listed[ix] \in DDL
    BY <2>1, LenProperties DEF TypeOK
  <2>3. n \in Name
    BY <2>2, Places
  <2> HIDE DEF n
  <2>4. ManagerType'
    BY <2>1, <2>2, <2>3, ManagerSteps
  <2>5. orphans' \in Seq(Nat \ {0})
    BY <2>1, AppendProperties DEF TypeOK
  <2>6. paths' \in [Name -> 0..NFiles]
    BY <2>1, <2>3, Bounds DEF TypeOK
  <2>7. ProviderType'
    BY <2>1, <2>5, <2>6 DEF ProviderType, TypeOK
  <2>8. HistoryType'
    <3>1. /\ fails' = fails \/ (fails < MaxFails /\ fails' = fails + 1)
          /\ leaky' = leaky \/ leaky' = leaky \cup {n}
      BY <2>1 DEF Unregister
    <3>2. fails' \in 0..MaxFails /\ leaky' \subseteq Name
      BY <3>1, <2>3, FailureType
    <3> QED BY <3>2, <2>1 DEF HistoryType, TypeOK
  <2>9. DiskType'
    BY <2>1, TypeFrame
  <2> QED BY <2>4, <2>7, <2>8, <2>9 DEF TypeOK, ManagerType, ProviderType, DiskType, HistoryType
<1>2. ASSUME RemoveListed PROVE TypeOK'
  <2>1. UNCHANGED <<disk, fresh, edits, paths, manager, fails, multi, spoiled, leaky>>
    BY <1>2 DEF RemoveListed
  <2>2. \/ /\ orphans[ix] \in DOMAIN listed /\ listed' = RemoveAt(listed, orphans[ix])
           /\ ix' = ix + 1 /\ UNCHANGED <<pc, found, orphans>>
        \/ pc' = "crashed" /\ UNCHANGED <<listed, found, ix, orphans>>
    BY <1>2 DEF RemoveListed, Advance
  <2>3. listed' \in Seq(DDL)
    BY <2>2, Cut DEF TypeOK
  <2>4. ProviderType'
    BY <2>1, <2>2, <2>3 DEF ProviderType, TypeOK
  <2>5. ManagerType' /\ HistoryType' /\ DiskType'
    BY <2>1, TypeFrame
  <2> QED BY <2>4, <2>5 DEF TypeOK, ManagerType, ProviderType, DiskType, HistoryType
<1>3. ASSUME Restart PROVE TypeOK'
  <2>1. /\ pc' = "idle" /\ found' = Nothing /\ ix' = 1 /\ orphans' = <<>>
        /\ listed' = <<>> /\ paths' = [n \in Name |-> 0]
        /\ UNCHANGED <<disk, fresh, edits, fails>>
    BY <1>3 DEF Restart
  <2>2. ProviderType'
    <3>1. Nothing \in [File -> 0..MaxVersion]
      BY Bounds DEF Nothing
    <3>2. paths' \in [Name -> 0..NFiles]
      BY <2>1, Bounds
    <3> QED BY <2>1, <3>1, <3>2, EmptySeq DEF ProviderType
  <2>3. agents' \in [Name -> DDL \cup {NoDDL}]
    BY <1>3 DEF Restart
  <2>4. subs' \in [Name -> (SUBSET Collective) \cup {NoSubs}]
    BY <1>3 DEF Restart
  <2>5. ManagerType'
    <3>1. conn' \in [Name -> [Collective -> Nat]]
      BY <1>3 DEF Restart
    <3> QED BY <2>3, <2>4, <3>1 DEF ManagerType
  <2>6. multi' \in BOOLEAN
    BY <1>3 DEF Restart
  <2>7. HistoryType'
    BY <1>3, <2>6 DEF HistoryType, Restart, TypeOK
  <2>8. DiskType'
    BY <2>1, TypeFrame
  <2> QED BY <2>2, <2>5, <2>7, <2>8 DEF TypeOK, ManagerType, ProviderType, DiskType, HistoryType
<1> QED BY <1>1, <1>2, <1>3

\* The steps by what they do.
LEMMA Steps ==
  ASSUME [Next]_vars
  PROVE  \/ \E f \in File : Age(f) \/ \E v \in 0..MaxVersion : Edit(f, v)
         \/ Move
         \/ \E ok \in Activation : RegisterNew(ok) \/ Upgrade(ok)
         \/ RegisterFails \/ RemoveListed \/ Restart
         \/ \E k \in 1..(NCollectives + 1) : Orphan(k)
         \/ UNCHANGED vars
BY DEF Next, Reconcile, Move

LEMMA TypeStep == TypeOK /\ [Next]_vars => TypeOK'
<1> SUFFICES ASSUME TypeOK, [Next]_vars PROVE TypeOK'
  OBVIOUS
<1>1. CASE UNCHANGED vars
  BY <1>1 DEF vars, provider, manager, TypeOK
<1> QED BY <1>1, Steps, FileSteps, MoveSteps, RegisterSteps, UpgradeSteps, OrphanSteps

-----------------------------------------------------------------------------
(* Subscriptions.                                                          *)

\* Nothing of an agent changed but, perhaps, the DDL.
LEMMA StaysSubscribed ==
  ASSUME TypeOK, TypeOK', NEW m \in Name, SubscribedTo(m),
         agents'[m] = NoDDL <=> agents[m] = NoDDL, subs'[m] = subs[m], conn'[m] = conn[m],
         leaky \subseteq leaky', fails' >= fails
  PROVE  SubscribedTo(m)'
<1>1. Registered(m)' = Registered(m) /\ Registered(m) \in Nat
  BY DEF Registered
<1>2. fails \in Nat /\ fails' \in Nat /\ \A c \in Collective : conn[m][c] \in Nat
  BY Bounds DEF TypeOK
<1> QED BY <1>1, <1>2 DEF SubscribedTo

LEMMA SubscribedStep == TypeOK /\ Subscribed /\ [Next]_vars => Subscribed'
<1> SUFFICES ASSUME TypeOK, Subscribed, [Next]_vars, NEW m \in Name PROVE SubscribedTo(m)'
  BY DEF Subscribed
<1>0. SubscribedTo(m) /\ TypeOK'
  BY TypeStep DEF Subscribed
<1>T. /\ agents \in [Name -> DDL \cup {NoDDL}]
      /\ subs \in [Name -> (SUBSET Collective) \cup {NoSubs}]
      /\ conn \in [Name -> [Collective -> Nat]]
      /\ fails \in Nat
  BY Bounds DEF TypeOK
<1>1. CASE UNCHANGED <<manager, leaky>> /\ fails' >= fails
  BY <1>0, <1>1, StaysSubscribed DEF manager
<1>2. ASSUME NEW ok \in Activation, RegisterNew(ok) PROVE SubscribedTo(m)'
  <2> DEFINE d == Found(ix)
             n == NameOfDDL(d)
  <2>1. /\ ix \in File /\ Wanted(d) /\ RegisterAccepted(d, ok)
        /\ UNCHANGED <<fails, leaky>>
    BY <1>2 DEF RegisterNew
  <2>2. d \in DDL /\ n \in Name /\ d # NoDDL
    BY <2>1, WantedIsNew, Places
  <2>3. \/ UNCHANGED manager
        \/ /\ agents[n] = NoDDL
           /\ agents' = [agents EXCEPT ![n] = d]
           /\ subs' = [subs EXCEPT ![n] = Collective]
           /\ conn' = [conn EXCEPT ![n] = More(n, Collective)]
    BY <2>1 DEF RegisterAccepted
  <2> HIDE DEF d, n
  <2>4. CASE UNCHANGED manager
    BY <2>1, <2>4, <1>1, <1>T
  <2>5. CASE /\ agents[n] = NoDDL
             /\ agents' = [agents EXCEPT ![n] = d]
             /\ subs' = [subs EXCEPT ![n] = Collective]
             /\ conn' = [conn EXCEPT ![n] = More(n, Collective)]
    <3>1. CASE m = n
      <4>1. agents'[m] # NoDDL /\ subs'[m] = Collective
        BY <2>2, <2>5, <3>1, <1>T
      <4>2. \A c \in Collective : conn[m][c] \in Nat /\ conn'[m][c] = conn[m][c] + 1
        BY <2>2, <2>5, <3>1, <1>T DEF More
      <4>3. Registered(m) = 0 /\ Registered(m)' = 1
        BY <2>5, <3>1, <4>1 DEF Registered
      <4> QED BY <4>1, <4>2, <4>3, <2>1, <1>0, <1>T DEF SubscribedTo
    <3>2. CASE m # n
      <4>1. agents'[m] = agents[m] /\ subs'[m] = subs[m] /\ conn'[m] = conn[m]
        BY <2>2, <2>5, <3>2, <1>T
      <4> QED BY <4>1, <2>1, <1>0, <1>T, StaysSubscribed
    <3> QED BY <3>1, <3>2
  <2> QED BY <2>3, <2>4, <2>5
<1>3. ASSUME RegisterFails PROVE SubscribedTo(m)'
  <2> DEFINE d == Found(ix)
             n == NameOfDDL(d)
  <2>1. /\ ix \in File /\ Wanted(d)
        /\ \/ \E ok \in Activation : RegisterRefused(d, ok)
           \/ \E c \in Collective, left \in SUBSET Nat : SubscribeFails(d, c, left)
    BY <1>3, Lefts DEF RegisterFails
  <2>2. d \in DDL /\ n \in Name
    BY <2>1, WantedIsNew, Places
  <2>3. CASE UNCHANGED <<manager, fails, leaky>>
    BY <2>3, <1>1, <1>T
  <2>4. ASSUME NEW c \in Collective, NEW left \in SUBSET Nat, SubscribeFails(d, c, left)
        PROVE  SubscribedTo(m)'
    <3>1. /\ agents[n] = NoDDL /\ agents' = agents
          /\ subs' = [subs EXCEPT ![n] = 1..(c - 1)]
          /\ conn' = [conn EXCEPT ![n] = More(n, left)]
          /\ fails' = fails + 1 /\ leaky' = leaky \cup {n}
      BY <2>4 DEF SubscribeFails
    <3> HIDE DEF d, n
    <3>2. CASE m = n
      <4>1. \A b \in Collective : /\ conn[m][b] \in Nat /\ conn[m][b] <= fails
                                  /\ conn'[m][b] = conn[m][b] \/ conn'[m][b] = conn[m][b] + 1
        BY <2>2, <3>1, <3>2, <1>0, <1>T DEF More, SubscribedTo, Registered
      <4>2. agents'[m] = NoDDL /\ m \in leaky' /\ Registered(m)' = 0
        BY <3>1, <3>2 DEF Registered
      <4>3. \A b \in Collective : conn'[m][b] <= 0 + fails'
        BY <4>1, <3>1, <1>T
      <4> QED BY <4>2, <4>3 DEF SubscribedTo
    <3>3. CASE m # n
      <4>1. subs'[m] = subs[m] /\ conn'[m] = conn[m]
        BY <2>2, <3>1, <3>3, <1>T
      <4> QED BY <4>1, <3>1, <1>0, <1>T, StaysSubscribed
    <3> QED BY <3>2, <3>3
  <2> QED BY <2>1, <2>3, <2>4 DEF RegisterRefused
<1>4. ASSUME NEW ok \in Activation, Upgrade(ok) PROVE SubscribedTo(m)'
  <2>1. \E d \in DDL :
           /\ \/ /\ agents[NameOfDDL(d)] # NoDDL
                 /\ agents' = [agents EXCEPT ![NameOfDDL(d)] = d]
              \/ UNCHANGED agents
           /\ UNCHANGED <<subs, conn, fails, leaky>>
    BY <1>4, UpgradeEffect
  <2>2. agents'[m] = NoDDL <=> agents[m] = NoDDL
    BY <2>1, <1>T, Places
  <2> QED BY <2>1, <2>2, <1>0, <1>T, StaysSubscribed
<1>5. ASSUME NEW k \in 1..(NCollectives + 1), Orphan(k) PROVE SubscribedTo(m)'
  <2> DEFINE n == NameOfDDL(listed[ix])
             cs == {c \in subs[n] : c < k}
  <2>1. ix \in DOMAIN listed /\ Unregister(n, k)
    BY <1>5 DEF Orphan
  <2>2. listed[ix] \in DDL
    BY <2>1, LenProperties DEF TypeOK
  <2>3. n \in Name
    BY <2>2, Places
  <2>4. /\ agents[n] # NoDDL /\ conn' = [conn EXCEPT ![n] = Less(n, cs)]
        /\ agents' = [agents EXCEPT ![n] = NoDDL] /\ subs' = [subs EXCEPT ![n] = NoSubs]
        /\ fails' = IF k \in Collective THEN fails + 1 ELSE fails
        /\ leaky' = IF k \in Collective THEN leaky \cup {n} ELSE leaky
    BY <2>1 DEF Unregister
  <2> HIDE DEF n
  <2>6. CASE m = n
    <3>1. /\ subs[m] = Collective /\ Registered(m) = 1
          /\ \A c \in Collective : /\ conn[m][c] \in Nat /\ conn[m][c] > 0
                                   /\ conn[m][c] <= 1 + fails
                                   /\ m \notin leaky => conn[m][c] = 1
      BY <2>4, <2>6, <1>0, <1>T DEF SubscribedTo, Registered
    <3>2. \A c \in Collective : conn'[m][c] = IF c < k THEN conn[m][c] - 1 ELSE conn[m][c]
      <4>1. conn'[m] = Less(m, cs)
        BY <2>3, <2>4, <2>6, <1>T
      <4>2. \A c \in Collective : c \in cs <=> c < k
        BY <3>1, <2>6
      <4> HIDE DEF cs
      <4> QED BY <4>1, <4>2, <3>1 DEF Less
    <3>3. agents'[m] = NoDDL /\ subs'[m] = NoSubs /\ Registered(m)' = 0
      BY <2>3, <2>4, <2>6, <1>T DEF Registered
    <3> HIDE DEF cs
    <3>4. CASE k \in Collective
      <4>1. fails' = fails + 1 /\ m \in leaky'
        BY <2>4, <2>6, <3>4
      <4>2. \A c \in Collective : conn'[m][c] <= fails'
        BY <4>1, <3>1, <3>2, <1>T
      <4> QED BY <4>1, <4>2, <3>3, <1>0, <1>T DEF SubscribedTo, TypeOK
    <3>5. CASE k \notin Collective
      <4>1. fails' = fails /\ leaky' = leaky
        BY <2>4, <3>5
      <4>2. \A c \in Collective : c < k
        BY <3>5, Bounds DEF Collective
      <4> QED BY <4>1, <4>2, <3>1, <3>2, <3>3, <1>T DEF SubscribedTo
    <3> QED BY <3>4, <3>5
  <2>7. CASE m # n
    <3> HIDE DEF cs
    <3>1. agents'[m] = agents[m] /\ subs'[m] = subs[m] /\ conn'[m] = conn[m]
      BY <2>3, <2>4, <2>7, <1>T
    <3>2. fails' >= fails /\ leaky \subseteq leaky'
      BY <2>4, <1>T
    <3> QED BY <3>1, <3>2, <1>0, StaysSubscribed
  <2> QED BY <2>6, <2>7
<1>6. ASSUME Restart PROVE SubscribedTo(m)'
  <2>1. /\ agents'[m] = NoDDL /\ subs'[m] = NoSubs /\ fails' = fails
        /\ \A c \in Collective : conn'[m][c] = 0
    BY <1>6 DEF Restart
  <2>2. Registered(m)' = 0
    BY <2>1 DEF Registered
  <2> QED BY <2>1, <2>2, <1>T DEF SubscribedTo
<1>7. ASSUME \/ \E f \in File : Age(f) \/ \E v \in 0..MaxVersion : Edit(f, v)
             \/ RemoveListed \/ UNCHANGED vars
      PROVE  UNCHANGED <<manager, leaky, fails>>
  BY <1>7 DEF Age, Edit, RemoveListed, vars
<1>8. ASSUME Move PROVE UNCHANGED <<manager, leaky>> /\ fails' >= fails
  BY <1>8, <1>T, MoveFrame
<1>9. ASSUME UNCHANGED <<manager, leaky, fails>> PROVE SubscribedTo(m)'
  BY <1>9, <1>1, <1>T
<1> QED BY <1>1, <1>2, <1>3, <1>4, <1>5, <1>6, <1>7, <1>8, <1>9, Steps

-----------------------------------------------------------------------------
(* The list.                                                               *)

\* What the steps that append to the list, replace in it and remove from it do.
LEMMA RegisterEffect ==
  ASSUME TypeOK, NEW ok \in Activation, RegisterNew(ok)
  PROVE  \E d \in DDL :
           /\ pc = "register" /\ NameOfDDL(d) \notin Names(listed)
           /\ listed' = Append(listed, d)
           /\ \/ agents' = [agents EXCEPT ![NameOfDDL(d)] = d] /\ UNCHANGED spoiled
              \/ UNCHANGED agents /\ spoiled' = spoiled \cup {NameOfDDL(d)}
           /\ UNCHANGED <<pc, orphans, multi>>
<1> DEFINE d == Found(ix)
<1>1. /\ pc = "register" /\ ix \in File /\ Wanted(d) /\ RegisterAccepted(d, ok)
      /\ listed' = Append(listed, d)
      /\ spoiled' = IF ok THEN spoiled ELSE spoiled \cup {NameOfDDL(d)}
      /\ UNCHANGED <<pc, orphans, multi>>
  BY DEF RegisterNew, Advance
<1>2. d \in DDL /\ NameOfDDL(d) \notin Names(listed)
  BY <1>1, WantedIsNew
<1>3. \/ agents' = [agents EXCEPT ![NameOfDDL(d)] = d] /\ UNCHANGED spoiled
      \/ UNCHANGED agents /\ spoiled' = spoiled \cup {NameOfDDL(d)}
  BY <1>1 DEF RegisterAccepted, manager
<1> HIDE DEF d
<1> QED BY <1>1, <1>2, <1>3

\* Where the entries of a longer list come from.
LEMMA Appended ==
  ASSUME NEW s \in Seq(DDL), NEW d \in DDL, NEW t, t = Append(s, d)
  PROVE  /\ DOMAIN t = 1..Len(s)+1 /\ DOMAIN s = 1..Len(s) /\ Len(s) \in Nat
         /\ \A i \in DOMAIN s : t[i] = s[i]
         /\ t[Len(s)+1] = d
BY AppendProperties, LenProperties

LEMMA Replaced ==
  ASSUME NEW s \in Seq(DDL), NEW i \in DOMAIN s, NEW d \in DDL, NEW t, t = [s EXCEPT ![i] = d]
  PROVE  DOMAIN t = DOMAIN s /\ t[i] = d /\ \A j \in DOMAIN s : j # i => t[j] = s[j]
OBVIOUS

LEMMA DistinctStep == TypeOK /\ Distinct /\ [Next]_vars => Distinct'
<1> SUFFICES ASSUME TypeOK, Distinct, [Next]_vars PROVE Distinct'
  OBVIOUS
<1>0. listed \in Seq(DDL)
  BY DEF TypeOK
<1>1. CASE UNCHANGED listed
  BY <1>1 DEF Distinct
<1>2. ASSUME NEW ok \in Activation, RegisterNew(ok) PROVE Distinct'
  <2>1. PICK d \in DDL : NameOfDDL(d) \notin Names(listed) /\ listed' = Append(listed, d)
    BY <1>2, RegisterEffect
  <2>2. /\ DOMAIN listed' = 1..Len(listed)+1 /\ DOMAIN listed = 1..Len(listed) /\ Len(listed) \in Nat
        /\ \A i \in DOMAIN listed : listed'[i] = listed[i]
        /\ listed'[Len(listed)+1] = d
    BY <1>0, <2>1, Appended
  <2>3. \A i \in DOMAIN listed : NameOfDDL(listed[i]) # NameOfDDL(d)
    BY <2>1 DEF Names
  <2>4. \A i \in DOMAIN listed' : i \in DOMAIN listed \/ i = Len(listed)+1
    BY <2>2
  <2> QED BY <2>2, <2>3, <2>4 DEF Distinct
<1>3. ASSUME NEW ok \in Activation, Upgrade(ok) PROVE Distinct'
  <2>1. PICK d \in DDL :
           /\ ix \in DOMAIN listed /\ NameOfDDL(d) = NameOfDDL(listed[ix])
           /\ listed' = [listed EXCEPT ![ix] = d] \/ UNCHANGED listed
    BY <1>3, UpgradeEffect
  <2>2. CASE listed' = [listed EXCEPT ![ix] = d]
    <3>1. /\ DOMAIN listed' = DOMAIN listed /\ listed'[ix] = d
          /\ \A j \in DOMAIN listed : j # ix => listed'[j] = listed[j]
      BY <1>0, <2>1, <2>2, Replaced
    <3>2. \A j \in DOMAIN listed : NameOfDDL(listed'[j]) = NameOfDDL(listed[j])
      BY <3>1, <2>1
    <3> QED BY <3>1, <3>2 DEF Distinct
  <2> QED BY <1>1, <2>1, <2>2
<1>4. ASSUME RemoveListed PROVE Distinct'
  <2>1. \/ orphans[ix] \in DOMAIN listed /\ listed' = RemoveAt(listed, orphans[ix])
        \/ UNCHANGED listed
    BY <1>4 DEF RemoveListed
  <2>2. ASSUME NEW o \in DOMAIN listed, listed' = RemoveAt(listed, o) PROVE Distinct'
    <3> DEFINE At(j) == IF j < o THEN j ELSE j + 1
    <3>1. \A j \in DOMAIN listed' : At(j) \in DOMAIN listed /\ listed'[j] = listed[At(j)]
      BY <1>0, <2>2, CutKeeps
    <3>2. DOMAIN listed' \subseteq Nat /\ o \in Nat
      <4>1. Len(listed) \in Nat /\ DOMAIN listed = 1..Len(listed) /\ DOMAIN listed' = 1..Len(listed)-1
        BY <1>0, <2>2, Cut, LenProperties
      <4> QED BY <4>1
    <3>3. \A i, j \in DOMAIN listed' : At(i) = At(j) => i = j
      BY <3>2
    <3> HIDE DEF At
    <3> QED BY <3>1, <3>3 DEF Distinct
  <2> QED BY <1>1, <2>1, <2>2
<1>5. ASSUME Restart PROVE Distinct'
  BY <1>5 DEF Restart, Distinct
<1>6. ASSUME \/ \E f \in File : Age(f) \/ \E v \in 0..MaxVersion : Edit(f, v)
             \/ Move \/ RegisterFails \/ (\E k \in 1..(NCollectives + 1) : Orphan(k))
             \/ UNCHANGED vars
      PROVE  UNCHANGED listed
  BY <1>6, MoveFrame DEF Age, Edit, RegisterFails, Orphan, vars, provider
<1> QED BY <1>1, <1>2, <1>3, <1>4, <1>5, <1>6, Steps

LEMMA IndicesStep == TypeOK /\ Indices /\ [Next]_vars => Indices'
<1> SUFFICES ASSUME TypeOK, Indices, [Next]_vars PROVE Indices'
  OBVIOUS
<1>0. /\ listed \in Seq(DDL) /\ orphans \in Seq(Nat \ {0}) /\ ix \in Nat \ {0}
      /\ DOMAIN orphans = 1..Len(orphans) /\ Len(orphans) \in Nat
      /\ \A k \in DOMAIN orphans : orphans[k] \in Nat
      /\ DOMAIN <<>> = {}
  BY LenProperties DEF TypeOK
<1>1. CASE UNCHANGED <<provider, multi>>
  BY <1>1 DEF Indices, provider
<1>2. ASSUME Move PROVE Indices'
  <2>1. UNCHANGED listed
    BY <1>2, MoveFrame
  <2>2. CASE (\E ok \in BOOLEAN : Scan(ok)) \/ ScanDone \/ RegisterSkip \/ RegisterDone \/ UpgradeSkip
    BY <2>1, <2>2 DEF Scan, ScanDone, RegisterSkip, RegisterDone, UpgradeSkip, Advance, Indices
  <2>3. CASE UpgradeDone
    BY <2>1, <2>3, <1>0 DEF UpgradeDone, Indices
  <2>4. CASE OrphanSkip
    BY <2>1, <2>4, <1>0 DEF OrphanSkip, Advance, Indices
  <2>5. CASE OrphansDone
    <3>1. /\ pc = "orphan" /\ pc' = "remove" /\ ix' = 1 /\ orphans' = orphans
          /\ multi' = (multi \/ Len(orphans) > 1)
      BY <2>5 DEF OrphansDone
    <3>2. ~multi' => Len(orphans') <= 1
      <4>1. ~multi' => ~(Len(orphans) > 1)
        BY <3>1, Zenon
      <4> QED BY <4>1, <3>1, <1>0
    <3>3. \A k \in DOMAIN orphans' : orphans'[k] \in DOMAIN listed'
      BY <3>1, <2>1 DEF Indices
    <3> QED BY <3>1, <3>2, <3>3 DEF Indices
  <2>6. CASE ReconcileDone
    BY <2>6 DEF ReconcileDone, Indices
  <2> QED BY <1>2, <2>2, <2>3, <2>4, <2>5, <2>6 DEF Move
<1>3. ASSUME RegisterFails \/ \E ok \in Activation : RegisterNew(ok) \/ Upgrade(ok) PROVE Indices'
  BY <1>3 DEF RegisterFails, RegisterNew, Upgrade, Advance, Indices
<1>4. ASSUME NEW c \in 1..(NCollectives + 1), Orphan(c) PROVE Indices'
  <2>1. /\ pc = "orphan" /\ ix \in DOMAIN listed /\ orphans' = Append(orphans, ix) /\ ix' = ix + 1
        /\ UNCHANGED <<pc, listed, multi>>
    BY <1>4 DEF Orphan
  <2>2. ASSUME NEW k \in DOMAIN orphans' PROVE orphans'[k] \in DOMAIN listed' /\ orphans'[k] < ix'
    <3>1. /\ k \in DOMAIN orphans \/ k = Len(orphans) + 1
          /\ k \in DOMAIN orphans => orphans'[k] = orphans[k]
          /\ k = Len(orphans) + 1 => orphans'[k] = ix
      BY <2>1, <1>0
    <3>2. CASE k \in DOMAIN orphans
      BY <3>1, <3>2, <2>1, <1>0 DEF Indices
    <3>3. CASE k = Len(orphans) + 1
      BY <3>1, <3>3, <2>1, <1>0
    <3> QED BY <3>1, <3>2, <3>3
  <2> QED BY <2>1, <2>2 DEF Indices
<1>5. ASSUME RemoveListed PROVE Indices'
  <2>1. pc = "remove" /\ ix \in DOMAIN orphans /\ multi' = multi
    BY <1>5 DEF RemoveListed
  <2>2. CASE orphans[ix] \in DOMAIN listed
    <3>1. pc' = pc /\ orphans' = orphans /\ ix' = ix + 1
      BY <1>5, <2>2 DEF RemoveListed, Advance
    <3>2. ix' # 1
      BY <3>1, <1>0
    <3> QED BY <2>1, <3>1, <3>2 DEF Indices
  <2>3. CASE orphans[ix] \notin DOMAIN listed
    <3>1. pc' = "crashed"
      BY <1>5, <2>3 DEF RemoveListed
    <3>2. multi
      <4> SUFFICES ASSUME ~multi PROVE FALSE
        OBVIOUS
      <4>1. Len(orphans) <= 1
        BY <2>1 DEF Indices
      <4>2. ix = 1
        BY <4>1, <2>1, <1>0
      <4> QED BY <4>2, <2>1, <2>3 DEF Indices
    <3> QED BY <3>1, <3>2, <2>1 DEF Indices
  <2> QED BY <2>2, <2>3
<1>6. ASSUME Restart PROVE Indices'
  BY <1>6 DEF Restart, Indices
<1>7. ASSUME \/ \E f \in File : Age(f) \/ \E v \in 0..MaxVersion : Edit(f, v)
             \/ UNCHANGED vars
      PROVE  UNCHANGED <<provider, multi>>
  BY <1>7 DEF Age, Edit, vars
<1> QED BY <1>1, <1>2, <1>3, <1>4, <1>5, <1>6, <1>7, Steps

\* The entries to remove stay the same when the list and the table do.
LEMMA MoveGone ==
  ASSUME TypeOK, Indices, Move, ~multi'
  PROVE  ~multi /\ \A i \in DOMAIN listed : Gone(i)' <=> Gone(i)
<1>0. /\ ix \in Nat \ {0} /\ DOMAIN orphans = 1..Len(orphans) /\ Len(orphans) \in Nat
      /\ DOMAIN <<>> = {}
  BY LenProperties DEF TypeOK
<1>1. CASE (\E ok \in BOOLEAN : Scan(ok)) \/ ScanDone \/ RegisterSkip \/ RegisterDone \/ UpgradeSkip
  <2>1. orphans = <<>> /\ orphans' = <<>> /\ multi' = multi
    BY <1>1 DEF Scan, ScanDone, RegisterSkip, RegisterDone, UpgradeSkip, Advance, Indices
  <2> QED BY <2>1, <1>0 DEF Gone
<1>2. CASE UpgradeDone
  <2>1. orphans = <<>> /\ orphans' = <<>> /\ multi' = multi
    BY <1>2 DEF UpgradeDone, Indices
  <2> QED BY <2>1, <1>0 DEF Gone
<1>3. CASE OrphanSkip
  <2>1. pc = "orphan" /\ pc' = pc /\ orphans' = orphans /\ multi' = multi
    BY <1>3 DEF OrphanSkip, Advance
  <2> QED BY <2>1 DEF Gone
<1>4. CASE OrphansDone
  <2>1. /\ pc = "orphan" /\ ix' = 1 /\ orphans' = orphans
        /\ multi' = (multi \/ Len(orphans) > 1)
    BY <1>4 DEF OrphansDone
  <2>2. ~multi
    BY <2>1, Zenon
  <2>3. \A k \in DOMAIN orphans' : k >= ix'
    BY <2>1, <1>0
  <2> QED BY <2>1, <2>2, <2>3 DEF Gone
<1>5. CASE ReconcileDone
  <2>1. pc = "remove" /\ ix \notin DOMAIN orphans /\ orphans' = <<>> /\ multi' = multi
    BY <1>5 DEF ReconcileDone
  <2>2. \A k \in DOMAIN orphans : ~(k >= ix)
    BY <2>1, <1>0
  <2> QED BY <2>1, <2>2, <1>0 DEF Gone
<1> QED BY <1>1, <1>2, <1>3, <1>4, <1>5 DEF Move

LEMMA OrphanGone ==
  ASSUME TypeOK, NEW c \in 1..(NCollectives + 1), Orphan(c)
  PROVE  \A i \in DOMAIN listed : Gone(i)' <=> Gone(i) \/ i = ix
<1>1. pc = "orphan" /\ pc' = pc /\ orphans' = Append(orphans, ix)
  BY DEF Orphan
<1>2. /\ ix \in Nat \ {0} /\ orphans \in Seq(Nat \ {0})
      /\ DOMAIN orphans = 1..Len(orphans) /\ Len(orphans) \in Nat
  BY LenProperties DEF TypeOK
<1>3. /\ DOMAIN orphans' = 1..Len(orphans)+1
      /\ \A k \in 1..Len(orphans) : orphans'[k] = orphans[k]
      /\ orphans'[Len(orphans)+1] = ix
  BY <1>1, <1>2, AppendProperties, LenProperties
<1>4. DOMAIN orphans' = DOMAIN orphans \cup {Len(orphans)+1}
  BY <1>2, <1>3
<1> QED BY <1>1, <1>2, <1>3, <1>4 DEF Gone

LEMMA InStepStep == Inv /\ [Next]_vars => InStep'
<1> SUFFICES ASSUME Inv, [Next]_vars, ~multi', NEW n \in Name, n \notin spoiled' PROVE Entries(n)'
  BY DEF InStep
<1>0. TypeOK /\ Subscribed /\ Distinct /\ Indices /\ InStep
  BY DEF Inv
<1>T. /\ listed \in Seq(DDL) /\ agents \in [Name -> DDL \cup {NoDDL}]
      /\ DOMAIN <<>> = {}
  BY <1>0 DEF TypeOK
<1>E. ASSUME ~multi, n \notin spoiled PROVE Entries(n)
  BY <1>0, <1>E DEF InStep
<1>1. ASSUME Move PROVE Entries(n)'
  <2>1. UNCHANGED <<listed, agents, spoiled>>
    BY <1>1, MoveFrame DEF manager
  <2>2. ~multi /\ \A i \in DOMAIN listed : Gone(i)' <=> Gone(i)
    BY <1>0, <1>1, MoveGone
  <2>3. Entries(n)
    BY <2>1, <2>2, <1>E
  <2> QED BY <2>1, <2>2, <2>3 DEF Entries, Names
<1>2. ASSUME UNCHANGED <<provider, manager, multi, spoiled>> PROVE Entries(n)'
  <2>1. Entries(n)
    BY <1>2, <1>E
  <2> QED BY <2>1, <1>2 DEF Entries, Gone, Names, provider, manager
<1>3. ASSUME NEW ok \in Activation, RegisterNew(ok) PROVE Entries(n)'
  <2>1. PICK d \in DDL :
           /\ pc = "register" /\ NameOfDDL(d) \notin Names(listed)
           /\ listed' = Append(listed, d)
           /\ \/ agents' = [agents EXCEPT ![NameOfDDL(d)] = d] /\ UNCHANGED spoiled
              \/ UNCHANGED agents /\ spoiled' = spoiled \cup {NameOfDDL(d)}
           /\ UNCHANGED <<pc, orphans, multi>>
    BY <1>0, <1>3, RegisterEffect
  <2>2. \A i : ~Gone(i) /\ ~Gone(i)'
    BY <1>0, <2>1, <1>T DEF Indices, Gone
  <2>3. Entries(n)
    BY <2>1, <1>E
  <2>4. /\ DOMAIN listed' = 1..Len(listed)+1 /\ DOMAIN listed = 1..Len(listed) /\ Len(listed) \in Nat
        /\ \A i \in DOMAIN listed : listed'[i] = listed[i]
        /\ listed'[Len(listed)+1] = d
    BY <1>T, <2>1, Appended
  <2>5. DOMAIN listed' = DOMAIN listed \cup {Len(listed)+1}
    BY <2>4
  <2>6. \A i \in DOMAIN listed : NameOfDDL(listed[i]) # NameOfDDL(d)
    BY <2>1 DEF Names
  <2>7. CASE n = NameOfDDL(d)
    <3>1. agents'[n] = d
      BY <2>1, <2>7, <1>T
    <3> QED BY <3>1, <2>2, <2>4, <2>5, <2>6, <2>7 DEF Entries, Names
  <2>8. CASE n # NameOfDDL(d)
    <3>1. agents'[n] = agents[n]
      BY <2>1, <2>8, <1>T
    <3> QED BY <3>1, <2>2, <2>3, <2>4, <2>5, <2>8 DEF Entries, Names
  <2> QED BY <2>7, <2>8
<1>4. ASSUME NEW ok \in Activation, Upgrade(ok) PROVE Entries(n)'
  <2>1. PICK d \in DDL :
           /\ pc = "upgrade" /\ ix \in DOMAIN listed /\ NameOfDDL(d) = NameOfDDL(listed[ix])
           /\ \/ /\ agents' = [agents EXCEPT ![NameOfDDL(d)] = d]
                 /\ listed' = [listed EXCEPT ![ix] = d]
                 /\ UNCHANGED spoiled
              \/ /\ spoiled' = spoiled \/ spoiled' = spoiled \cup {NameOfDDL(d)}
                 /\ UNCHANGED <<agents, listed>>
           /\ UNCHANGED <<pc, orphans, multi>>
    BY <1>0, <1>4, UpgradeEffect
  <2>2. \A i : ~Gone(i) /\ ~Gone(i)'
    BY <1>0, <2>1, <1>T DEF Indices, Gone
  <2>3. Entries(n)
    BY <2>1, <1>E
  <2>4. CASE UNCHANGED <<agents, listed>>
    BY <2>2, <2>3, <2>4 DEF Entries, Names
  <2>5. CASE agents' = [agents EXCEPT ![NameOfDDL(d)] = d] /\ listed' = [listed EXCEPT ![ix] = d]
    <3>1. /\ DOMAIN listed' = DOMAIN listed /\ listed'[ix] = d
          /\ \A j \in DOMAIN listed : j # ix => listed'[j] = listed[j]
      BY <1>T, <2>1, <2>5, Replaced
    <3>2. \A j \in DOMAIN listed : NameOfDDL(listed'[j]) = NameOfDDL(listed[j])
      BY <3>1, <2>1
    <3>3. CASE n = NameOfDDL(d)
      <4>1. agents'[n] = d
        BY <2>5, <3>3, <1>T
      <4>2. \A j \in DOMAIN listed : NameOfDDL(listed[j]) = n => j = ix
        BY <1>0, <2>1, <3>3 DEF Distinct
      <4> QED BY <4>1, <4>2, <3>1, <3>2, <3>3, <2>1, <2>2 DEF Entries, Names
    <3>4. CASE n # NameOfDDL(d)
      <4>1. agents'[n] = agents[n]
        BY <2>5, <3>4, <1>T
      <4> QED BY <4>1, <3>1, <3>2, <3>4, <2>1, <2>2, <2>3 DEF Entries, Names
    <3> QED BY <3>3, <3>4
  <2> QED BY <2>1, <2>4, <2>5
<1>5. ASSUME RegisterFails PROVE Entries(n)'
  <2>1. /\ pc = "register" /\ spoiled \subseteq spoiled'
        /\ UNCHANGED <<agents, listed, pc, orphans, multi>>
    BY <1>5 DEF RegisterFails, RegisterRefused, SubscribeFails, Advance, manager
  <2>2. \A i : ~Gone(i) /\ ~Gone(i)'
    BY <1>0, <2>1, <1>T DEF Indices, Gone
  <2>3. Entries(n)
    BY <2>1, <1>E
  <2> QED BY <2>1, <2>2, <2>3 DEF Entries, Names
<1>6. ASSUME NEW c \in 1..(NCollectives + 1), Orphan(c) PROVE Entries(n)'
  <2>1. /\ ix \in DOMAIN listed /\ UNCHANGED <<listed, multi, spoiled>>
        /\ agents' = [agents EXCEPT ![NameOfDDL(listed[ix])] = NoDDL]
    BY <1>6 DEF Orphan, Unregister
  <2>2. \A i \in DOMAIN listed : Gone(i)' <=> Gone(i) \/ i = ix
    BY <1>0, <1>6, OrphanGone
  <2>3. Entries(n)
    BY <2>1, <1>E
  <2>4. CASE n = NameOfDDL(listed[ix])
    <3>1. agents'[n] = NoDDL
      BY <2>1, <2>4, <1>T
    <3>2. \A j \in DOMAIN listed : NameOfDDL(listed[j]) = n => j = ix
      BY <1>0, <2>1, <2>4 DEF Distinct
    <3> QED BY <3>1, <3>2, <2>1, <2>2 DEF Entries
  <2>5. CASE n # NameOfDDL(listed[ix])
    <3>1. agents'[n] = agents[n]
      BY <2>1, <2>5, <1>T
    <3> QED BY <3>1, <2>1, <2>2, <2>3, <2>5 DEF Entries, Names
  <2> QED BY <2>4, <2>5
<1>7. ASSUME RemoveListed PROVE Entries(n)'
  <2>1. pc = "remove" /\ ix \in DOMAIN orphans /\ ~multi /\ UNCHANGED <<agents, spoiled, multi>>
    BY <1>7 DEF RemoveListed, manager
  <2>2. /\ ix \in Nat \ {0} /\ DOMAIN orphans = 1..Len(orphans) /\ Len(orphans) \in Nat
    BY <1>0, LenProperties DEF TypeOK
  <2>3. Len(orphans) <= 1
    BY <1>0, <2>1 DEF Indices
  <2>4. ix = 1 /\ DOMAIN orphans = {1}
    BY <2>1, <2>2, <2>3
  <2>5. orphans[ix] \in DOMAIN listed
    BY <1>0, <2>1, <2>4 DEF Indices
  <2>6. listed' = RemoveAt(listed, orphans[ix]) /\ pc' = pc /\ orphans' = orphans /\ ix' = ix + 1
    BY <1>7, <2>5 DEF RemoveListed, Advance
  <2>7. \A i \in DOMAIN listed : Gone(i) <=> i = orphans[ix]
    BY <2>1, <2>4 DEF Gone
  <2>8. \A i : ~Gone(i)'
    BY <2>1, <2>4, <2>6 DEF Gone
  <2>9. Entries(n)
    BY <2>1, <1>E
  <2>10. ASSUME NEW o \in DOMAIN listed, o = orphans[ix], listed' = RemoveAt(listed, o)
         PROVE  Entries(n)'
    <3>1. /\ \A j \in DOMAIN listed' : \E k \in DOMAIN listed : k # o /\ listed'[j] = listed[k]
          /\ \A k \in DOMAIN listed : k # o => \E j \in DOMAIN listed' : listed'[j] = listed[k]
      <4>1. /\ \A j \in DOMAIN RemoveAt(listed, o) :
                 LET k == IF j < o THEN j ELSE j + 1
                 IN  k \in DOMAIN listed /\ k # o /\ RemoveAt(listed, o)[j] = listed[k]
            /\ \A k \in DOMAIN listed : k # o =>
                 \E j \in DOMAIN RemoveAt(listed, o) : RemoveAt(listed, o)[j] = listed[k]
        BY <1>T, CutKeeps
      <4> QED BY <4>1, <2>10
    <3>2. ASSUME NEW j \in DOMAIN listed', NameOfDDL(listed'[j]) = n PROVE agents'[n] = listed'[j]
      BY <3>1, <3>2, <2>1, <2>7, <2>9, <2>10 DEF Entries
    <3>3. ASSUME agents'[n] # NoDDL PROVE n \in Names(listed')
      <4>1. PICK k \in DOMAIN listed : NameOfDDL(listed[k]) = n
        BY <3>3, <2>1, <2>9 DEF Entries, Names
      <4>2. k # o
        BY <4>1, <3>3, <2>1, <2>7, <2>9, <2>10 DEF Entries
      <4> QED BY <4>1, <4>2, <3>1 DEF Names
    <3> QED BY <3>2, <3>3, <2>8 DEF Entries, Names
  <2> QED BY <2>5, <2>6, <2>10
<1>8. ASSUME Restart PROVE Entries(n)'
  <2>1. listed' = <<>> /\ agents'[n] = NoDDL
    BY <1>8 DEF Restart
  <2> QED BY <2>1, <1>T DEF Entries
<1>9. ASSUME \/ \E f \in File : Age(f) \/ \E v \in 0..MaxVersion : Edit(f, v)
             \/ UNCHANGED vars
      PROVE  UNCHANGED <<provider, manager, multi, spoiled>>
  BY <1>9 DEF Age, Edit, vars
<1> QED BY <1>1, <1>2, <1>3, <1>4, <1>5, <1>6, <1>7, <1>8, <1>9, Steps

-----------------------------------------------------------------------------
(* The theorems.                                                           *)

LEMMA InvInit == Init => Inv
<1> SUFFICES ASSUME Init PROVE Inv
  OBVIOUS
<1>1. TypeOK
  BY TypeInit
<1>2. /\ pc = "idle" /\ orphans = <<>> /\ listed = <<>> /\ DOMAIN <<>> = {}
      /\ fails = 0 /\ \A n \in Name : agents[n] = NoDDL /\ subs[n] = NoSubs
      /\ \A n \in Name : \A c \in Collective : conn[n][c] = 0
  BY DEF Init
<1> HIDE DEF Init
<1>3. Subscribed
  BY <1>2 DEF Subscribed, SubscribedTo, Registered
<1>4. Distinct /\ Indices
  BY <1>2 DEF Distinct, Indices
<1>5. InStep
  BY <1>2 DEF InStep, Entries
<1> QED BY <1>1, <1>3, <1>4, <1>5 DEF Inv

LEMMA InvStep == Inv /\ [Next]_vars => Inv'
BY TypeStep, SubscribedStep, DistinctStep, IndicesStep, InStepStep DEF Inv

LEMMA Invariance == Spec => []Inv
BY InvInit, InvStep, PTL DEF Spec

\* The state of the provider, of the table of the Manager and of the
\* connection is of its type, after a panic and a restart too.
THEOREM TypeCorrect == Spec => []TypeOK
<1>1. Inv => TypeOK
  BY DEF Inv
<1> QED BY <1>1, Invariance, PTL

\* RegisterAgent(), ReplaceAgent() and UnregisterAgent() keep the subscriptions
\* in step with the table: an agent that is there gets its requests in every
\* collective, once unless subscribing or unsubscribing it failed before, and only
\* such a failure leaves a subscription, or an entry in a.subs, without an agent.
THEOREM RequestsReachAgents == Spec => []SubscriptionsMatch
<1>1. Inv => SubscriptionsMatch
  BY DEF Inv, Subscribed, SubscribedTo, SubscriptionsMatch, RegisteredIsSubscribed,
         OnlyFailuresLeak, OnlyFailuresBlock
<1> QED BY <1>1, Invariance, PTL

LEMMA DistinctNames == TypeOK /\ Distinct => ListedOnce
<1> SUFFICES ASSUME TypeOK, Distinct PROVE Cardinality(Names(listed)) = Len(listed)
  BY DEF ListedOnce
<1> DEFINE S == Names(listed)
           F == [i \in 1..Len(listed) |-> NameOfDDL(listed[i])]
<1>1. DOMAIN listed = 1..Len(listed) /\ Len(listed) \in Nat
  BY LenProperties DEF TypeOK
<1>2. F \in [1..Len(listed) -> S]
  BY <1>1 DEF Names
<1>3. \A i, j \in 1..Len(listed) : F[i] = F[j] => i = j
  BY <1>1 DEF Distinct
<1>4. \A n \in S : \E i \in 1..Len(listed) : F[i] = n
  BY <1>1 DEF Names
<1> HIDE DEF F, S
<1>5. F \in Bijection(1..Len(listed), S)
  BY <1>2, <1>3, <1>4, Fun_IsBij
<1>6. ExistsBijection(1..Len(listed), S)
  BY <1>5 DEF ExistsBijection
<1> QED BY <1>1, <1>6, FS_CountingElements DEF S

\* reconcileAgents() keeps one entry for an agent, and between its runs the list
\* is what the Manager has, version and place included, for every agent of
\* which nothing was refused and as long as no two agents went at once.
THEOREM ListIsTable == Spec => []ListMatches
<1>1. Inv => ListedOnce
  BY DistinctNames DEF Inv
<1>2. Inv => ListIsManagerOtherwise
  <2> SUFFICES ASSUME Inv, pc \in {"idle", "crashed"}, ~multi, NEW n \in Name \ spoiled
               PROVE  {listed[i] : i \in {j \in DOMAIN listed : NameOfDDL(listed[j]) = n}}
                        = {agents[n]} \ {NoDDL}
    BY DEF ListIsManagerOtherwise
  <2>1. Entries(n) /\ TypeOK
    BY DEF Inv, InStep
  <2>2. orphans = <<>> /\ DOMAIN <<>> = {}
    BY DEF Inv, Indices
  <2>3. \A i : ~Gone(i)
    BY <2>2 DEF Gone
  <2>4. \A i \in DOMAIN listed : listed[i] # NoDDL
    BY <2>1, Places, LenProperties DEF TypeOK
  <2>5. \A i \in DOMAIN listed : NameOfDDL(listed[i]) = n => agents[n] = listed[i]
    BY <2>1, <2>3 DEF Entries
  <2>6. agents[n] # NoDDL => \E i \in DOMAIN listed : NameOfDDL(listed[i]) = n
    BY <2>1 DEF Entries, Names
  <2> QED BY <2>4, <2>5, <2>6
<1> QED BY <1>1, <1>2, Invariance, PTL DEF ListMatches
=============================================================================
