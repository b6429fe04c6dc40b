--------------------------- MODULE ExternalAgents ---------------------------
(***************************************************************************)
(* External agents (providers/agent/mcorpc/external) and the table of      *)
(* agents of a server (server/agents).  The provider looks for DDL files   *)
(* every 20 seconds and brings the table in line with them: new agents are *)
(* registered and subscribed, changed ones replaced, orphans removed.  It  *)
(* keeps a list of its own of what it did, and decides from that list.     *)
(*                                                                         *)
(* reconcileAgents() holds the mutex of the provider; its steps here are   *)
(* the rounds of its loops, which end where a file is looked at or the     *)
(* mutex of the Manager is given back.                                     *)
(***************************************************************************)
EXTENDS Naturals, FiniteSets, SequencesExt

CONSTANTS
  NFiles,        \* places where a DDL can be, numbered as eachAgent() walks them
  NameOf,        \* name of the agent a place is for
  MaxVersion,    \* DDLs have versions 1..MaxVersion
  Invalid,       \* DDLs that describe an agent the Manager refuses
  Activation,    \* what activation checks and deny lists may answer
  NCollectives,  \* number of collectives, each agent subscribes in all
  MaxEdits,      \* bound on the changes to the files
  MaxFails       \* bound on the DDLs that cannot be read and the registrations and
                 \* removals in which subscribing or unsubscribing fails

ASSUME ExternalAgentsAssumption ==
  /\ NFiles \in Nat \ {0} /\ DOMAIN NameOf = 1..NFiles
  /\ MaxVersion \in Nat \ {0}
  /\ Invalid \subseteq [file : 1..NFiles, version : 1..MaxVersion]
  /\ Activation \subseteq BOOLEAN /\ Activation # {}
  /\ NCollectives \in Nat \ {0} /\ MaxEdits \in Nat /\ MaxFails \in Nat

VARIABLES
  disk,     \* version of the DDL in a place, 0 for none
  fresh,    \* it was changed less than fileChangeGrace ago
  edits,
  \* the Provider
  pc,       \* "idle", "scan", "register", "upgrade", "orphan", "remove" or "crashed"
  found,    \* foundAgents: the versions that eachAgent() read
  ix,       \* index of the loop that is being run
  listed,   \* p.agents
  paths,    \* p.paths: place of the DDL of an agent, 0 for none
  orphans,  \* remove: indices in p.agents, ascending
  \* the Manager and the connection
  agents,   \* the DDL an agent was registered with
  subs,     \* collectives in a.subs[name], NoSubs when there is no entry
  conn,     \* subscriptions the connection has for an agent in a collective
  fails,
  \* history, since the process started
  multi,    \* one reconciliation removed several agents
  spoiled,  \* agents that did not activate, or whose subscription failed
  leaky     \* agents whose subscription, or removal of it, failed

provider == <<pc, found, ix, listed, paths, orphans>>
manager  == <<agents, subs, conn>>
vars     == <<disk, fresh, edits, provider, manager, fails, multi, spoiled, leaky>>

File       == 1..NFiles
Name       == {NameOf[f] : f \in File}
Collective == 1..NCollectives
DDL        == [file : File, version : 1..MaxVersion]
NoDDL      == [file |-> 0, version |-> 0]
NoSubs     == {0}
Nothing    == [f \in File |-> 0]

NameOfDDL(d) == NameOf[d.file]

Names(list) == {NameOfDDL(list[i]) : i \in DOMAIN list}

\* The DDL that was found in a place, and the names of those that were.
Found(f)   == [file |-> f, version |-> found[f]]
FoundNames == {NameOf[f] : f \in {g \in File : found[g] # 0}}

-----------------------------------------------------------------------------
(* The files: Puppet, a package or an archive watcher.                     *)

Edit(f, v) ==
  /\ edits < MaxEdits
  /\ v # disk[f]
  /\ disk' = [disk EXCEPT ![f] = v]
  /\ fresh' = [fresh EXCEPT ![f] = TRUE]
  /\ edits' = edits + 1
  /\ UNCHANGED <<provider, manager, fails, multi, spoiled, leaky>>

Age(f) ==
  /\ fresh[f]
  /\ fresh' = [fresh EXCEPT ![f] = FALSE]
  /\ UNCHANGED <<disk, edits, provider, manager, fails, multi, spoiled, leaky>>

\* shouldProcessModifiedDDL()
Settled(f) == disk[f] # 0 /\ ~fresh[f]

-----------------------------------------------------------------------------
(* The Manager.                                                            *)

\* validateAgent()
Valid(d) == d \notin Invalid

\* One more subscription in the collectives cs; one less, where there is one.
More(n, cs) == [c \in Collective |-> IF c \in cs THEN conn[n][c] + 1 ELSE conn[n][c]]
Less(n, cs) == [c \in Collective |-> IF c \in cs /\ conn[n][c] > 0 THEN conn[n][c] - 1 ELSE conn[n][c]]

\* RegisterAgent() that returns nil: that an agent does not activate, or is in
\* the deny list, is not an error.  ok is that it may run.
RegisterAccepted(d, ok) ==
  LET n == NameOfDDL(d)
  IN /\ Valid(d)
     /\ \/ /\ ~ok
           /\ UNCHANGED manager
        \/ /\ ok
           /\ agents[n] = NoDDL /\ subs[n] = NoSubs
           /\ agents' = [agents EXCEPT ![n] = d]
           /\ subs' = [subs EXCEPT ![n] = Collective]
           /\ conn' = [conn EXCEPT ![n] = More(n, Collective)]

\* RegisterAgent() of an agent that is not valid, is registered, or was subscribed.
RegisterRefused(d, ok) ==
  /\ \/ ~Valid(d)
     \/ ok /\ (agents[NameOfDDL(d)] # NoDDL \/ subs[NameOfDDL(d)] # NoSubs)
  /\ UNCHANGED <<manager, fails, spoiled, leaky>>

\* The subscription in collective c fails: the ones before are given up, but
\* a.subs keeps its entry.  Those in left are there nevertheless, because they
\* could not be given up or, c, because it was the flush that failed.
SubscribeFails(d, c, left) ==
  LET n == NameOfDDL(d)
  IN /\ Valid(d)
     /\ agents[n] = NoDDL /\ subs[n] = NoSubs
     /\ fails < MaxFails
     /\ fails' = fails + 1
     /\ subs' = [subs EXCEPT ![n] = 1..(c - 1)]
     /\ conn' = [conn EXCEPT ![n] = More(n, left)]
     /\ spoiled' = spoiled \cup {n} /\ leaky' = leaky \cup {n}
     /\ UNCHANGED agents

\* ReplaceAgent() refuses an agent that is not valid or not known, and one that does
\* not activate or changed from a service to another agent or back: then ok is FALSE.
Replaceable(d, ok) == Valid(d) /\ ok /\ agents[NameOfDDL(d)] # NoDDL

\* Variant for mutation: a.subs keeps its entry.
UnregisterKeepSubs(n, k) ==
  /\ agents[n] # NoDDL
  /\ k \in Collective => fails < MaxFails
  /\ fails' = IF k \in Collective THEN fails + 1 ELSE fails
  /\ leaky' = IF k \in Collective THEN leaky \cup {n} ELSE leaky
  /\ conn' = [conn EXCEPT ![n] = Less(n, {c \in subs[n] : c < k})]
  /\ agents' = [agents EXCEPT ![n] = NoDDL]
  /\ UNCHANGED subs

\* UnregisterAgent().  Unsubscribing stops at the first that fails, the k-th,
\* and the agent is forgotten all the same.
Unregister(n, k) ==
  /\ agents[n] # NoDDL
  /\ k \in Collective => fails < MaxFails
  /\ fails' = IF k \in Collective THEN fails + 1 ELSE fails
  /\ leaky' = IF k \in Collective THEN leaky \cup {n} ELSE leaky
  /\ conn' = [conn EXCEPT ![n] = Less(n, {c \in subs[n] : c < k})]
  /\ agents' = [agents EXCEPT ![n] = NoDDL]
  /\ subs' = [subs EXCEPT ![n] = NoSubs]

-----------------------------------------------------------------------------
(* The Provider.                                                           *)

\* reconcileAgents(): eachAgent() reads one DDL after the other.  One that it
\* cannot load, being written for example, is as if it was not there.
Scan(ok) ==
  /\ pc \in {"idle", "scan"} /\ ix \in File
  /\ ok \/ (disk[ix] # 0 /\ fails < MaxFails)
  /\ found' = [found EXCEPT ![ix] = IF ok THEN disk[ix] ELSE 0]
  /\ fails' = IF ok THEN fails ELSE fails + 1
  /\ pc' = "scan"
  /\ ix' = ix + 1
  /\ UNCHANGED <<disk, fresh, edits, listed, paths, orphans, manager, multi, spoiled, leaky>>

ScanDone ==
  /\ pc = "scan" /\ ix \notin File
  /\ pc' = "register"
  /\ ix' = 1
  /\ UNCHANGED <<disk, fresh, edits, found, listed, paths, orphans, manager, fails, multi, spoiled, leaky>>

Wanted(d) == d.version # 0 /\ NameOfDDL(d) \notin Names(listed) /\ Settled(d.file)

Advance == ix' = ix + 1 /\ UNCHANGED <<pc, found, orphans>>

RegisterSkip ==
  /\ pc = "register" /\ ix \in File
  /\ ~Wanted(Found(ix))
  /\ Advance
  /\ UNCHANGED <<disk, fresh, edits, listed, paths, manager, fails, multi, spoiled, leaky>>

\* An agent that does not activate is listed like one that was registered.
RegisterNew(ok) ==
  /\ pc = "register" /\ ix \in File
  /\ LET d == Found(ix)
     IN /\ Wanted(d)
        /\ RegisterAccepted(d, ok)
        /\ listed' = Append(listed, d)
        /\ paths' = [paths EXCEPT ![NameOfDDL(d)] = d.file]
        /\ spoiled' = IF ok THEN spoiled ELSE spoiled \cup {NameOfDDL(d)}
  /\ Advance
  /\ UNCHANGED <<disk, fresh, edits, fails, multi, leaky>>

RegisterFails ==
  /\ pc = "register" /\ ix \in File
  /\ LET d == Found(ix)
     IN /\ Wanted(d)
        /\ \/ \E ok \in Activation : RegisterRefused(d, ok)
           \/ /\ TRUE \in Activation
              /\ \E c \in Collective : \E left \in SUBSET (1..c) : SubscribeFails(d, c, left)
  /\ Advance
  /\ UNCHANGED <<disk, fresh, edits, listed, paths, multi>>

RegisterDone ==
  /\ pc = "register" /\ ix \notin File
  /\ pc' = "upgrade"
  /\ ix' = 1
  /\ UNCHANGED <<disk, fresh, edits, found, listed, paths, orphans, manager, fails, multi, spoiled, leaky>>

\* Variant for mutation: a DDL that only moved is not an upgrade.
CandidatesByVersion(d) ==
  {f \in File : /\ found[f] # 0 /\ NameOf[f] = NameOfDDL(d)
                /\ found[f] # d.version
                /\ Settled(f)}

\* The DDLs of this agent that differ in version or in place.
Candidates(d) ==
  {f \in File : /\ found[f] # 0 /\ NameOf[f] = NameOfDDL(d)
                /\ Found(f) # d
                /\ Settled(f)}

\* One round of upgradeExistingAgents(), with the first of the candidates.
Upgrade(ok) ==
  /\ pc = "upgrade" /\ ix \in DOMAIN listed
  /\ Candidates(listed[ix]) # {}
  /\ LET d == Found(Min(Candidates(listed[ix])))
         n == NameOfDDL(d)
     IN IF Replaceable(d, ok)
        THEN /\ agents' = [agents EXCEPT ![n] = d]
             /\ listed' = [listed EXCEPT ![ix] = d]
             /\ paths' = [paths EXCEPT ![n] = d.file]
             /\ UNCHANGED spoiled
        ELSE /\ spoiled' = IF Valid(d) THEN spoiled \cup {n} ELSE spoiled
             /\ UNCHANGED <<agents, listed, paths>>
  /\ Advance
  /\ UNCHANGED <<disk, fresh, edits, subs, conn, fails, multi, leaky>>

UpgradeSkip ==
  /\ pc = "upgrade" /\ ix \in DOMAIN listed
  /\ Candidates(listed[ix]) = {}
  /\ Advance
  /\ UNCHANGED <<disk, fresh, edits, listed, paths, manager, fails, multi, spoiled, leaky>>

UpgradeDone ==
  /\ pc = "upgrade" /\ ix \notin DOMAIN listed
  /\ pc' = "orphan"
  /\ ix' = 1
  /\ orphans' = <<>>
  /\ UNCHANGED <<disk, fresh, edits, found, listed, paths, manager, fails, multi, spoiled, leaky>>

\* One round of removeOrphanAgents(); the list itself is changed at the end.
Orphan(k) ==
  /\ pc = "orphan" /\ ix \in DOMAIN listed
  /\ LET n == NameOfDDL(listed[ix])
     IN /\ n \notin FoundNames
        /\ Unregister(n, k)
        /\ paths' = [paths EXCEPT ![n] = 0]
  /\ orphans' = Append(orphans, ix)
  /\ ix' = ix + 1
  /\ UNCHANGED <<disk, fresh, edits, pc, found, listed, multi, spoiled>>

\* The agent is there, or the Manager does not know it.
OrphanSkip ==
  /\ pc = "orphan" /\ ix \in DOMAIN listed
  /\ \/ NameOfDDL(listed[ix]) \in FoundNames
     \/ agents[NameOfDDL(listed[ix])] = NoDDL
  /\ Advance
  /\ UNCHANGED <<disk, fresh, edits, listed, paths, manager, fails, multi, spoiled, leaky>>

OrphansDone ==
  /\ pc = "orphan" /\ ix \notin DOMAIN listed
  /\ pc' = "remove"
  /\ ix' = 1
  /\ multi' = (multi \/ Len(orphans) > 1)
  /\ UNCHANGED <<disk, fresh, edits, found, listed, paths, orphans, manager, fails, spoiled, leaky>>

\* Variant for mutation: nothing is removed from the list.
RemoveNothing ==
  /\ pc = "remove" /\ ix \in DOMAIN orphans
  /\ Advance
  /\ UNCHANGED <<disk, fresh, edits, listed, paths, manager, fails, multi, spoiled, leaky>>

\* The indices are removed in ascending order, each from what the ones before
\* left of the list.  Cutting behind the end of a slice is a panic, which ends
\* the process.
RemoveListed ==
  /\ pc = "remove" /\ ix \in DOMAIN orphans
  /\ IF orphans[ix] \in DOMAIN listed
     THEN listed' = RemoveAt(listed, orphans[ix]) /\ Advance
     ELSE pc' = "crashed" /\ UNCHANGED <<listed, found, ix, orphans>>
  /\ UNCHANGED <<disk, fresh, edits, paths, manager, fails, multi, spoiled, leaky>>

ReconcileDone ==
  /\ pc = "remove" /\ ix \notin DOMAIN orphans
  /\ pc' = "idle"
  /\ found' = Nothing /\ orphans' = <<>> /\ ix' = 1
  /\ UNCHANGED <<disk, fresh, edits, listed, paths, manager, fails, multi, spoiled, leaky>>

-----------------------------------------------------------------------------
Init ==
  /\ disk \in [File -> 0..MaxVersion]
  /\ fresh = [f \in File |-> FALSE]
  /\ edits = 0 /\ fails = 0
  /\ pc = "idle" /\ found = Nothing /\ ix = 1 /\ orphans = <<>>
  /\ listed = <<>> /\ paths = [n \in Name |-> 0]
  /\ agents = [n \in Name |-> NoDDL] /\ subs = [n \in Name |-> NoSubs]
  /\ conn = [n \in Name |-> [c \in Collective |-> 0]]
  /\ multi = FALSE /\ spoiled = {} /\ leaky = {}

\* The process is started again by the system and knows no agent.
Restart ==
  /\ pc = "crashed"
  /\ pc' = "idle" /\ found' = Nothing /\ ix' = 1 /\ orphans' = <<>>
  /\ listed' = <<>> /\ paths' = [n \in Name |-> 0]
  /\ agents' = [n \in Name |-> NoDDL] /\ subs' = [n \in Name |-> NoSubs]
  /\ conn' = [n \in Name |-> [c \in Collective |-> 0]]
  /\ multi' = FALSE /\ spoiled' = {} /\ leaky' = {}
  /\ UNCHANGED <<disk, fresh, edits, fails>>

Reconcile ==
  \/ \E ok \in BOOLEAN : Scan(ok)
  \/ ScanDone
  \/ RegisterSkip \/ RegisterFails \/ RegisterDone
  \/ \E ok \in Activation : RegisterNew(ok) \/ Upgrade(ok)
  \/ UpgradeSkip \/ UpgradeDone
  \/ \E k \in 1..(NCollectives + 1) : Orphan(k)
  \/ OrphanSkip \/ OrphansDone
  \/ RemoveListed \/ ReconcileDone
  \/ Restart

Next ==
  \/ \E f \in File, v \in 0..MaxVersion : Edit(f, v)
  \/ \E f \in File : Age(f)
  \/ Reconcile

Spec == Init /\ [][Next]_vars

\* The ticker fires again and again, files get older, and the service manager
\* of the system starts a process that ended.
Fairness == WF_vars(Reconcile) /\ \A f \in File : WF_vars(Age(f))

FairSpec == Spec /\ Fairness

-----------------------------------------------------------------------------
(* Properties.                                                             *)

TypeOK ==
  /\ disk \in [File -> 0..MaxVersion]
  /\ fresh \in [File -> BOOLEAN]
  /\ edits \in 0..MaxEdits /\ fails \in 0..MaxFails
  /\ pc \in {"idle", "scan", "register", "upgrade", "orphan", "remove", "crashed"}
  /\ found \in [File -> 0..MaxVersion] /\ listed \in Seq(DDL)
  /\ ix \in Nat \ {0} /\ orphans \in Seq(Nat \ {0})
  /\ paths \in [Name -> 0..NFiles]
  /\ agents \in [Name -> DDL \cup {NoDDL}]
  /\ subs \in [Name -> (SUBSET Collective) \cup {NoSubs}]
  /\ conn \in [Name -> [Collective -> Nat]]
  /\ multi \in BOOLEAN /\ spoiled \subseteq Name /\ leaky \subseteq Name

Registered(n) == IF agents[n] = NoDDL THEN 0 ELSE 1

\* An agent the Manager has is subscribed in every collective, however it was
\* registered, replaced, removed and registered again: it gets its requests.
RegisteredIsSubscribed ==
  \A n \in Name : agents[n] # NoDDL => subs[n] = Collective /\ \A c \in Collective : conn[n][c] > 0

\* Without failures it is subscribed once, and not at all when the Manager does
\* not have it.  A registration or removal that failed leaves at most one
\* subscription more in a collective: the server takes requests to discard or,
\* when the agent is registered again, takes them twice.
OnlyFailuresLeak ==
  \A n \in Name : \A c \in Collective :
    /\ n \notin leaky => conn[n][c] = Registered(n)
    /\ conn[n][c] <= Registered(n) + fails

\* An agent that the Manager does not have and refuses for ever, as one it is
\* subscribed for, is one whose subscription failed.
OnlyFailuresBlock == \A n \in Name : agents[n] = NoDDL /\ subs[n] # NoSubs => n \in leaky

\* The server takes the requests of the agents it has, once, and no others.
SubscriptionsMatch == RegisteredIsSubscribed /\ OnlyFailuresLeak /\ OnlyFailuresBlock

\* The list names an agent once.
ListedOnce == Cardinality(Names(listed)) = Len(listed)

\* "Agents provides a list of loaded agent DDLs": between reconciliations
\* the list is what the Manager has, version and place included.  This is
\* not so when two agents go at once: removeOrphanAgents() shortens the list
\* by indices that no longer fit.
ListIsManager ==
  pc \in {"idle", "crashed"} =>
     {listed[i] : i \in DOMAIN listed} = {agents[n] : n \in Name} \ {NoDDL}

\* It is so as far as every agent activated and subscribed and no reconciliation
\* removed more than one.
ListIsManagerOtherwise ==
  pc \in {"idle", "crashed"} /\ ~multi =>
     \A n \in Name \ spoiled :
        {listed[i] : i \in {j \in DOMAIN listed : NameOfDDL(listed[j]) = n}} = {agents[n]} \ {NoDDL}

\* What the provider lists, and decides from, is what the server runs.
ListMatches == ListedOnce /\ ListIsManagerOtherwise

\* The Manager has what is on disk, either DDL where there are two.
Tracks(n) ==
  LET there == {f \in File : NameOf[f] = n /\ disk[f] # 0}
  IN agents[n] \in IF there = {} THEN {NoDDL}
                   ELSE {[file |-> f, version |-> disk[f]] : f \in there}

\* A DDL the Manager refuses stands in the way of the agent, also of another DDL of it.
Refused(n) == \E d \in Invalid : NameOfDDL(d) = n /\ disk[d.file] = d.version

\* The loop adds, updates and removes agents without a restart: once the
\* files rest, the agents of the server are those on disk and remain so.
Converges == \A n \in Name : <>[](multi \/ n \in spoiled \/ Refused(n) \/ Tracks(n))

=============================================================================
