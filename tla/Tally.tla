------------------------------- MODULE Tally -------------------------------
(***************************************************************************)
(* The lifecycle events a server publishes about itself                    *)
(* (server/lifecycle.go) and the recorder that counts the servers of every *)
(* version from them (lifecycle/tally/tally.go).                           *)
(*                                                                         *)
(* A server says when it starts, when it stops and, every AliveInterval,   *)
(* that it is there.  The network delivers the events of one process in    *)
(* order and may lose any of them; events of a process and of the one that *)
(* replaced it came over two connections and arrive in any order.  The     *)
(* recorder keeps who it heard of and when, forgets a host it has not      *)
(* heard of for more than Expire, and keeps a gauge for every version and  *)
(* value of its "active" label, which the callbacks of a leader election   *)
(* change at any moment.                                                   *)
(*                                                                         *)
(* A unit of time is 10 minutes.  What is published is delivered or lost   *)
(* within the unit, and maintenance(), which runs every minute, runs in    *)
(* every unit.                                                             *)
(***************************************************************************)
EXTENDS Integers, Sequences, FiniteSets, FiniteSetsExt, SequencesExt

CONSTANTS Host, Version,
          AliveInterval,    \* 30 minutes between two alive events
          Expire,           \* 80 minutes without an event
          MaxChanges,       \* bound: starts, stops and crashes
          MaxFaults,        \* bound: lost events and recorder restarts
          MaxFlips          \* bound: callbacks of the election

\* The version of a host that is not known.
None == "none"

\* Two alive intervals are within the limit: 30 minutes and 80 are constants of
\* the code.
ASSUME TallyAssumption ==
  /\ IsFiniteSet(Host) /\ None \notin Version
  /\ AliveInterval \in Nat \ {0} /\ Expire \in Nat /\ 2 * AliveInterval <= Expire
  /\ MaxChanges \in Nat /\ MaxFaults \in Nat /\ MaxFlips \in Nat

Label == {0, 1}

VARIABLES
  server,      \* for every host its process: status, version, time to the next alive event
  net,         \* for every host the events under way, with who published them
  observed,    \* for every host in Recorder.observed its version and the age of ts
  elected,     \* options.Election: is a campaign configured?
  active,      \* Recorder.active
  gauge,       \* versionsTally, by version and label
  maintained,  \* did maintenance() run in this unit?
  quiet,       \* time since the last change or fault
  heard,       \* the hosts of whose running process the recorder got an event
  lost,        \* for every host how many events were lost since then
  budget       \* what is left of the bounds

vars == <<elected, server, net, observed, active, gauge, maintained, quiet, heard, lost, budget>>

\* The recorder has no record of the host.
Unseen == [version |-> None, age |-> 0]

Init ==
  /\ server = [h \in Host |-> [status |-> "down", version |-> None, next |-> 0]]
  /\ net = [h \in Host |-> <<>>]
  /\ observed = [h \in Host |-> Unseen]
  /\ elected \in BOOLEAN
  /\ active = IF elected THEN 0 ELSE 1
  /\ gauge = [v \in Version |-> [l \in Label |-> 0]]
  /\ maintained = FALSE
  /\ quiet = 0
  /\ heard = {}
  /\ lost = [h \in Host |-> 0]
  /\ budget = [change |-> MaxChanges, fault |-> MaxFaults, flip |-> MaxFlips]

Spend(kind) == /\ budget[kind] > 0
               /\ budget' = [budget EXCEPT ![kind] = @ - 1]

----------------------------------------------------------------------------
(* The servers. *)

\* PublishEvent(): old tells the events of an earlier process of the host.
PublishEvent(h, type) ==
  net' = [net EXCEPT ![h] = Append(@, [type |-> type, version |-> server[h].version, old |-> FALSE])]

recorder == <<elected, observed, active, gauge, maintained>>

\* A process starts, publishes its startup event and sleeps at random
\* before its first alive event.
publishStartupEvent(h, v, delay) ==
  /\ server[h].status = "down"
  /\ \A i \in DOMAIN net[h] : ~net[h][i].old
  /\ Spend("change")
  /\ server' = [server EXCEPT ![h] = [status |-> "up", version |-> v, next |-> delay]]
  /\ net' = [net EXCEPT ![h] =
       Append([i \in DOMAIN @ |-> [@[i] EXCEPT !.old = TRUE]],
              [type |-> "startup", version |-> v, old |-> FALSE])]
  /\ quiet' = 0
  /\ heard' = heard \ {h}
  /\ UNCHANGED <<recorder, lost>>

\* The ticker of publishAliveEvents().  It still runs between the shutdown
\* event and the end of the connection.
publishAliveEvents(h) ==
  /\ server[h].status \in {"up", "closing"}
  /\ server[h].next = 0
  /\ PublishEvent(h, "alive")
  /\ server' = [server EXCEPT ![h].next = AliveInterval]
  /\ UNCHANGED <<recorder, quiet, heard, lost, budget>>

\* The request processor ends: it publishes the shutdown event ...
publishShutdownEvent(h) ==
  /\ server[h].status = "up"
  /\ Spend("change")
  /\ PublishEvent(h, "shutdown")
  /\ server' = [server EXCEPT ![h].status = "closing"]
  /\ quiet' = 0
  /\ UNCHANGED <<recorder, heard, lost>>

\* ... and closes the connection.
Close(h) ==
  /\ server[h].status = "closing"
  /\ server' = [server EXCEPT ![h] = [status |-> "down", version |-> None, next |-> 0]]
  /\ quiet' = 0
  /\ UNCHANGED <<net, recorder, heard, lost, budget>>

\* A process ends without a word.
Crash(h) ==
  /\ server[h].status = "up"
  /\ Spend("change")
  /\ server' = [server EXCEPT ![h] = [status |-> "down", version |-> None, next |-> 0]]
  /\ quiet' = 0
  /\ UNCHANGED <<net, recorder, heard, lost>>

----------------------------------------------------------------------------
(* The network. *)

\* The next event of the running process, or of the one before it.
Deliverable(h) ==
  {i \in DOMAIN net[h] : \A j \in 1..i-1 : net[h][j].old # net[h][i].old}

Lose(h, i) ==
  /\ Spend("fault")
  /\ net' = [net EXCEPT ![h] = RemoveAt(@, i)]
  /\ lost' = [lost EXCEPT ![h] = @ + 1]
  /\ quiet' = 0
  /\ UNCHANGED <<server, recorder, heard>>

----------------------------------------------------------------------------
(* The recorder. *)

Dec(g, v, l) == [g EXCEPT ![v][l] = @ - 1]
Inc(g, v, l) == [g EXCEPT ![v][l] = @ + 1]

\* activeLabel() reads the label anew for every gauge: a callback of the
\* election can come between two uses within one handler.
Relabelled(l) == \/ active' = l /\ l = active /\ UNCHANGED budget
                 \/ elected /\ active' = l /\ l = 1 - active /\ Spend("flip")

\* processAlive(): a new host is counted, a new version is moved.
processAlive(h, v, l) ==
  /\ observed' = [observed EXCEPT ![h] = [version |-> v, age |-> 0]]
  /\ gauge' = IF observed[h].version = None THEN Inc(gauge, v, l)
              ELSE IF observed[h].version # v
              THEN Inc(Dec(gauge, observed[h].version, active), v, l)
              ELSE gauge

\* Variant for mutation: a known host is counted again.
StartupCounts(h, v, l) ==
  /\ observed' = [observed EXCEPT ![h] = [version |-> v, age |-> 0]]
  /\ gauge' = Inc(gauge, v, l)

\* processStartup(): a known host is taken off first, whatever its version.
processStartup(h, v, l) ==
  /\ observed' = [observed EXCEPT ![h] = [version |-> v, age |-> 0]]
  /\ gauge' = Inc(IF observed[h].version = None THEN gauge
                  ELSE Dec(gauge, observed[h].version, active), v, l)

\* processShutdown(): unknown hosts are ignored.
processShutdown(h, l) ==
  /\ observed' = [observed EXCEPT ![h] = Unseen]
  /\ gauge' = IF observed[h].version = None THEN gauge
              ELSE Dec(gauge, observed[h].version, l)

\* process(): the switch on the type of the event.
process(h, i, l) ==
  /\ LET e == net[h][i]
     IN \/ e.type = "alive" /\ processAlive(h, e.version, l)
        \/ e.type = "startup" /\ processStartup(h, e.version, l)
        \/ e.type = "shutdown" /\ processShutdown(h, l)
  /\ Relabelled(l)
  /\ net' = [net EXCEPT ![h] = RemoveAt(@, i)]
  /\ IF net[h][i].old THEN UNCHANGED <<heard, lost>>
     ELSE heard' = heard \union {h} /\ lost' = [lost EXCEPT ![h] = 0]
  /\ UNCHANGED <<elected, server, maintained, quiet>>

\* Variants for mutation: the limit of one alive event, and none.
ExpiredEarly == {h \in Host : observed[h].version # None /\ observed[h].age > AliveInterval + 1}
ExpiredNever == {}

Expired == {h \in Host : observed[h].version # None /\ observed[h].age > Expire}

\* maintenance(): nobody ages within a unit, so one run stands for those of
\* all its minutes.  The hosts before the callback, if one comes, go with the
\* old label and the others with the new one.
maintenance(first, l) ==
  /\ ~maintained
  /\ observed' = [h \in Host |-> IF h \in Expired THEN Unseen ELSE observed[h]]
  /\ gauge' = [v \in Version |-> [k \in Label |->
       gauge[v][k] - Cardinality({h \in Expired : /\ observed[h].version = v
                                                  /\ k = IF h \in first THEN active ELSE l})]]
  /\ Relabelled(l)
  /\ maintained' = TRUE
  /\ UNCHANGED <<elected, server, net, quiet, heard, lost>>

\* wonCb() and lostCb(), called by the election when leadership changes.
Leadership ==
  /\ elected
  /\ active' = 1 - active
  /\ Spend("flip")
  /\ UNCHANGED <<elected, server, net, observed, gauge, maintained, quiet, heard, lost>>

\* The recorder is started anew: its tally is empty and the events under
\* way find no subscription.
New ==
  /\ Spend("fault")
  /\ observed' = [h \in Host |-> Unseen]
  /\ active' = IF elected THEN 0 ELSE 1
  /\ gauge' = [v \in Version |-> [l \in Label |-> 0]]
  /\ net' = [h \in Host |-> <<>>]
  /\ quiet' = 0
  /\ heard' = {}
  /\ UNCHANGED <<elected, server, maintained, lost>>

\* Time passes when everything due in this unit is done.
Tick ==
  /\ \A h \in Host : /\ net[h] = <<>>
                     /\ server[h].status = "up" => server[h].next > 0
                     /\ server[h].status # "closing"
  /\ maintained
  /\ maintained' = FALSE
  /\ quiet' = IF quiet > Expire THEN quiet ELSE quiet + 1
  /\ server' = [h \in Host |-> IF server[h].status = "up"
                               THEN [server[h] EXCEPT !.next = @ - 1] ELSE server[h]]
  /\ observed' = [h \in Host |-> IF observed[h].version = None THEN Unseen
                                 ELSE [observed[h] EXCEPT !.age = @ + 1]]
  /\ UNCHANGED <<elected, net, active, gauge, heard, lost, budget>>

Next ==
  \/ \E h \in Host : \/ \E v \in Version, delay \in 0..AliveInterval-1 : publishStartupEvent(h, v, delay)
                     \/ publishAliveEvents(h)
                     \/ publishShutdownEvent(h)
                     \/ Close(h)
                     \/ Crash(h)
                     \/ \E i \in Deliverable(h) : Lose(h, i) \/ \E l \in Label : process(h, i, l)
  \/ \E first \in SUBSET Expired, l \in Label : maintenance(first, l)
  \/ Leadership
  \/ New
  \/ Tick

Spec == Init /\ [][Next]_vars

----------------------------------------------------------------------------
(* Properties. *)

Event == [type : {"alive", "startup", "shutdown"}, version : Version, old : BOOLEAN]

\* The variables have their types; every event names the version of the
\* process that published it.
TypeOK ==
  /\ server \in [Host -> [status : {"down", "up", "closing"}, version : Version \union {None},
                          next : 0..AliveInterval]]
  /\ net \in [Host -> Seq(Event)]
  /\ observed \in [Host -> [version : Version \union {None}, age : Nat]]
  /\ elected \in BOOLEAN /\ active \in Label
  /\ gauge \in [Version -> [Label -> Int]]
  /\ maintained \in BOOLEAN /\ quiet \in 0..Expire+1 /\ heard \subseteq Host /\ lost \in [Host -> Nat]

\* Over both labels the gauges of a version count the hosts the recorder
\* has observed with it, whatever the order of events, expiries and
\* callbacks of the election.  Without an election the label never changes
\* and the gauge itself is the count: it is never below zero.
NetTally ==
  \A v \in Version :
    /\ gauge[v][0] + gauge[v][1] = Cardinality({h \in Host : observed[h].version = v})
    /\ ~elected => gauge[v][0] = 0

\* A server that runs is counted under its version once an alive interval
\* passed without a change or a fault: a late shutdown event of the process
\* before it, a lost startup or a new recorder is made good.
RunningIsCounted ==
  \A h \in Host :
    server[h].status = "up" /\ quiet > AliveInterval => observed[h].version = server[h].version

\* A server that ended is forgotten when it was silent for longer than the
\* limit: a crash, a lost shutdown event or an alive event that came after
\* the shutdown leaves no record behind.
EndedIsForgotten ==
  \A h \in Host :
    server[h].status = "down" /\ quiet > Expire /\ maintained => observed[h].version = None

\* Once things are quiet what is counted is what runs.
TallySettles == RunningIsCounted /\ EndedIsForgotten

\* maintenance() never gives up a running server it heard of for one lost event: two
\* alive intervals are shorter than the limit.
OneLossIsTolerated ==
  [][\A h \in Host : /\ observed[h].version # None /\ observed'[h].version = None
                     /\ ~maintained /\ maintained'
                     => server[h].status # "up" \/ h \notin heard \/ lost[h] > 1]_vars

=============================================================================
