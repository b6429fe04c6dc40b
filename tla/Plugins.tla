------------------------------ MODULE Plugins -------------------------------
(***************************************************************************)
(* The plugins manager of autonomous agents: a plugins watcher turns a     *)
(* specification from the key-value store into directories of managing     *)
(* machines (aagent/watchers/pluginswatcher), the host runs what is in     *)
(* these directories (aagent), and the archive watcher of such a machine   *)
(* keeps one plugin deployed (aagent/watchers/archivewatcher).  The three  *)
(* meet only in the file system.  Names differ from those of AAgent,       *)
(* because AAgentProofs extends both modules.                              *)
(***************************************************************************)
EXTENDS Naturals, FiniteSets

CONSTANTS
  Plugin,
  Newest,      \* versions of a plugin are 1..Newest
  MaxUpdates,  \* bound on specifications that are published
  MaxFaults    \* bound on crashes, failed steps and damaged files

ASSUME PluginsAssumption ==
  /\ IsFiniteSet(Plugin) /\ Plugin # {}
  /\ Newest \in Nat \ {0} /\ MaxUpdates \in Nat /\ MaxFaults \in Nat

Version  == 1..Newest
Damaged  == Newest + 1    \* contents that do not verify
Declared == [Plugin -> 0..Newest]    \* 0: not declared, or not for this node

VARIABLES
  item,      \* the data item: "good", "bad" when it does not verify, or "none"
  data,      \* the specification in it
  updates, faults,
  \* the file system
  manager,   \* version in the directory of the managing machine, 0: no directory
  plugin,    \* what is in the directory of the plugin, 0: no directory
  \* the plugins watcher
  purges,    \* the property PurgeUnknown
  wpc,       \* "idle", "refuse", "purge", "sleep" or "deploy"
  desired, pending, at,
  \* the host and the archive watchers
  stuck,     \* the host waits for ever in cleanf()
  running,   \* version a managing machine was made of, 0: there is none
  hash,      \* version it was hashed with, 0: not yet
  job,       \* the watch of a machine: "idle", "download", "extracted" or "removed"
  \* history
  forgotten  \* plugins that were there without their manager when their removal
             \* was cut short, or that an archive watcher put back after it

given       == <<item, data, updates, faults>>
dirs        == <<manager, plugin>>
watching    == <<purges, wpc, desired, pending, at>>
hosted      == <<stuck, running, hash, job>>
pluginsVars == <<given, dirs, watching, hosted, forgotten>>

-----------------------------------------------------------------------------
(* The world.                                                              *)

\* The kv watcher stores a new value, or finds that the key is gone.
DataPut(i, d) ==
  /\ updates < MaxUpdates
  /\ i # "good" => d = data
  /\ updates' = updates + 1
  /\ item' = i /\ data' = d
  /\ UNCHANGED <<faults, dirs, watching, hosted, forgotten>>

\* Files of a plugin change or go.
Damage(p) ==
  /\ faults < MaxFaults /\ plugin[p] # 0
  /\ faults' = faults + 1
  /\ plugin' = [plugin EXCEPT ![p] = Damaged]
  /\ UNCHANGED <<item, data, updates, manager, watching, hosted, forgotten>>

\* Plugins without their manager.
Orphans == {p \in Plugin : manager[p] = 0 /\ plugin[p] # 0}

\* The watch ends before it is done.
CutShort ==
  /\ wpc' = "idle" /\ pending' = {}
  /\ forgotten' = forgotten \cup Orphans
  /\ UNCHANGED <<purges, desired, at>>

\* The server stops and starts again.
Crash ==
  /\ faults < MaxFaults
  /\ faults' = faults + 1
  /\ CutShort
  /\ stuck' = FALSE
  /\ running' = [p \in Plugin |-> 0] /\ hash' = [p \in Plugin |-> 0]
  /\ job' = [p \in Plugin |-> [v \in Version |-> "idle"]]
  /\ UNCHANGED <<item, data, updates, dirs>>

-----------------------------------------------------------------------------
(* The plugins watcher: watch().                                           *)

\* desiredState(): the signature of the data does not verify ...
Refuse ==
  /\ wpc = "idle" /\ item = "bad"
  /\ wpc' = "refuse"
  /\ UNCHANGED <<given, dirs, purges, desired, pending, at, hosted, forgotten>>

\* ... and the item is removed, whatever is in it by now.
Discard ==
  /\ wpc = "refuse"
  /\ wpc' = "idle"
  /\ item' = "none"
  /\ UNCHANGED <<data, updates, faults, dirs, purges, desired, pending, at, hosted, forgotten>>

\* Without data the watch fails, and changes nothing.
WatchFails == wpc = "idle" /\ item = "none" /\ UNCHANGED pluginsVars

\* What is managed but not desired is to be purged.
Watch ==
  /\ wpc = "idle" /\ item = "good"
  /\ desired' = data
  /\ pending' = {p \in Plugin : purges /\ manager[p] # 0 /\ data[p] = 0}
  /\ wpc' = "purge"
  /\ UNCHANGED <<given, dirs, purges, at, hosted, forgotten>>

\* First the managing machine, and 2 seconds for the host to see it ...
PurgeManager(p) ==
  /\ wpc = "purge" /\ p \in pending
  /\ manager' = [manager EXCEPT ![p] = 0]
  /\ wpc' = "sleep" /\ at' = p
  /\ UNCHANGED <<given, plugin, purges, desired, pending, hosted, forgotten>>

\* Variant for mutation: the plugin is left where it is.
PurgeNothing ==
  /\ wpc = "sleep"
  /\ pending' = pending \ {at}
  /\ wpc' = "purge"
  /\ UNCHANGED <<given, dirs, purges, desired, at, hosted, forgotten>>

\* ... then what it manages, though the host looks every 10 seconds.
PurgePlugin ==
  /\ wpc = "sleep"
  /\ plugin' = [plugin EXCEPT ![at] = 0]
  /\ pending' = pending \ {at}
  /\ wpc' = "purge"
  /\ UNCHANGED <<given, manager, purges, desired, at, hosted, forgotten>>

\* One of the two cannot be removed, or the sleep is interrupted.
PurgeFails ==
  /\ faults < MaxFaults
  /\ faults' = faults + 1
  /\ \/ /\ wpc = "purge"
        /\ \E p \in pending : pending' = pending \ {p}
        /\ UNCHANGED <<purges, wpc, desired, at, forgotten>>
     \/ /\ wpc = "sleep"
        /\ wpc' = "purge" /\ pending' = pending \ {at}
        /\ forgotten' = forgotten \cup ({at} \cap Orphans)
        /\ UNCHANGED <<purges, desired, at>>
     \/ wpc = "sleep" /\ CutShort
  /\ UNCHANGED <<item, data, updates, dirs, hosted>>

PurgeDone ==
  /\ wpc = "purge" /\ pending = {}
  /\ wpc' = "deploy"
  /\ pending' = {p \in Plugin : desired[p] # 0}
  /\ UNCHANGED <<given, dirs, purges, desired, at, hosted, forgotten>>

DeploySkip(p) ==
  /\ wpc = "deploy" /\ p \in pending /\ manager[p] = desired[p]
  /\ pending' = pending \ {p}
  /\ UNCHANGED <<given, dirs, purges, wpc, desired, at, hosted, forgotten>>

\* Variant for mutation: the manager that was removed is written by the next watch.
DeployRemoveOnly(p) ==
  /\ wpc = "deploy" /\ p \in pending /\ manager[p] \notin {0, desired[p]}
  /\ manager' = [manager EXCEPT ![p] = 0]
  /\ pending' = pending \ {p}
  /\ UNCHANGED <<given, plugin, purges, wpc, desired, at, hosted, forgotten>>

DeployRemove(p) ==
  /\ wpc = "deploy" /\ p \in pending /\ manager[p] \notin {0, desired[p]}
  /\ manager' = [manager EXCEPT ![p] = 0]
  /\ UNCHANGED <<given, plugin, watching, hosted, forgotten>>

DeployWrite(p) ==
  /\ wpc = "deploy" /\ p \in pending /\ manager[p] = 0
  /\ manager' = [manager EXCEPT ![p] = desired[p]]
  /\ pending' = pending \ {p}
  /\ forgotten' = forgotten \ {p}
  /\ UNCHANGED <<given, plugin, purges, wpc, desired, at, hosted>>

\* The old manager cannot be removed, which ends the watch, or the new one
\* cannot be written.
DeployFails(p) ==
  /\ wpc = "deploy" /\ p \in pending
  /\ faults < MaxFaults
  /\ faults' = faults + 1
  /\ \/ manager[p] \notin {0, desired[p]} /\ CutShort
     \/ /\ manager[p] = 0
        /\ pending' = pending \ {p}
        /\ forgotten' = forgotten \cup ({p} \cap Orphans)
        /\ UNCHANGED <<purges, wpc, desired, at>>
  /\ UNCHANGED <<item, data, updates, dirs, hosted>>

DeployDone ==
  /\ wpc = "deploy" /\ pending = {}
  /\ wpc' = "idle"
  /\ UNCHANGED <<given, dirs, purges, desired, pending, at, hosted, forgotten>>

-----------------------------------------------------------------------------
(* The host: what AAgent has in detail, for the managing machines.         *)

\* Its directory is gone: cleanf() deletes the machine, or meets a transition
\* of it that waits for the mutex cleanf() holds.
HostClean(p) ==
  /\ ~stuck /\ hash[p] # 0 /\ manager[p] = 0
  /\ \/ /\ running' = [running EXCEPT ![p] = 0]
        /\ hash' = [hash EXCEPT ![p] = 0]
        /\ UNCHANGED stuck
     \/ stuck' = TRUE /\ UNCHANGED <<running, hash>>
  /\ UNCHANGED <<given, dirs, watching, job, forgotten>>

\* It has another manifest: the machine is stopped.
HostStop(p) ==
  /\ ~stuck /\ hash[p] # 0 /\ manager[p] \notin {0, hash[p]}
  /\ running' = [running EXCEPT ![p] = 0]
  /\ hash' = [hash EXCEPT ![p] = 0]
  /\ UNCHANGED <<given, dirs, watching, stuck, job, forgotten>>

\* loadMachine() makes a machine of the manifest ...
HostRead(p) ==
  /\ ~stuck /\ running[p] = 0 /\ manager[p] # 0
  /\ running' = [running EXCEPT ![p] = manager[p]]
  /\ UNCHANGED <<given, dirs, watching, stuck, hash, job, forgotten>>

\* ... reads it again for the hash, and gives up if it is gone.
HostStart(p) ==
  /\ ~stuck /\ running[p] # 0 /\ hash[p] = 0
  /\ running' = IF manager[p] = 0 THEN [running EXCEPT ![p] = 0] ELSE running
  /\ hash' = [hash EXCEPT ![p] = manager[p]]
  /\ UNCHANGED <<given, dirs, watching, stuck, job, forgotten>>

\* A machine of version v runs.
Runs(p, v) == running[p] = v /\ hash[p] # 0

-----------------------------------------------------------------------------
(* The archive watcher of the machine of version v: watch().               *)

\* The plugins watcher has removed the manager of p, and is going to remove p
\* too or to write another manager.
UnderWay(p) ==
  \/ wpc = "sleep" /\ p = at
  \/ wpc = "deploy" /\ p \in pending

\* Variant for mutation: only a missing directory is downloaded.
VerifyExists(p, v) ==
  /\ Runs(p, v) /\ job[p][v] = "idle"
  /\ plugin[p] = 0
  /\ job' = [job EXCEPT ![p][v] = "download"]
  /\ UNCHANGED <<given, dirs, watching, stuck, running, hash, forgotten>>

\* verifyCreates(): something is missing or does not verify.
Verify(p, v) ==
  /\ Runs(p, v) /\ job[p][v] = "idle"
  /\ plugin[p] # v
  /\ job' = [job EXCEPT ![p][v] = "download"]
  /\ UNCHANGED <<given, dirs, watching, stuck, running, hash, forgotten>>

\* Into a temporary directory, where it is extracted and verified.
Download(p, v) ==
  /\ job[p][v] = "download" /\ Runs(p, v)
  /\ job' = [job EXCEPT ![p][v] = "extracted"]
  /\ UNCHANGED <<given, dirs, watching, stuck, running, hash, forgotten>>

\* The context ends, or the download, extraction or verification fails.
DownloadFails(p, v) ==
  /\ job[p][v] = "download"
  /\ IF Runs(p, v) THEN faults < MaxFaults /\ faults' = faults + 1
                   ELSE faults' = faults
  /\ job' = [job EXCEPT ![p][v] = "idle"]
  /\ UNCHANGED <<item, data, updates, dirs, watching, stuck, running, hash, forgotten>>

\* From here on nobody looks at the context.
RemoveCurrent(p, v) ==
  /\ job[p][v] = "extracted"
  /\ plugin' = [plugin EXCEPT ![p] = 0]
  /\ job' = [job EXCEPT ![p][v] = "removed"]
  /\ UNCHANGED <<given, manager, watching, stuck, running, hash, forgotten>>

\* Another machine's watch may have put its plugin there: then rename fails.
\* Or the manager is gone, and what comes now has nobody to remove it.
Rename(p, v) ==
  /\ job[p][v] = "removed"
  /\ job' = [job EXCEPT ![p][v] = "idle"]
  /\ plugin' = IF plugin[p] = 0 THEN [plugin EXCEPT ![p] = v] ELSE plugin
  /\ forgotten' = IF manager[p] = 0 /\ ~UnderWay(p) THEN forgotten \cup {p} ELSE forgotten
  /\ UNCHANGED <<given, manager, watching, stuck, running, hash>>

-----------------------------------------------------------------------------
PluginsInit ==
  /\ item = "none" /\ data = [p \in Plugin |-> 0] /\ updates = 0 /\ faults = 0
  /\ manager = [p \in Plugin |-> 0] /\ plugin = [p \in Plugin |-> 0]
  /\ wpc = "idle" /\ desired = [p \in Plugin |-> 0] /\ pending = {}
  /\ purges \in BOOLEAN /\ at = CHOOSE p \in Plugin : TRUE
  /\ stuck = FALSE /\ running = [p \in Plugin |-> 0] /\ hash = [p \in Plugin |-> 0]
  /\ job = [p \in Plugin |-> [v \in Version |-> "idle"]]
  /\ forgotten = {}

Watcher ==
  \/ Refuse \/ Discard \/ WatchFails \/ Watch \/ PurgePlugin \/ PurgeDone \/ DeployDone
  \/ \E p \in Plugin : PurgeManager(p) \/ DeploySkip(p) \/ DeployRemove(p) \/ DeployWrite(p)

HostRound(p) == HostClean(p) \/ HostStop(p) \/ HostRead(p) \/ HostStart(p)

Archive(p, v) == Verify(p, v) \/ Download(p, v) \/ DownloadFails(p, v) \/ RemoveCurrent(p, v) \/ Rename(p, v)

PluginsNext ==
  \/ \E i \in {"good", "bad", "none"}, d \in Declared : DataPut(i, d)
  \/ Crash \/ Watcher \/ PurgeFails
  \/ \E p \in Plugin : DeployFails(p) \/ Damage(p) \/ HostRound(p) \/ \E v \in Version : Archive(p, v)

PluginsSpec == PluginsInit /\ [][PluginsNext]_pluginsVars

\* Three tickers: the watcher's interval, the host's and that of a managing machine.
PluginsFairSpec ==
  /\ PluginsSpec /\ WF_pluginsVars(Watcher)
  /\ \A p \in Plugin : WF_pluginsVars(HostRound(p)) /\ \A v \in Version : WF_pluginsVars(Archive(p, v))

-----------------------------------------------------------------------------
(* Properties.                                                             *)

PluginsTypeOK ==
  /\ item \in {"good", "bad", "none"} /\ data \in Declared /\ updates \in 0..MaxUpdates /\ faults \in 0..MaxFaults
  /\ manager \in [Plugin -> 0..Newest] /\ plugin \in [Plugin -> 0..Damaged]
  /\ purges \in BOOLEAN /\ wpc \in {"idle", "refuse", "purge", "sleep", "deploy"}
  /\ desired \in Declared /\ pending \subseteq Plugin /\ at \in Plugin
  /\ wpc \in {"idle", "refuse"} => pending = {}
  /\ stuck \in BOOLEAN /\ running \in [Plugin -> 0..Newest] /\ hash \in [Plugin -> 0..Newest]
  /\ job \in [Plugin -> [Version -> {"idle", "download", "extracted", "removed"}]]
  /\ forgotten \subseteq Plugin

\* A plugin loses its manager only to be removed itself or to get another
\* manager: what is left without one, because that failed or was cut short or
\* because an archive watcher put it back, is all the watchers lose track of.
ManagedOrForgotten == \A p \in Orphans : p \in forgotten \/ UnderWay(p)

\* The host has what is not on disk: it waits for ever in cleanf(), or the
\* manifest changed between its two reads.
HostAstray(p) == stuck \/ (hash[p] # 0 /\ running[p] # hash[p])

\* What is declared comes to be deployed, in the version that is declared, and
\* stays: after crashes, damage, failed steps and archive watchers of an older
\* version that are still at work.
Deployed ==
  \A p \in Plugin :
    <>[](item = "good" /\ data[p] # 0 /\ ~HostAstray(p) => plugin[p] = data[p])

\* Managing machines come to be those that are declared, and only those run;
\* without PurgeUnknown those that were dropped stay.
ManagersFollow ==
  \A p \in Plugin :
    <>[](item = "good" /\ (purges \/ data[p] # 0) =>
           manager[p] = data[p] /\ (HostAstray(p) \/ running[p] = data[p]))

\* What is declared, and nothing else, is managed, and it is in place.
DeclaredIsRun == Deployed /\ ManagersFollow

\* What is no longer declared comes to be removed, unless its removal failed or
\* was cut short, or an archive watcher that was under way put it back: no
\* directory tells any more that the plugin was managed.
PurgedUnlessForgotten ==
  \A p \in Plugin :
    <>[](purges /\ item = "good" /\ data[p] = 0 /\ p \notin forgotten => plugin[p] = 0)

\* "PurgeUnknown will remove plugins not declared in DataItem".  Not so for
\* the plugins the property above leaves out.
PurgeUnknown ==
  \A p \in Plugin : <>[](purges /\ item = "good" /\ data[p] = 0 => plugin[p] = 0)

=============================================================================
