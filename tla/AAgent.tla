------------------------------- MODULE AAgent -------------------------------
(***************************************************************************)
(* Hosting of autonomous agents (aagent, aagent/machine): a goroutine, the *)
(* host, looks at a directory every 10 seconds, loads the machines it      *)
(* finds, starts them, reloads those whose manifest changed and deletes    *)
(* those that are gone.  Meanwhile watchers, remote calls and transitions  *)
(* of other machines make machines transition.                             *)
(*                                                                         *)
(* Two kinds of mutex are held while another is asked for: the one of the  *)
(* AAgent, which guards its list of machines, and the one of each Machine. *)
(* Steps that take a mutex and give it back without asking for another are *)
(* single actions, possible when it is free.                               *)
(***************************************************************************)
EXTENDS Naturals, FiniteSets

CONSTANTS
  Path,        \* directories in the source directory
  Instance,    \* Machine objects
  Follows,     \* pairs <<p, q>>: p subscribes to transitions of q
  MaxVersion,  \* manifests have versions 1..MaxVersion, 1 when the server starts
  Invalid,     \* versions that do not load
  MaxEdits,    \* bound on the changes to the directory and the reads that fail
  MaxStarts,   \* bound on the calls of Start() of one object
  MaxCallers   \* bound on the goroutines that wait in Transition() of an object

ASSUME AAgentAssumption ==
  /\ IsFiniteSet(Instance) /\ Path # {}
  /\ Follows \subseteq Path \X Path
  /\ MaxVersion \in Nat \ {0} /\ Invalid \subseteq 1..MaxVersion
  /\ MaxEdits \in Nat
  /\ MaxStarts \in Nat \ {0} /\ MaxCallers \in Nat \ {0}

VARIABLES
  disk,       \* version of the manifest in a path, 0 for none
  edits,      \* number of changes to the directory and of reads that failed
  removed,    \* a directory was ever removed
  \* the AAgent and its host
  lock,       \* the mutex: "free" or "clean", held by the host
  machines,   \* the list
  hpc,        \* "wait", "clean", "forget", "load" or "start"
  todo,       \* what is left to do of that: instances, or paths for "load"
  gone,       \* instances to forget
  read,       \* version FromYAML() made a machine of that is not in the list yet, or 0
  \* the Machine objects
  path,       \* path of each, of no account before it is loaded
  made,       \* version of the manifest it was made of, 0 before
  loaded,     \* loadedHash: version of the manifest when it was hashed, 0 before
  mu,         \* the mutex: "free", or what its holder is at: "event" or "lookup"
  callers,    \* number of goroutines waiting for it in Transition()
  started,    \* startTime is set
  ctx,        \* number of the context of the last Start(), 0 for none
  cancelled,  \* contexts that were cancelled
  rpc,        \* goroutines of Start(): "none", "splay", "run", "stamp" or "done"
  rctx,       \* the context such a goroutine gave to the watchers
  watch       \* context the watchers run with, 0 when there are none

host  == <<lock, machines, hpc, todo, gone, read>>
run   == <<rpc, rctx, watch>>
mach  == <<path, made, loaded, mu, callers, started, ctx, cancelled>>
world == <<disk, edits, removed>>
vars  == <<world, host, mach, run>>

Starts == 1..MaxStarts

-----------------------------------------------------------------------------
(* The directory: Puppet, a machines watcher or an operator.               *)

Edit(p, v) ==
  /\ edits < MaxEdits
  /\ v # disk[p]
  /\ disk' = [disk EXCEPT ![p] = v]
  /\ edits' = edits + 1
  /\ removed' = (removed \/ v = 0)
  /\ UNCHANGED <<host, mach, run>>

-----------------------------------------------------------------------------
(* The host, watchSource().                                                *)

\* The list and the directory are gone through in an order of their own.
First(left) == CHOOSE x \in left : TRUE

\* cleanf() takes the mutex of the AAgent and looks for machines to delete.
Tick ==
  /\ hpc = "wait"
  /\ lock = "free"
  /\ lock' = "clean"
  /\ hpc' = "clean"
  /\ todo' = {i \in machines : disk[path[i]] = 0}
  /\ gone' = todo'
  /\ UNCHANGED <<world, machines, read, mach, run>>

\* Variant for mutation: only a machine that IsStarted() is cancelled.
HaltStarted(i) ==
  /\ mu[i] = "free"
  /\ started' = [started EXCEPT ![i] = FALSE]
  /\ cancelled' = [cancelled EXCEPT ![i] = @ \cup IF started[i] THEN {ctx[i]} ELSE {}]
  /\ UNCHANGED <<path, made, loaded, mu, callers, ctx>>

\* What Delete() and Stop() have in common, under the mutex of the machine.
Halt(i) ==
  /\ mu[i] = "free"
  /\ started' = [started EXCEPT ![i] = FALSE]
  /\ cancelled' = [cancelled EXCEPT ![i] = @ \cup ({ctx[i]} \ {0})]
  /\ UNCHANGED <<path, made, loaded, mu, callers, ctx>>

CleanDelete(i) ==
  /\ hpc = "clean"
  /\ i \in todo /\ i = First(todo)
  /\ Halt(i)
  /\ todo' = todo \ {i}
  /\ UNCHANGED <<world, lock, machines, hpc, gone, read, run>>

\* Variant for mutation: the mutex is not given back when nothing was deleted.
CleanUnlockIfDeleted ==
  /\ hpc = "clean"
  /\ todo = {}
  /\ lock' = IF gone = {} THEN lock ELSE "free"
  /\ hpc' = "forget"
  /\ UNCHANGED <<world, machines, todo, gone, read, mach, run>>

CleanUnlock ==
  /\ hpc = "clean"
  /\ todo = {}
  /\ lock' = "free"
  /\ hpc' = "forget"
  /\ UNCHANGED <<world, machines, todo, gone, read, mach, run>>

\* deleteByPath() for each of them, after which loadf() starts.
Forget ==
  /\ hpc = "forget"
  /\ machines' = machines \ gone
  /\ gone' = {}
  /\ hpc' = "load"
  /\ todo' = Path
  /\ UNCHANGED <<world, lock, read, mach, run>>

\* findMachine() by path.
Current(p) == {i \in machines : path[i] = p}

\* The directory that is next.
AtPath(p) == hpc = "load" /\ p \in todo /\ p = First(todo) /\ read = 0

\* Variant for mutation: the hash of the manifest is not compared.
LoadSkipKnown(p) ==
  /\ AtPath(p)
  /\ disk[p] = 0 \/ Current(p) # {}
  /\ todo' = todo \ {p}
  /\ UNCHANGED <<world, lock, machines, hpc, gone, read, mach, run>>

\* Not on disk, or on disk as it was when it was hashed.
LoadSkip(p) ==
  /\ AtPath(p)
  /\ disk[p] = 0 \/ \E i \in Current(p) : loaded[i] = disk[p]
  /\ todo' = todo \ {p}
  /\ UNCHANGED <<world, lock, machines, hpc, gone, read, mach, run>>

\* Objects that were not made yet.
Unused == {i \in Instance : loaded[i] = 0}

\* The manifest changed, or cannot be hashed: Stop(), deleteByPath() and a
\* second of sleep.
LoadStop(p) ==
  /\ AtPath(p)
  /\ \E i \in Current(p) :
       /\ \/ loaded[i] # disk[p] /\ UNCHANGED edits
          \/ edits < MaxEdits /\ edits' = edits + 1
       /\ Halt(i)
       /\ machines' = machines \ {i}
  /\ UNCHANGED <<disk, removed, lock, hpc, todo, gone, read, run>>

\* Variant for mutation: it is not looked for a machine from the same path.
ReadAnyway(p) ==
  /\ AtPath(p)
  /\ disk[p] \notin Invalid \cup {0}
  /\ Unused # {}
  /\ read' = disk[p]
  /\ UNCHANGED <<world, lock, machines, hpc, todo, gone, mach, run>>

\* loadMachine(): FromYAML() reads the manifest and makes a machine of it ...
Read(p) ==
  /\ AtPath(p)
  /\ disk[p] \notin Invalid \cup {0}
  /\ Current(p) = {}
  /\ Unused # {}
  /\ read' = disk[p]
  /\ UNCHANGED <<world, lock, machines, hpc, todo, gone, mach, run>>

\* ... Hash() reads it again, and the machine joins the list.
Load(p) ==
  /\ hpc = "load"
  /\ p \in todo /\ p = First(todo)
  /\ read # 0 /\ disk[p] # 0
  /\ LET i == CHOOSE j \in Unused : TRUE IN
       /\ path' = [path EXCEPT ![i] = p]
       /\ made' = [made EXCEPT ![i] = read]
       /\ loaded' = [loaded EXCEPT ![i] = disk[p]]
       /\ machines' = machines \cup {i}
  /\ read' = 0
  /\ todo' = todo \ {p}
  /\ UNCHANGED <<world, lock, hpc, gone, mu, callers, started, ctx, cancelled, run>>

\* One of the two reads fails, or what was read is not a machine.
LoadFails(p) ==
  /\ hpc = "load"
  /\ p \in todo /\ p = First(todo)
  /\ Current(p) = {}
  /\ \/ /\ disk[p] = 0 /\ read # 0
        /\ UNCHANGED edits
     \/ /\ disk[p] \in Invalid /\ read = 0
        /\ UNCHANGED edits
     \/ /\ disk[p] # 0
        /\ edits < MaxEdits
        /\ edits' = edits + 1
  /\ read' = 0
  /\ todo' = todo \ {p}
  /\ UNCHANGED <<disk, removed, lock, machines, hpc, gone, mach, run>>

\* startMachines() copies the list.
StartMachines ==
  /\ hpc = "load"
  /\ todo = {}
  /\ hpc' = "start"
  /\ todo' = machines
  /\ UNCHANGED <<world, lock, machines, gone, read, mach, run>>

\* IsStarted(), or the bound on starts.
StartSkip(i) ==
  /\ hpc = "start"
  /\ i \in todo /\ i = First(todo)
  /\ mu[i] = "free"
  /\ started[i] \/ ctx[i] = MaxStarts
  /\ todo' = todo \ {i}
  /\ UNCHANGED <<world, lock, machines, hpc, gone, read, mach, run>>

\* Machine.Start(), which takes no mutex.
Start(i) ==
  /\ hpc = "start"
  /\ i \in todo /\ i = First(todo)
  /\ mu[i] = "free"
  /\ ~started[i]
  /\ ctx[i] < MaxStarts
  /\ todo' = todo \ {i}
  /\ ctx' = [ctx EXCEPT ![i] = @ + 1]
  /\ rpc' = [rpc EXCEPT ![i][ctx[i] + 1] = "splay"]
  /\ UNCHANGED <<world, lock, machines, hpc, gone, read, path, made, loaded, mu, callers, started,
                 cancelled, rctx, watch>>

Sleep ==
  /\ hpc = "start"
  /\ todo = {}
  /\ hpc' = "wait"
  /\ UNCHANGED <<world, lock, machines, todo, gone, read, mach, run>>

Host ==
  \/ Tick \/ CleanUnlock \/ Forget \/ StartMachines \/ Sleep
  \/ \E i \in Instance : CleanDelete(i) \/ StartSkip(i) \/ Start(i)
  \/ \E p \in Path : LoadSkip(p) \/ LoadStop(p) \/ Read(p) \/ Load(p) \/ LoadFails(p)

-----------------------------------------------------------------------------
(* runf() of the n-th Start() of a machine.                                *)

\* The splay is over, and the context of the last Start() is taken.
RunWake(i, n) ==
  /\ rpc[i][n] = "splay"
  /\ rpc' = [rpc EXCEPT ![i][n] = "run"]
  /\ rctx' = [rctx EXCEPT ![i][n] = ctx[i]]
  /\ UNCHANGED <<world, host, mach, watch>>

\* The splay is interrupted.
RunInterrupted(i, n) ==
  /\ rpc[i][n] = "splay"
  /\ n \in cancelled[i]
  /\ rpc' = [rpc EXCEPT ![i][n] = "done"]
  /\ started' = [started EXCEPT ![i] = FALSE]
  /\ UNCHANGED <<world, host, path, made, loaded, mu, callers, ctx, cancelled, rctx, watch>>

\* Manager.Run(): AddWatcher() refuses watchers there are already.
RunManager(i, n) ==
  /\ rpc[i][n] = "run"
  /\ \/ /\ watch[i] = 0
        /\ watch' = [watch EXCEPT ![i] = rctx[i][n]]
        /\ rpc' = [rpc EXCEPT ![i][n] = "stamp"]
     \/ /\ watch[i] # 0
        /\ rpc' = [rpc EXCEPT ![i][n] = "done"]
        /\ UNCHANGED watch
  /\ rctx' = [rctx EXCEPT ![i][n] = 0]
  /\ UNCHANGED <<world, host, mach>>

\* startTime is set, without the mutex.
RunStamp(i, n) ==
  /\ rpc[i][n] = "stamp"
  /\ rpc' = [rpc EXCEPT ![i][n] = "done"]
  /\ started' = [started EXCEPT ![i] = TRUE]
  /\ UNCHANGED <<world, host, path, made, loaded, mu, callers, ctx, cancelled, rctx, watch>>

Run(i, n) ==
  RunWake(i, n) \/ RunInterrupted(i, n) \/ RunManager(i, n) \/ RunStamp(i, n)

Running(i) == \E n \in Starts : Run(i, n)

-----------------------------------------------------------------------------
(* Transition().                                                           *)

\* Watchers run until their context is cancelled.
Live(i) == watch[i] # 0 /\ watch[i] \notin cancelled[i]

\* One more goroutine, as far as the bound allows.
OneMore(i) == IF callers[i] < MaxCallers THEN callers[i] + 1 ELSE callers[i]

\* A watcher finds that its machine has to transition, or a remote call comes
\* in and finds the machine.
Call(i) ==
  /\ callers[i] < MaxCallers
  /\ Live(i) \/ (i \in machines /\ lock = "free")
  /\ callers' = [callers EXCEPT ![i] = OneMore(i)]
  /\ UNCHANGED <<world, host, path, made, loaded, mu, started, ctx, cancelled, run>>

\* A transition that is not valid, or of a machine that was stopped.
TransitionRefused(i) ==
  /\ callers[i] > 0
  /\ mu[i] = "free"
  /\ callers' = [callers EXCEPT ![i] = @ - 1]
  /\ UNCHANGED <<world, host, path, made, loaded, mu, started, ctx, cancelled, run>>

\* backoffTransition() sleeps with the mutex held, and the state changes.
TransitionBegins(i) ==
  /\ callers[i] > 0
  /\ mu[i] = "free"
  /\ ctx[i] \notin cancelled[i]
  /\ callers' = [callers EXCEPT ![i] = @ - 1]
  /\ mu' = [mu EXCEPT ![i] = "event"]
  /\ UNCHANGED <<world, host, path, made, loaded, started, ctx, cancelled, run>>

\* enter_state is called after some time:
\* notifyMachinesAfterTransition() takes the mutex of the AAgent and starts a
\* goroutine for every machine; those that follow this one transition too.
TransitionNotifies(i) ==
  /\ mu[i] = "event"
  /\ lock = "free"
  /\ callers' = [j \in Instance |->
                   IF j \in machines /\ <<path[j], path[i]>> \in Follows
                   THEN OneMore(j) ELSE callers[j]]
  /\ mu' = [mu EXCEPT ![i] = "free"]
  /\ UNCHANGED <<world, host, path, made, loaded, started, ctx, cancelled, run>>

\* ShouldWatch() asks for the state of another machine, with the mutex held.
Lookup(i) ==
  /\ Live(i)
  /\ mu[i] = "free"
  /\ mu' = [mu EXCEPT ![i] = "lookup"]
  /\ UNCHANGED <<world, host, path, made, loaded, callers, started, ctx, cancelled, run>>

LookupEnds(i) ==
  /\ mu[i] = "lookup"
  /\ lock = "free"
  /\ mu' = [mu EXCEPT ![i] = "free"]
  /\ UNCHANGED <<world, host, path, made, loaded, callers, started, ctx, cancelled, run>>

\* A goroutine that holds the mutex of a machine gets on.
Proceed(i) == TransitionNotifies(i) \/ LookupEnds(i)

-----------------------------------------------------------------------------
Init ==
  /\ disk \in [Path -> {0, 1}]
  /\ edits = 0
  /\ removed = FALSE
  /\ lock = "free"
  /\ machines = {}
  /\ hpc = "load"
  /\ todo = Path
  /\ gone = {}
  /\ read = 0
  /\ path = [i \in Instance |-> CHOOSE p \in Path : TRUE]
  /\ made = [i \in Instance |-> 0]
  /\ loaded = [i \in Instance |-> 0]
  /\ mu = [i \in Instance |-> "free"]
  /\ callers = [i \in Instance |-> 0]
  /\ started = [i \in Instance |-> FALSE]
  /\ ctx = [i \in Instance |-> 0]
  /\ cancelled = [i \in Instance |-> {}]
  /\ rpc = [i \in Instance |-> [n \in Starts |-> "none"]]
  /\ rctx = [i \in Instance |-> [n \in Starts |-> 0]]
  /\ watch = [i \in Instance |-> 0]

Next ==
  \/ \E p \in Path, v \in 0..MaxVersion : Edit(p, v)
  \/ Host
  \/ \E i \in Instance : \/ Running(i)
                         \/ Call(i) \/ TransitionRefused(i) \/ TransitionBegins(i)
                         \/ Lookup(i) \/ Proceed(i)

Spec == Init /\ [][Next]_vars

\* Goroutines run and Go's mutexes do not starve who waits for them.
Fairness ==
  /\ SF_vars(Host)
  /\ \A i \in Instance : SF_vars(Proceed(i)) /\ WF_vars(Running(i))

FairSpec == Spec /\ Fairness

-----------------------------------------------------------------------------
(* Properties.                                                             *)

TypeOK ==
  /\ disk \in [Path -> 0..MaxVersion] /\ edits \in 0..MaxEdits /\ removed \in BOOLEAN
  /\ read \in 0..MaxVersion
  /\ lock \in {"free", "clean"} /\ machines \subseteq Instance /\ gone \subseteq Instance
  /\ hpc \in {"wait", "clean", "forget", "load", "start"}
  /\ todo \subseteq IF hpc = "load" THEN Path ELSE Instance
  /\ path \in [Instance -> Path]
  /\ made \in [Instance -> 0..MaxVersion] /\ loaded \in [Instance -> 0..MaxVersion]
  /\ mu \in [Instance -> {"free", "event", "lookup"}]
  /\ callers \in [Instance -> 0..MaxCallers]
  /\ started \in [Instance -> BOOLEAN]
  /\ ctx \in [Instance -> 0..MaxStarts]
  /\ cancelled \in [Instance -> SUBSET Starts]
  /\ rpc \in [Instance -> [Starts -> {"none", "splay", "run", "stamp", "done"}]]
  /\ rctx \in [Instance -> [Starts -> 0..MaxStarts]]
  /\ watch \in [Instance -> 0..MaxStarts]

\* However a manifest changes, the list never has two machines of a path.
OnePerPath == \A i, j \in machines : path[i] = path[j] => i = j

\* The watchers of a machine that was stopped or deleted do not run on, unless
\* Start() was called again while an earlier call was not done: the watchers
\* may then have a context that m.cancel no longer cancels.
SurvivorsWereRestarted ==
  \A i \in Instance \ machines : Live(i) => ctx[i] > 1

\* As long as no directory is removed, who holds the mutex of a machine gives
\* it back: Transition() and LookupExternalMachineState() do not block for ever.
MutexesComeFree == \A i \in Instance : mu[i] # "free" ~> (mu[i] = "free" \/ removed)

\* The machine of a path was made of one version of the manifest and has the
\* hash of another: it changed between the two reads of loadMachine().
Misread(p) == \E i \in Current(p) : made[i] # loaded[i]

\* As long as no directory is removed, what is on disk comes to run and goes on,
\* whatever edits there were and whatever reads failed before, if it can be
\* loaded at all.  But a machine that was misread is never replaced while the
\* manifest stays as it is.
DiskIsRun ==
  \A p \in Path :
    <>[](\/ removed \/ disk[p] \in Invalid \cup {0} \/ Misread(p)
         \/ \E i \in Current(p) : made[i] = disk[p] /\ Live(i))

\* "deletes machines not on disk anymore".
RemovedMachinesGo ==
  \A i \in Instance :
    i \in machines /\ disk[path[i]] = 0 ~> i \notin machines \/ disk[path[i]] # 0
=============================================================================
