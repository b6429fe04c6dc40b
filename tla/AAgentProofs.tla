---------------------------- MODULE AAgentProofs ----------------------------
(***************************************************************************)
(* Proofs about AAgent, for any number of directories, machine objects,    *)
(* versions, starts and callers.  The second part is about the plugins     *)
(* manager, whose machines the host runs.                                  *)
(***************************************************************************)
EXTENDS AAgent, Plugins, TLAPS

\* No context is there for the watchers but those Start() made.
Contexts ==
  \A i \in Instance : /\ watch[i] <= ctx[i]
                      /\ \A n \in Starts : rctx[i][n] <= ctx[i]

\* The last context of a machine was cancelled, if it has one.
Halted(i) == ctx[i] = 0 \/ ctx[i] \in cancelled[i]

\* An object that was not loaded yet is not in the list and was not started.
Fresh == \A i \in Instance : loaded[i] = 0 => i \notin machines /\ ctx[i] = 0

\* What left the list was halted, and so is what the host is about to forget;
\* only what is in the list is started.
Leaving ==
  /\ \A i \in Instance \ machines : Halted(i)
  /\ hpc = "clean" => todo \subseteq gone /\ \A i \in gone \ todo : Halted(i)
  /\ hpc = "forget" => \A i \in gone : Halted(i)
  /\ hpc = "start" => todo \subseteq machines

\* While loadMachine() is between its reads there is no machine of that path.
Reading ==
  read # 0 => hpc = "load" /\ todo # {} /\ Current(First(todo)) = {} /\ Unused # {}

Inv == TypeOK /\ OnePerPath /\ Contexts /\ Fresh /\ Leaving /\ Reading

-----------------------------------------------------------------------------
(* Types.                                                                  *)

LEMMA Bounds ==
  /\ MaxVersion \in Nat /\ MaxEdits \in Nat /\ MaxStarts \in Nat /\ MaxCallers \in Nat
  /\ MaxVersion >= 1 /\ MaxStarts >= 1 /\ MaxCallers >= 1 /\ Path # {}
BY AAgentAssumption

LEMMA HostTypes ==
  ASSUME TypeOK, Reading, Host
  PROVE  TypeOK'
<1> USE DEF world, mach, run
<1>1. CASE Tick \/ CleanUnlock \/ Forget \/ StartMachines \/ Sleep
  BY <1>1 DEF TypeOK, Tick, CleanUnlock, Forget, StartMachines, Sleep
<1>2. ASSUME NEW i \in Instance, CleanDelete(i) PROVE TypeOK'
  <2>1. cancelled' \in [Instance -> SUBSET Starts]
    <3>1. {ctx[i]} \ {0} \subseteq Starts
      BY Bounds DEF TypeOK, Starts
    <3> QED
      BY <1>2, <3>1 DEF TypeOK, CleanDelete, Halt
  <2> QED
    BY <1>2, <2>1 DEF TypeOK, CleanDelete, Halt
<1>3. ASSUME NEW i \in Instance, StartSkip(i) PROVE TypeOK'
  BY <1>3 DEF TypeOK, StartSkip
<1>4. ASSUME NEW i \in Instance, Start(i) PROVE TypeOK'
  <2>1. ctx[i] + 1 \in Starts /\ ctx[i] + 1 \in 0..MaxStarts
    BY <1>4, Bounds DEF TypeOK, Start, Starts
  <2>2. ctx' \in [Instance -> 0..MaxStarts]
    BY <1>4, <2>1 DEF TypeOK, Start
  <2>3. rpc' \in [Instance -> [Starts -> {"none", "splay", "run", "stamp", "done"}]]
    BY <1>4, <2>1 DEF TypeOK, Start
  <2> QED
    BY <1>4, <2>2, <2>3 DEF TypeOK, Start
<1>5. ASSUME NEW p \in Path, LoadSkip(p) \/ Read(p) PROVE TypeOK'
  BY <1>5 DEF TypeOK, LoadSkip, Read, AtPath
<1>6. ASSUME NEW p \in Path, LoadStop(p) PROVE TypeOK'
  <2>1. PICK i \in Current(p) : Halt(i) /\ machines' = machines \ {i}
    BY <1>6 DEF LoadStop
  <2>5. edits' \in 0..MaxEdits
    BY <1>6, Bounds DEF LoadStop, TypeOK
  <2>2. i \in Instance
    BY <2>1 DEF TypeOK, Current
  <2>3. cancelled' \in [Instance -> SUBSET Starts]
    <3>1. {ctx[i]} \ {0} \subseteq Starts
      BY <2>2, Bounds DEF TypeOK, Starts
    <3> QED
      BY <2>1, <2>2, <3>1 DEF TypeOK, Halt
  <2>4. UNCHANGED <<disk, removed, lock, hpc, todo, gone, read, run>>
    BY <1>6 DEF LoadStop
  <2> QED
    BY <2>1, <2>2, <2>3, <2>4, <2>5 DEF TypeOK, Halt
<1>7. ASSUME NEW p \in Path, Load(p) PROVE TypeOK'
  <2> DEFINE i == CHOOSE j \in Unused : TRUE
  <2>1. i \in Instance
    BY <1>7 DEF Load, Reading, Unused
  <2>2. /\ path' = [path EXCEPT ![i] = p] /\ loaded' = [loaded EXCEPT ![i] = disk[p]]
        /\ made' = [made EXCEPT ![i] = read] /\ read' = 0
        /\ machines' = machines \cup {i} /\ todo' = todo \ {p}
        /\ UNCHANGED <<world, lock, hpc, gone, mu, callers, started, ctx, cancelled, run>>
    BY <1>7 DEF Load
  <2> HIDE DEF i
  <2> QED
    BY <2>1, <2>2, Bounds DEF TypeOK
<1>8. ASSUME NEW p \in Path, LoadFails(p) PROVE TypeOK'
  <2>1. edits' \in 0..MaxEdits
    BY <1>8, Bounds DEF LoadFails, TypeOK
  <2> QED
    BY <1>8, <2>1, Bounds DEF LoadFails, TypeOK
<1> QED
  BY <1>1, <1>2, <1>3, <1>4, <1>5, <1>6, <1>7, <1>8 DEF Host

LEMMA RunTypes ==
  ASSUME TypeOK, NEW i \in Instance, NEW n \in Starts, Run(i, n)
  PROVE  TypeOK'
<1> USE DEF world, mach, run, host
<1>1. CASE RunWake(i, n)
  BY <1>1 DEF TypeOK, RunWake
<1>2. CASE RunInterrupted(i, n)
  BY <1>2 DEF TypeOK, RunInterrupted
<1>3. CASE RunManager(i, n)
  <2> DEFINE Num == 0..MaxStarts
  <2>1. 0 \in Num /\ rctx \in [Instance -> [Starts -> Num]] /\ watch \in [Instance -> Num]
    BY Bounds DEF TypeOK
  <2>a. /\ rctx' = [rctx EXCEPT ![i][n] = 0]
        /\ watch' = [watch EXCEPT ![i] = rctx[i][n]] \/ watch' = watch
    BY <1>3 DEF RunManager
  <2> HIDE DEF Num
  <2>2. rctx' \in [Instance -> [Starts -> Num]]
    BY <2>1, <2>a
  <2>3. watch' \in [Instance -> Num]
    BY <2>1, <2>a
  <2>4. rpc' \in [Instance -> [Starts -> {"none", "splay", "run", "stamp", "done"}]]
    <3>1. rpc' = [rpc EXCEPT ![i][n] = "stamp"] \/ rpc' = [rpc EXCEPT ![i][n] = "done"]
      BY <1>3 DEF RunManager
    <3> DEFINE At == {"none", "splay", "run", "stamp", "done"}
    <3>2. rpc \in [Instance -> [Starts -> At]] /\ "stamp" \in At /\ "done" \in At
      BY DEF TypeOK
    <3> HIDE DEF At
    <3>3. rpc' \in [Instance -> [Starts -> At]]
      BY <3>1, <3>2
    <3> QED
      BY <3>3 DEF At
  <2> QED
    BY <1>3, <2>2, <2>3, <2>4 DEF TypeOK, RunManager, Num
<1>4. CASE RunStamp(i, n)
  BY <1>4 DEF TypeOK, RunStamp
<1> QED
  BY <1>1, <1>2, <1>3, <1>4 DEF Run

LEMMA MachineTypes ==
  ASSUME TypeOK, NEW i \in Instance,
         \/ Call(i) \/ TransitionRefused(i) \/ TransitionBegins(i) \/ Lookup(i) \/ Proceed(i)
  PROVE  TypeOK'
<1> USE DEF world, run, host
<1>1. \A j \in Instance : OneMore(j) \in 0..MaxCallers
  BY Bounds DEF TypeOK, OneMore
<1>2. CASE Call(i)
  BY <1>1, <1>2 DEF TypeOK, Call
<1>3. CASE TransitionRefused(i) \/ TransitionBegins(i)
  <2>1. callers[i] \in 0..MaxCallers /\ callers[i] > 0
    BY <1>3 DEF TypeOK, TransitionRefused, TransitionBegins
  <2>2. callers[i] - 1 \in 0..MaxCallers
    BY <2>1, Bounds
  <2>3. callers' = [callers EXCEPT ![i] = callers[i] - 1]
    BY <1>3 DEF TransitionRefused, TransitionBegins
  <2>4. callers' \in [Instance -> 0..MaxCallers]
    BY <2>2, <2>3 DEF TypeOK
  <2>5. mu' \in [Instance -> {"free", "event", "lookup"}]
    BY <1>3 DEF TypeOK, TransitionRefused, TransitionBegins
  <2>6. UNCHANGED <<world, host, path, made, loaded, started, ctx, cancelled, run>>
    BY <1>3 DEF TransitionRefused, TransitionBegins
  <2> QED
    BY <2>4, <2>5, <2>6 DEF TypeOK
<1>4. CASE Lookup(i) \/ LookupEnds(i)
  BY <1>4 DEF TypeOK, Lookup, LookupEnds
<1>5. CASE TransitionNotifies(i)
  BY <1>1, <1>5 DEF TypeOK, TransitionNotifies
<1> QED
  BY <1>2, <1>3, <1>4, <1>5 DEF Proceed

LEMMA TypeStep ==
  ASSUME TypeOK, Reading, [Next]_vars
  PROVE  TypeOK'
<1>1. ASSUME NEW p \in Path, NEW v \in 0..MaxVersion, Edit(p, v) PROVE TypeOK'
  BY <1>1, Bounds DEF TypeOK, Edit, host, mach, run
<1>2. ASSUME NEW i \in Instance, Running(i) PROVE TypeOK'
  BY <1>2, RunTypes DEF Running
<1>3. CASE UNCHANGED vars
  BY <1>3 DEF TypeOK, vars, world, host, mach, run
<1> QED
  BY <1>1, <1>2, <1>3, HostTypes, MachineTypes DEF Next

-----------------------------------------------------------------------------
(* The list, contexts and what leaves.                                     *)

\* The object Load() takes.
LEMMA Loading ==
  ASSUME TypeOK, Fresh, Reading, NEW p \in Path, Load(p)
  PROVE  \E i \in Instance :
           /\ i \notin machines /\ ctx[i] = 0 /\ machines' = machines \cup {i}
           /\ path'[i] = p /\ \A j \in Instance : j # i => path'[j] = path[j] /\ loaded'[j] = loaded[j]
           /\ loaded'[i] # 0 /\ Current(p) = {} /\ hpc = "load"
           /\ read' = 0 /\ UNCHANGED <<hpc, gone, ctx, cancelled, rctx, watch>>
<1> DEFINE i == CHOOSE j \in Unused : TRUE
<1>1. i \in Instance /\ loaded[i] = 0
  BY DEF Load, Reading, Unused
<1>2. /\ path' = [path EXCEPT ![i] = p] /\ loaded' = [loaded EXCEPT ![i] = disk[p]]
      /\ machines' = machines \cup {i} /\ disk[p] # 0 /\ Current(p) = {} /\ hpc = "load"
      /\ read' = 0 /\ UNCHANGED <<hpc, gone, ctx, cancelled, rctx, watch>>
  BY DEF Load, Reading, run
<1> HIDE DEF i
<1>3. i \notin machines /\ ctx[i] = 0
  BY <1>1 DEF Fresh
<1>4. /\ path'[i] = p /\ loaded'[i] # 0
      /\ \A j \in Instance : j # i => path'[j] = path[j] /\ loaded'[j] = loaded[j]
  BY <1>1, <1>2 DEF TypeOK
<1> QED
  BY <1>1, <1>2, <1>3, <1>4

LEMMA ListStep ==
  ASSUME Inv, [Next]_vars
  PROVE  OnePerPath' /\ Fresh' /\ Reading'
<1> USE DEF world, host, mach, run
<1>0. TypeOK /\ OnePerPath /\ Fresh /\ Leaving /\ Reading
  BY DEF Inv
<1>1. ASSUME NEW p \in Path, Load(p) PROVE OnePerPath' /\ Fresh' /\ Reading'
  <2>1. PICK i \in Instance :
          /\ i \notin machines /\ ctx[i] = 0 /\ machines' = machines \cup {i}
          /\ path'[i] = p /\ \A j \in Instance : j # i => path'[j] = path[j] /\ loaded'[j] = loaded[j]
          /\ loaded'[i] # 0 /\ Current(p) = {} /\ hpc = "load"
          /\ read' = 0 /\ UNCHANGED <<hpc, gone, ctx, cancelled, rctx, watch>>
    BY <1>0, <1>1, Loading
  <2>2. \A j \in machines : j \in Instance /\ path[j] # p /\ j # i
    BY <1>0, <2>1 DEF TypeOK, Current
  <2>3. OnePerPath'
    BY <1>0, <2>1, <2>2 DEF OnePerPath
  <2>4. Fresh'
    BY <1>0, <2>1 DEF Fresh
  <2>5. Reading'
    BY <2>1 DEF Reading
  <2> QED
    BY <2>3, <2>4, <2>5
<1>2. ASSUME NEW i \in Instance, Start(i) PROVE OnePerPath' /\ Fresh' /\ Reading'
  <2>1. i \in machines /\ UNCHANGED <<machines, path, loaded, read>> /\ read = 0
        /\ \A j \in Instance : j # i => ctx'[j] = ctx[j]
    BY <1>0, <1>2 DEF Start, Leaving, Reading, TypeOK
  <2> QED
    BY <1>0, <2>1 DEF OnePerPath, Fresh, Reading
<1>3. CASE ~(\E p \in Path : Load(p)) /\ ~(\E i \in Instance : Start(i))
  <2>1. machines' \subseteq machines /\ UNCHANGED <<path, loaded, ctx>>
    BY <1>3 DEF Next, Host, Edit, Tick, CleanDelete, CleanUnlock, Forget, LoadSkip, LoadStop, Read,
       LoadFails, Halt, StartMachines, StartSkip, Sleep, Running, Run, RunWake, RunInterrupted,
       RunManager, RunStamp, Call, TransitionRefused, TransitionBegins, TransitionNotifies, Lookup,
       LookupEnds, Proceed, vars
  <2>2. Reading'
    <3>1. ASSUME NEW p \in Path, Read(p) PROVE Reading'
      <4>1. hpc' = "load" /\ todo' # {} /\ First(todo') = p /\ Current(p) = {} /\ Unused # {}
            /\ UNCHANGED <<machines, path, loaded>>
        BY <3>1 DEF Read, AtPath, First
      <4> QED
        BY <4>1 DEF Reading, Current, Unused
    <3>2. CASE Tick \/ CleanUnlock \/ Forget \/ StartMachines \/ Sleep
      BY <1>0, <3>2 DEF Reading, Tick, CleanUnlock, Forget, StartMachines, Sleep
    <3>3. CASE \/ \E i \in Instance : CleanDelete(i) \/ StartSkip(i)
               \/ \E p \in Path : LoadSkip(p) \/ LoadStop(p) \/ LoadFails(p)
      <4>1. read' = 0
        BY <1>0, <3>3 DEF Reading, CleanDelete, StartSkip, LoadSkip, LoadStop, LoadFails, AtPath
      <4> QED
        BY <4>1 DEF Reading
    <3>4. CASE ~Host
      <4>1. UNCHANGED <<machines, hpc, todo, read, path, loaded>>
        BY <3>4 DEF Next, Edit, Running, Run, RunWake, RunInterrupted, RunManager, RunStamp, Call,
           TransitionRefused, TransitionBegins, TransitionNotifies, Lookup, LookupEnds, Proceed, vars
      <4> QED
        BY <1>0, <4>1 DEF Reading, Current, Unused, First
    <3> QED
      BY <1>3, <3>1, <3>2, <3>3, <3>4 DEF Host
  <2> QED
    BY <1>0, <2>1, <2>2 DEF OnePerPath, Fresh
<1> QED
  BY <1>1, <1>2, <1>3

LEMMA ContextsStep ==
  ASSUME Inv, [Next]_vars
  PROVE  Contexts'
<1> USE DEF world, host, mach, run
<1>0. TypeOK /\ Contexts
  BY DEF Inv
<1>n. \A i \in Instance : /\ ctx[i] \in Nat /\ watch[i] \in Nat
                          /\ \A n \in Starts : rctx[i][n] \in Nat
  BY <1>0, Bounds DEF TypeOK
<1>1. ASSUME NEW i \in Instance, Start(i) PROVE Contexts'
  <2>1. /\ UNCHANGED <<watch, rctx>> /\ ctx'[i] = ctx[i] + 1
        /\ \A j \in Instance : j # i => ctx'[j] = ctx[j]
    BY <1>0, <1>1 DEF Start, TypeOK
  <2>2. \A j \in Instance : ctx'[j] >= ctx[j] /\ ctx'[j] \in Nat
    BY <1>n, <2>1
  <2> QED
    BY <1>0, <1>n, <2>1, <2>2 DEF Contexts
<1>2. ASSUME NEW i \in Instance, NEW n \in Starts, RunWake(i, n) PROVE Contexts'
  <2>1. /\ UNCHANGED <<watch, ctx>> /\ rctx' = [rctx EXCEPT ![i][n] = ctx[i]]
    BY <1>2 DEF RunWake
  <2>2. rctx'[i][n] = ctx[i] /\ \A j \in Instance, k \in Starts : <<j, k>> # <<i, n>> => rctx'[j][k] = rctx[j][k]
    BY <1>0, <2>1 DEF TypeOK
  <2> QED
    BY <1>0, <1>n, <2>1, <2>2 DEF Contexts
<1>3. ASSUME NEW i \in Instance, NEW n \in Starts, RunManager(i, n) PROVE Contexts'
  <2>1. /\ UNCHANGED ctx /\ rctx' = [rctx EXCEPT ![i][n] = 0]
        /\ watch' = [watch EXCEPT ![i] = rctx[i][n]] \/ watch' = watch
    BY <1>3 DEF RunManager
  <2>2. rctx'[i][n] = 0 /\ \A j \in Instance, k \in Starts : <<j, k>> # <<i, n>> => rctx'[j][k] = rctx[j][k]
    BY <1>0, <2>1 DEF TypeOK
  <2>3. watch'[i] \in {watch[i], rctx[i][n]} /\ \A j \in Instance : j # i => watch'[j] = watch[j]
    BY <1>0, <2>1 DEF TypeOK
  <2> QED
    BY <1>0, <1>n, <2>1, <2>2, <2>3 DEF Contexts
<1>4. CASE /\ ~(\E i \in Instance : Start(i))
           /\ ~(\E i \in Instance, n \in Starts : RunWake(i, n) \/ RunManager(i, n))
  <2>1. UNCHANGED <<ctx, rctx, watch>>
    BY <1>4 DEF Next, Host, Edit, Tick, CleanDelete, CleanUnlock, Forget, LoadSkip, LoadStop, Read, Load,
       LoadFails, Halt, StartMachines, StartSkip, Sleep, Running, Run, RunInterrupted, RunStamp,
       Call, TransitionRefused, TransitionBegins, TransitionNotifies, Lookup, LookupEnds, Proceed, vars
  <2> QED
    BY <1>0, <2>1 DEF Contexts
<1> QED
  BY <1>1, <1>2, <1>3, <1>4

\* Stop() and Delete() leave a machine halted, and nobody else less so.
LEMMA Halting ==
  ASSUME TypeOK, NEW i \in Instance, Halt(i)
  PROVE  UNCHANGED ctx /\ Halted(i)' /\ \A j \in Instance : Halted(j) => Halted(j)'
<1>1. /\ UNCHANGED ctx /\ cancelled' = [cancelled EXCEPT ![i] = @ \cup ({ctx[i]} \ {0})]
  BY DEF Halt
<1>2. ctx[i] = 0 \/ ctx[i] \in cancelled'[i]
  BY <1>1 DEF TypeOK
<1>3. \A j \in Instance : cancelled[j] \subseteq cancelled'[j]
  BY <1>1 DEF TypeOK
<1> QED
  BY <1>1, <1>2, <1>3 DEF Halted

LEMMA LeavingStep ==
  ASSUME Inv, [Next]_vars
  PROVE  Leaving'
<1> USE DEF world, host, mach, run
<1>0. TypeOK /\ Leaving /\ Fresh
  BY DEF Inv
<1>i. machines \subseteq Instance /\ gone \subseteq Instance
  BY <1>0 DEF TypeOK
<1>1. CASE Tick \/ CleanUnlock \/ Forget \/ StartMachines \/ Sleep
  <2>1. UNCHANGED <<ctx, cancelled>>
    BY <1>1 DEF Tick, CleanUnlock, Forget, StartMachines, Sleep
  <2>2. \A j : Halted(j)' <=> Halted(j)
    BY <2>1 DEF Halted
  <2> QED
    BY <1>0, <1>1, <1>i, <2>2 DEF Tick, CleanUnlock, Forget, StartMachines, Sleep, Leaving
<1>2. ASSUME NEW i \in Instance, CleanDelete(i) PROVE Leaving'
  <2>1. Halted(i)' /\ \A j \in Instance : Halted(j) => Halted(j)'
    BY <1>0, <1>2, Halting DEF CleanDelete
  <2>2. UNCHANGED <<machines, hpc, gone>> /\ hpc = "clean" /\ todo' = todo \ {i}
    BY <1>2 DEF CleanDelete
  <2> QED
    BY <1>0, <1>i, <2>1, <2>2 DEF Leaving
<1>3. ASSUME NEW p \in Path, LoadStop(p) PROVE Leaving'
  <2>1. PICK i \in machines : Halt(i) /\ machines' = machines \ {i}
    BY <1>3 DEF LoadStop, Current
  <2>2. Halted(i)' /\ \A j \in Instance : Halted(j) => Halted(j)'
    BY <1>0, <1>i, <2>1, Halting
  <2>3. UNCHANGED hpc /\ hpc = "load"
    BY <1>3 DEF LoadStop, AtPath
  <2> QED
    BY <1>0, <2>1, <2>2, <2>3 DEF Leaving
<1>4. ASSUME NEW p \in Path, Load(p) PROVE Leaving'
  <2>1. machines \subseteq machines' /\ hpc = "load" /\ UNCHANGED <<hpc, ctx, cancelled>>
    BY <1>4 DEF Load
  <2> QED
    BY <1>0, <2>1 DEF Leaving, Halted
<1>5. ASSUME NEW i \in Instance, Start(i) PROVE Leaving'
  <2>1. /\ i \in todo /\ hpc = "start" /\ UNCHANGED <<machines, hpc, cancelled>> /\ todo' = todo \ {i}
        /\ \A j \in Instance : j # i => ctx'[j] = ctx[j]
    BY <1>0, <1>5 DEF Start, TypeOK
  <2>2. i \in machines
    BY <1>0, <2>1 DEF Leaving
  <2> QED
    BY <1>0, <2>1, <2>2 DEF Leaving, Halted
<1>6. CASE \/ \E i \in Instance : StartSkip(i)
           \/ \E p \in Path : LoadSkip(p) \/ Read(p) \/ LoadFails(p)
  <2>1. UNCHANGED <<machines, hpc, gone, ctx, cancelled>> /\ hpc \in {"start", "load"} /\ todo' \subseteq todo
    BY <1>6 DEF StartSkip, LoadSkip, Read, LoadFails, AtPath
  <2> QED
    BY <1>0, <2>1 DEF Leaving, Halted
<1>7. CASE \/ \E p \in Path, v \in 0..MaxVersion : Edit(p, v)
           \/ \E i \in Instance : \/ Running(i)
                                  \/ Call(i) \/ TransitionRefused(i) \/ TransitionBegins(i)
                                  \/ Lookup(i) \/ Proceed(i)
           \/ UNCHANGED vars
  <2>1. UNCHANGED <<machines, hpc, todo, gone, ctx, cancelled>>
    BY <1>7 DEF Edit, Running, Run, RunWake, RunInterrupted, RunManager, RunStamp,
       Call, TransitionRefused, TransitionBegins, TransitionNotifies, Lookup, LookupEnds, Proceed, vars
  <2> QED
    BY <1>0, <2>1 DEF Leaving, Halted
<1> QED
  BY <1>1, <1>2, <1>3, <1>4, <1>5, <1>6, <1>7 DEF Next, Host

-----------------------------------------------------------------------------
(* The theorems.                                                           *)

LEMMA InvInit == Init => Inv
<1> SUFFICES ASSUME Init PROVE Inv
  OBVIOUS
<1> USE DEF Init
<1>1. TypeOK
  <2>1. (CHOOSE p \in Path : TRUE) \in Path
    BY Bounds
  <2>2. disk \in [Path -> 0..MaxVersion] /\ path \in [Instance -> Path]
    <3>1. {0, 1} \subseteq 0..MaxVersion
      BY Bounds
    <3> QED
      BY <2>1, <3>1
  <2>3. /\ edits \in 0..MaxEdits /\ loaded \in [Instance -> 0..MaxVersion]
        /\ read \in 0..MaxVersion /\ made \in [Instance -> 0..MaxVersion]
        /\ callers \in [Instance -> 0..MaxCallers] /\ ctx \in [Instance -> 0..MaxStarts]
        /\ rctx \in [Instance -> [Starts -> 0..MaxStarts]] /\ watch \in [Instance -> 0..MaxStarts]
    BY Bounds
  <2>4. /\ removed \in BOOLEAN /\ lock \in {"free", "clean"} /\ machines \subseteq Instance
        /\ gone \subseteq Instance /\ hpc = "load" /\ todo \subseteq Path
        /\ mu \in [Instance -> {"free", "event", "lookup"}] /\ started \in [Instance -> BOOLEAN]
        /\ cancelled \in [Instance -> SUBSET Starts]
        /\ rpc \in [Instance -> [Starts -> {"none", "splay", "run", "stamp", "done"}]]
    OBVIOUS
  <2> HIDE DEF Init
  <2> QED
    BY <2>2, <2>3, <2>4 DEF TypeOK
<1>2. OnePerPath /\ Contexts /\ Fresh /\ Leaving /\ Reading
  BY DEF OnePerPath, Contexts, Fresh, Leaving, Halted, Reading
<1> QED
  BY <1>1, <1>2 DEF Inv

LEMMA Invariance == Spec => []Inv
<1>1. Inv /\ [Next]_vars => Inv'
  BY TypeStep, ListStep, ContextsStep, LeavingStep DEF Inv
<1> QED
  BY <1>1, InvInit, PTL DEF Spec

\* Every variable of the host and its machines keeps its type.
THEOREM TypeCorrect == Spec => []TypeOK
<1>1. Inv => TypeOK
  BY DEF Inv
<1> QED
  BY <1>1, Invariance, PTL

\* However manifests change, come and go, no two machines in the list are of
\* the same directory.
THEOREM NoTwoPerPath == Spec => []OnePerPath
<1>1. Inv => OnePerPath
  BY DEF Inv
<1> QED
  BY <1>1, Invariance, PTL

\* Watchers run on after their machine left the list only when it was started
\* more than once.
THEOREM OnlyRestartedSurvive == Spec => []SurvivorsWereRestarted
<1>1. Inv => SurvivorsWereRestarted
  <2> SUFFICES ASSUME Inv, NEW i \in Instance \ machines, Live(i) PROVE ctx[i] > 1
    BY DEF SurvivorsWereRestarted
  <2>1. /\ ctx[i] \in Nat /\ watch[i] \in Nat /\ watch[i] <= ctx[i] /\ watch[i] # 0
        /\ watch[i] \notin cancelled[i]
    BY Bounds DEF Inv, TypeOK, Contexts, Live
  <2>2. ctx[i] = 0 \/ ctx[i] \in cancelled[i]
    BY DEF Inv, Leaving, Halted
  <2>3. watch[i] # ctx[i]
    BY <2>1, <2>2
  <2> QED
    BY <2>1, <2>3
<1> QED
  BY <1>1, Invariance, PTL

-----------------------------------------------------------------------------
(***************************************************************************)
(* The plugins manager.  Plugins has its own picture of the host and       *)
(* shares nothing with AAgent.                                             *)
(***************************************************************************)

\* What the parts of the type correctness of Plugins are about: the data item
\* and the file system ...
StoreType ==
  /\ item \in {"good", "bad", "none"} /\ data \in Declared
  /\ updates \in 0..MaxUpdates /\ faults \in 0..MaxFaults
  /\ manager \in [Plugin -> 0..Newest] /\ plugin \in [Plugin -> 0..Damaged]

\* ... the plugins watcher ...
WatcherType ==
  /\ purges \in BOOLEAN /\ wpc \in {"idle", "refuse", "purge", "sleep", "deploy"}
  /\ desired \in Declared /\ pending \subseteq Plugin /\ at \in Plugin
  /\ wpc \in {"idle", "refuse"} => pending = {}
  /\ forgotten \subseteq Plugin

\* ... the managing machines.
ManagerType ==
  /\ stuck \in BOOLEAN /\ running \in [Plugin -> 0..Newest] /\ hash \in [Plugin -> 0..Newest]
  /\ job \in [Plugin -> [Version -> {"idle", "download", "extracted", "removed"}]]

LEMMA PlugTypes == PluginsTypeOK <=> StoreType /\ WatcherType /\ ManagerType
BY DEF PluginsTypeOK, StoreType, WatcherType, ManagerType

LEMMA PlugInit ==
  ASSUME PluginsInit
  PROVE  StoreType /\ WatcherType /\ ManagerType
<1> USE PluginsAssumption DEF PluginsInit, Declared, Damaged
<1>1. StoreType
  BY DEF StoreType
<1>2. WatcherType
  <2>1. (CHOOSE p \in Plugin : TRUE) \in Plugin
    OBVIOUS
  <2> QED BY <2>1 DEF WatcherType
<1>3. ManagerType
  <2>1. stuck \in BOOLEAN
    OBVIOUS
  <2>2. running \in [Plugin -> 0..Newest] /\ hash \in [Plugin -> 0..Newest]
    OBVIOUS
  <2>3. job \in [Plugin -> [Version -> {"idle", "download", "extracted", "removed"}]]
    OBVIOUS
  <2> QED BY <2>1, <2>2, <2>3 DEF ManagerType
<1> QED BY <1>1, <1>2, <1>3

\* The state of one watch of an archive watcher moves on.
LEMMA JobTypes ==
  ASSUME ManagerType, NEW p \in Plugin, NEW v \in Version,
         NEW to \in {"idle", "download", "extracted", "removed"},
         job' = [job EXCEPT ![p][v] = to], UNCHANGED <<stuck, running, hash>>
  PROVE  ManagerType'
BY DEF ManagerType

\* The plugins watcher, and what feeds it, do not touch the managing machines.
LEMMA WatcherTypes ==
  ASSUME StoreType, WatcherType, ManagerType, Watcher
  PROVE  StoreType' /\ WatcherType' /\ ManagerType'
<1> USE DEF given, dirs, watching, hosted
<1>1. CASE Refuse \/ Discard \/ WatchFails \/ Watch
  <2>1. UNCHANGED <<stuck, running, hash, job, manager, plugin, updates, faults, data>>
    BY <1>1 DEF Refuse, Discard, WatchFails, Watch, pluginsVars
  <2>2. StoreType' /\ ManagerType'
    BY <1>1, <2>1 DEF Refuse, Discard, WatchFails, Watch, pluginsVars, StoreType, ManagerType
  <2>3. WatcherType'
    BY <1>1 DEF Refuse, Discard, WatchFails, Watch, pluginsVars, StoreType, WatcherType
  <2> QED BY <2>2, <2>3
<1>2. CASE PurgePlugin
  <2>1. StoreType' /\ ManagerType'
    BY <1>2, PluginsAssumption DEF PurgePlugin, StoreType, ManagerType, WatcherType, Damaged
  <2>2. WatcherType'
    BY <1>2 DEF PurgePlugin, WatcherType
  <2> QED BY <2>1, <2>2
<1>3. CASE PurgeDone \/ DeployDone
  BY <1>3 DEF PurgeDone, DeployDone, StoreType, WatcherType, ManagerType
<1>4. ASSUME NEW p \in Plugin, PurgeManager(p) \/ DeployRemove(p)
      PROVE  StoreType' /\ WatcherType' /\ ManagerType'
  <2>1. StoreType' /\ ManagerType'
    BY <1>4, PluginsAssumption DEF PurgeManager, DeployRemove, StoreType, ManagerType
  <2>2. WatcherType'
    BY <1>4 DEF PurgeManager, DeployRemove, WatcherType
  <2> QED BY <2>1, <2>2
<1>5. ASSUME NEW p \in Plugin, DeploySkip(p) \/ DeployWrite(p)
      PROVE  StoreType' /\ WatcherType' /\ ManagerType'
  BY <1>5 DEF DeploySkip, DeployWrite, StoreType, WatcherType, ManagerType, Declared
<1> QED BY <1>1, <1>2, <1>3, <1>4, <1>5 DEF Watcher

LEMMA ArchiveTypes ==
  ASSUME StoreType, WatcherType, ManagerType, NEW p \in Plugin, NEW v \in Version,
         Archive(p, v)
  PROVE  StoreType' /\ WatcherType' /\ ManagerType'
<1> USE DEF given, dirs, watching
<1>1. CASE Verify(p, v) \/ Download(p, v)
  <2>1. UNCHANGED <<item, data, updates, faults, manager, plugin, watching, forgotten, stuck, running, hash>>
    BY <1>1 DEF Verify, Download
  <2>2. ManagerType'
    BY <1>1, JobTypes DEF Verify, Download
  <2> QED BY <2>1, <2>2 DEF StoreType, WatcherType
<1>2. CASE DownloadFails(p, v)
  <2>1. /\ UNCHANGED <<item, data, updates, manager, plugin, watching, forgotten, stuck, running, hash>>
        /\ faults' \in 0..MaxFaults
    BY <1>2, PluginsAssumption DEF DownloadFails, StoreType
  <2>2. ManagerType'
    BY <1>2, JobTypes DEF DownloadFails
  <2> QED BY <2>1, <2>2 DEF StoreType, WatcherType
<1>3. CASE RemoveCurrent(p, v) \/ Rename(p, v)
  <2>1. /\ UNCHANGED <<item, data, updates, faults, manager, watching, stuck, running, hash>>
        /\ forgotten' \in {forgotten, forgotten \cup {p}}
    BY <1>3 DEF RemoveCurrent, Rename
  <2>2. ManagerType'
    BY <1>3, JobTypes DEF RemoveCurrent, Rename
  <2>3. v \in 0..Damaged /\ 0 \in 0..Damaged
    BY PluginsAssumption DEF Version, Damaged
  <2>4. plugin' \in [Plugin -> 0..Damaged]
    BY <1>3, <2>3 DEF RemoveCurrent, Rename, StoreType
  <2> QED BY <2>1, <2>2, <2>4 DEF StoreType, WatcherType
<1> QED BY <1>1, <1>2, <1>3 DEF Archive

LEMMA PlugStep ==
  ASSUME StoreType, WatcherType, ManagerType, [PluginsNext]_pluginsVars
  PROVE  StoreType' /\ WatcherType' /\ ManagerType'
<1> USE DEF given, dirs, watching, hosted
<1>1. ASSUME NEW i \in {"good", "bad", "none"}, NEW d \in Declared, DataPut(i, d)
      PROVE  StoreType' /\ WatcherType' /\ ManagerType'
  BY <1>1, PluginsAssumption DEF DataPut, StoreType, WatcherType, ManagerType
<1>o. Orphans \subseteq Plugin
  BY DEF Orphans
<1>2. CASE Crash
  <2>1. StoreType'
    BY <1>2, PluginsAssumption DEF Crash, StoreType
  <2>3. ManagerType'
    <3>1. stuck' \in BOOLEAN /\ job' = [p \in Plugin |-> [v \in Version |-> "idle"]]
      BY <1>2 DEF Crash
    <3>2. running' \in [Plugin -> 0..Newest] /\ hash' \in [Plugin -> 0..Newest]
      BY <1>2, PluginsAssumption DEF Crash
    <3> QED BY <3>1, <3>2 DEF ManagerType
  <2>2. WatcherType'
    BY <1>2, <1>o DEF Crash, CutShort, WatcherType
  <2> QED BY <2>1, <2>2, <2>3
<1>3. CASE Watcher
  BY <1>3, WatcherTypes
<1>8. CASE PurgeFails \/ \E p \in Plugin : DeployFails(p)
  <2>1. StoreType' /\ ManagerType'
    BY <1>8, PluginsAssumption DEF PurgeFails, DeployFails, StoreType, ManagerType
  <2>2. WatcherType'
    <3>1. CASE PurgeFails
      BY <1>o, <3>1 DEF PurgeFails, CutShort, WatcherType
    <3>2. ASSUME NEW p \in Plugin, DeployFails(p) PROVE WatcherType'
      BY <1>o, <3>2 DEF DeployFails, CutShort, WatcherType
    <3> QED BY <1>8, <3>1, <3>2
  <2> QED BY <2>1, <2>2
<1>4. ASSUME NEW p \in Plugin, Damage(p)
      PROVE  StoreType' /\ WatcherType' /\ ManagerType'
  BY <1>4, PluginsAssumption DEF Damage, StoreType, WatcherType, ManagerType, Damaged
<1>5. ASSUME NEW p \in Plugin, HostRound(p)
      PROVE  StoreType' /\ WatcherType' /\ ManagerType'
  <2>1. StoreType' /\ WatcherType'
    BY <1>5 DEF HostRound, HostClean, HostStop, HostRead, HostStart, StoreType, WatcherType
  <2>2. ManagerType'
    <3> DEFINE Any == 0..Newest
    <3>1. /\ 0 \in Any /\ manager[p] \in Any /\ running \in [Plugin -> Any] /\ hash \in [Plugin -> Any]
      BY PluginsAssumption DEF StoreType, ManagerType
    <3> HIDE DEF Any
    <3>2. running' \in [Plugin -> Any] /\ hash' \in [Plugin -> Any] /\ UNCHANGED job
      BY <1>5, <3>1 DEF HostRound, HostClean, HostStop, HostRead, HostStart
    <3>3. stuck' \in BOOLEAN
      BY <1>5 DEF HostRound, HostClean, HostStop, HostRead, HostStart, ManagerType
    <3> QED BY <3>2, <3>3 DEF Any, ManagerType
  <2> QED BY <2>1, <2>2
<1>6. ASSUME NEW p \in Plugin, NEW v \in Version, Archive(p, v)
      PROVE  StoreType' /\ WatcherType' /\ ManagerType'
  BY <1>6, ArchiveTypes
<1>7. CASE UNCHANGED pluginsVars
  BY <1>7 DEF pluginsVars, StoreType, WatcherType, ManagerType
<1> QED BY <1>1, <1>2, <1>3, <1>4, <1>5, <1>6, <1>7, <1>8 DEF PluginsNext

\* For any plugins, versions and faults the plugins watcher, the host and the
\* archive watchers keep the values PluginsTypeOK allows; among them that a
\* watcher that is idle has nothing left to do.
THEOREM PluginsTypeCorrect == PluginsSpec => []PluginsTypeOK
<1>1. PluginsInit => StoreType /\ WatcherType /\ ManagerType
  BY PlugInit
<1>2. StoreType /\ WatcherType /\ ManagerType /\ [PluginsNext]_pluginsVars
        => StoreType' /\ WatcherType' /\ ManagerType'
  BY PlugStep
<1>3. StoreType /\ WatcherType /\ ManagerType => PluginsTypeOK
  BY PlugTypes
<1> QED BY <1>1, <1>2, <1>3, PTL DEF PluginsSpec

\* Only what is desired is deployed.
Wanted == wpc = "deploy" => \A p \in pending : desired[p] # 0

\* A plugin is without its manager only while the plugins watcher is about to
\* remove it or to write another manager, or when the watchers lost track of
\* it, however purges, deployments, failures, crashes and archive watchers of
\* old and new managers overlap.
THEOREM NothingElseIsLeft == PluginsSpec => []ManagedOrForgotten
<1> DEFINE Kept == PluginsTypeOK /\ Wanted /\ ManagedOrForgotten
<1>1. PluginsInit => Wanted /\ ManagedOrForgotten
  BY DEF PluginsInit, Wanted, ManagedOrForgotten, Orphans
<1>2. Kept /\ [PluginsNext]_pluginsVars => Wanted' /\ ManagedOrForgotten'
  <2> SUFFICES ASSUME Kept, [PluginsNext]_pluginsVars PROVE Wanted' /\ ManagedOrForgotten'
    OBVIOUS
  <2> USE DEF given, dirs, watching, hosted
  <2>0. /\ plugin \in [Plugin -> 0..Damaged] /\ manager \in [Plugin -> 0..Newest] /\ at \in Plugin
        /\ pending \subseteq Plugin
    BY DEF PluginsTypeOK
  <2>i. \A p \in Plugin : manager[p] = 0 /\ plugin[p] # 0 => p \in forgotten \/ UnderWay(p)
    BY DEF ManagedOrForgotten, Orphans
  <2>w. Wanted
    OBVIOUS
  <2>g. ASSUME \A p \in Plugin : manager'[p] = 0 /\ plugin'[p] # 0 => p \in forgotten' \/ UnderWay(p)'
        PROVE  ManagedOrForgotten'
    BY <2>g DEF ManagedOrForgotten, Orphans
  <2> HIDE DEF Kept
  <2>1. CASE \/ \E i \in {"good", "bad", "none"}, d \in Declared : DataPut(i, d)
             \/ \E p \in Plugin : HostRound(p)
             \/ UNCHANGED pluginsVars
    <3>1. UNCHANGED <<manager, plugin, wpc, desired, pending, at, forgotten>>
      BY <2>1 DEF DataPut, HostRound, HostClean, HostStop, HostRead, HostStart, pluginsVars
    <3> QED BY <2>i, <2>w, <2>g, <3>1 DEF UnderWay, Wanted
  <2>2. CASE Crash
    BY <2>0, <2>g, <2>2 DEF Crash, CutShort, Orphans, Wanted
  <2>3. CASE PurgeFails
    <3>1. CASE wpc = "sleep" /\ CutShort
      BY <2>0, <2>3, <2>g, <3>1 DEF PurgeFails, CutShort, Orphans, Wanted
    <3>2. CASE ~(wpc = "sleep" /\ CutShort)
      BY <2>0, <2>3, <2>i, <2>g, <3>2 DEF PurgeFails, Orphans, Wanted, UnderWay
    <3> QED BY <3>1, <3>2
  <2>4. ASSUME NEW p \in Plugin, DeployFails(p) PROVE Wanted' /\ ManagedOrForgotten'
    <3>1. CASE CutShort
      BY <2>0, <2>4, <2>g, <3>1 DEF DeployFails, CutShort, Orphans, Wanted
    <3>2. CASE ~CutShort
      BY <2>0, <2>4, <2>i, <2>w, <2>g, <3>2 DEF DeployFails, Orphans, Wanted, UnderWay
    <3> QED BY <3>1, <3>2
  <2>5. CASE Refuse \/ Discard \/ WatchFails \/ Watch \/ PurgePlugin \/ PurgeDone \/ DeployDone
    <3>1. CASE Refuse \/ Discard \/ WatchFails \/ Watch \/ DeployDone
      <4>1. UNCHANGED <<manager, plugin, forgotten>> /\ Wanted' /\ \A p \in Plugin : UnderWay(p) => UnderWay(p)'
        BY <2>w, <3>1 DEF Refuse, Discard, WatchFails, Watch, DeployDone, pluginsVars, Wanted, UnderWay
      <4> QED BY <2>i, <2>g, <4>1
    <3>2. CASE PurgePlugin
      BY <2>0, <2>i, <2>g, <3>2 DEF PurgePlugin, Wanted, UnderWay
    <3>3. CASE PurgeDone
      BY <2>0, <2>i, <2>g, <3>3 DEF PurgeDone, Wanted, UnderWay
    <3> QED BY <2>5, <3>1, <3>2, <3>3
  <2>6. ASSUME NEW p \in Plugin,
               PurgeManager(p) \/ DeploySkip(p) \/ DeployRemove(p) \/ DeployWrite(p)
        PROVE  Wanted' /\ ManagedOrForgotten'
    <3>1. CASE PurgeManager(p)
      BY <2>0, <2>i, <2>g, <3>1 DEF PurgeManager, Wanted, UnderWay
    <3>2. CASE DeploySkip(p)
      BY <2>0, <2>i, <2>w, <2>g, <3>2 DEF DeploySkip, Wanted, UnderWay
    <3>3. CASE DeployRemove(p)
      BY <2>0, <2>i, <2>w, <2>g, <3>3 DEF DeployRemove, Wanted, UnderWay
    <3>4. CASE DeployWrite(p)
      BY <2>0, <2>i, <2>w, <2>g, <3>4 DEF DeployWrite, Wanted, UnderWay
    <3> QED BY <2>6, <3>1, <3>2, <3>3, <3>4
  <2>7. ASSUME NEW p \in Plugin, Damage(p) PROVE Wanted' /\ ManagedOrForgotten'
    BY <2>0, <2>i, <2>w, <2>g, <2>7 DEF Damage, Wanted, UnderWay
  <2>8. ASSUME NEW p \in Plugin, NEW v \in Version, Archive(p, v)
        PROVE  Wanted' /\ ManagedOrForgotten'
    <3>1. UNCHANGED <<manager, wpc, desired, pending, at>>
      BY <2>8 DEF Archive, Verify, Download, DownloadFails, RemoveCurrent, Rename
    <3>2. Wanted' /\ \A q \in Plugin : UnderWay(q)' <=> UnderWay(q)
      BY <2>w, <3>1 DEF Wanted, UnderWay
    <3>3. CASE Verify(p, v) \/ Download(p, v) \/ DownloadFails(p, v)
      BY <2>i, <2>g, <3>1, <3>2, <3>3 DEF Verify, Download, DownloadFails
    <3>4. CASE RemoveCurrent(p, v)
      BY <2>0, <2>i, <2>g, <3>1, <3>2, <3>4 DEF RemoveCurrent
    <3>5. CASE Rename(p, v)
      BY <2>0, <2>i, <2>g, <3>1, <3>2, <3>5 DEF Rename
    <3> QED BY <2>8, <3>2, <3>3, <3>4, <3>5 DEF Archive
  <2> QED BY <2>1, <2>2, <2>3, <2>4, <2>5, <2>6, <2>7, <2>8 DEF PluginsNext, Watcher
<1> QED BY <1>1, <1>2, PluginsTypeCorrect, PTL DEF PluginsSpec

=============================================================================
