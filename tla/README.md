# TLA+ models of go-choria

Choria is an orchestration system: a server on every node, a broker that
embeds NATS, and clients that send requests to many nodes at once. Around this
core the repository has services that work without a central coordinator and
lean on NATS JetStream or on the local disk: leader election, a governor that
limits concurrency, a spool for outgoing messages, and autonomous agents, which
are finite state machines hosted by the server. These services are where
timeouts, lost answers, crashes and concurrent goroutines meet. This project
started with them and then took up the server's request processing, the client
that asks many nodes, the supervisor of long running commands, external agents,
the managers of plugins and the tally of running servers.

The modules are translated from the Go code, and `PROJECT.json` gives the lines
of each definition. Where a comment or a document disagrees with the code the
model follows the code; "Disagreements" below lists these places.

## Inventory

| Component | State | Operations | What is hard | What makes it correct |
|---|---|---|---|---|
| Leader election (`providers/election/streams`) | a key with a TTL in a bucket; per member: state, last revision, backoff, mutex, ticker | `Start`, `Stop`, campaign as candidate (Create) or leader (Update), evict | answers lost or late, expiry racing renewal, crashes, the mutex around callbacks | one leader at a time; leaders without the bucket stand down; somebody leads again after failures |
| Submission spool (`submission`) | a directory of files with tries and next try; the worker's batch and skip list | `Submit` by any process, poll, publish, retry, discard | crash between publish and file change, failing file operations, order, several submitters | nothing accepted is lost; attempts, order and size are bounded; files leave |
| Governor (`providers/governor/streams`) | entries of a limited stream; per worker a running flag and a sequence number | `Start`, finisher, `Reset`, `Evict`, `SetLimit`, signal handler | entries without an owner, late requests, eviction during work | never more workers than the limit; own entries only; leaked entries come free |
| Autonomous agent hosting (`aagent`, `aagent/machine`) | list of machines, a mutex for it and one for each machine; contexts, start goroutines, watchers | directory poll, load, reload, delete, start, transition, subscription, lookup | two kinds of mutex, contexts replaced during a start, reload during transitions | what is on disk runs, once; what is stopped does not run on; nobody blocks for ever |
| Plugin managers (`aagent/watchers/pluginswatcher`, `archivewatcher`, the polls of `kvwatcher`) | a specification in a key-value store; directories of managing machines and of plugins; an archive watcher for each manager | watch, purge, deploy, download, extract, verify | three loops that meet only in the file system; crashes between two directory changes; a manager still at work when it is removed | what is declared is deployed and stays; a plugin has its manager; what is not declared goes |
| Server (`server`, `server/agents`, the subscriptions of `choria/connection.go`) | channels of requests and replies, a goroutine for each request, for its agent and for its reply, one wait group | deliver, decode and filter, dispatch, answer, time out, reply, shut down | late results, full channels, shutdown with requests in flight | one reply at most for each request; the wait group counts exactly; a shutdown ends |
| External agents (`providers/agent/mcorpc/external`, `server/agents`) | DDL files; the provider's list; the manager's table and subscriptions | walk, register, upgrade, remove | files that change during a round, failing subscriptions, agents that do not activate, two lists of the same thing | the table is what is on disk; registered means subscribed |
| Execution supervisor (`providers/execution`, `cmd/exec-supervisor.go`) | a command, its pipes, readers, a channel of lines, a buffer, heartbeats, files of the job | start, copy output, heartbeat, record exit, report status | readers share a channel, failed submissions, long lines, killed supervisors | output in place, exit last, status only advances, everything ends |
| RPC client (`client/client`, `providers/agent/mcorpc/client`) | batches of targets, one reply subject, receivers, handlers, statistics | publish a batch, receive, time out, close | late replies in the next batch, subscriptions with the same name, interrupts | everybody asked once while somebody listens; statistics that tell what happened; it returns |
| Lifecycle events and tally (`server/lifecycle.go`, `lifecycle/tally`) | who was heard of and when; gauges by version and label | start, alive, shutdown events; expiry; election callbacks | lost and overtaken events, labels that change between two gauges | gauges count what was observed; what was observed is what runs |
| Watchers (`aagent/watchers/*`) | per watcher: last result, a channel of state changes | poll, notify, transition | dropped notifications, watcher state against machine state | a watcher acts on the state its machine has |
| Federation broker (`broker/federation`) | two chains of worker pools over bounded channels | ingest, transform, egest | full channels, shutdown | every target gets the message; the chain stops |
| Stream adapters (`broker/adapter`) | one bounded queue | ingest, publish | full queue | drops are counted, nothing blocks |

The network broker, protocol encodings, security providers, discovery,
registration, provisioning, RPC agents, configuration, command line and
generated clients are listed in `PROJECT.json` with the reason why they are left
out: they are pure functions, cryptography, file contents or libraries.

How the parts meet: the server runs the worker of the spool, the host of the
autonomous agents, the reconciliation of external agents and the request
processor, each in a goroutine under one context. Exec and other watchers of
autonomous agents enter a governor before they act, and `choria governor run`
does the same for a command. Tally campaigns in an election, and
`choria election` runs one for a command. `choria submit` and the execution
supervisor are separate processes that share only the directory with the spool's
worker. Where two parts share state one module has both: `Server` has the
subscription, the processor, the dispatchers and the instance; `Plugins` has
watcher, host and archive watchers around one file system; `ExternalAgents` has
the provider, the manager and the connection; `Tally` has servers, network,
recorder and the callbacks of its election; `Client` has both client layers and
the connection. `Semaphore` is an abstract specification of which `Governor` and
`Election` are detailed ones.

## Modules

`Election.tla` has one action for each step of a member's goroutine (the call of
`Start`, the splay, the tick, sending, the answer, the callbacks) and for each
operation of the bucket that the code relies on (Create needs an absent key,
Update needs the last revision, MaxAge expires). Time is discrete; the age of
the key, tickers and leases are clocks that `Tick` advances together. Revisions
are "current" or "stale", because all the code does with one is have the
bucket compare it. A request that was given up on can still reach the bucket
(`orphan`). The only timing assumption is `MaxDelay`: a campaign ends that long
after its tick, and this is less than a campaign interval.

`Spool.tla` is the spool of one priority; the priorities share nothing. A file
is a message with its tries; `name` is the place of its file name in the order
the directory is read in. A submitter counts the entries (`SubmitCount`, or
`SubmitMiscount` when it cannot and takes the spool for empty), makes up the name
(`SubmitName`) and renames (`SubmitRename`), so several of them can rename in
another order than that of their names; `Submitters` is how many may be at it at
a time. In `PollDir` a poll may fail to look at a file, to read it, which discards
it, or to remove it. The worker's handler has an action for each outcome: invalid
(the TTL of a message is looked at only there), unreliable, skipped, published,
failed, discarded, and rewritten in two steps with a failure or a crash in
between. `MaxFaults` bounds crashes and failing file operations together.

`Governor.tla` models the stream, `Start()` with its retries, the finisher, the
operator's actions and the signal handler of `choria governor run`. Sequence
numbers come from a finite set and a number is fresh when nobody knows it.
Requests that timed out may arrive later, once. `taken`, `lost` and `high` are
history. `Semaphore.tla` says what a governor promises: a counting semaphore
whose places an operator may add to and whose holders may lose their place. An
election is a semaphore with one place, held by the member that reports
`IsLeader()`.

`AAgent.tla` models the host goroutine of `watchSource()` step by step between
the points where it takes or gives up a mutex, the goroutine of each
`Machine.Start()`, and callers of `Transition()`. A mutex that is taken and
given back without asking for another is no state of its own. The state graph
of a machine and the watchers' work are abstracted to "a goroutine asks for a
transition". The manifest is read twice as in the code, once to make the machine
(`Read`) and once for its hash (`Load`), and can change or go in between; a
manifest in `Invalid`, or one that cannot be read, is not loaded.

`Server.tla` follows a request: the NATS client delivers it to the channel of a
subscription or drops it there (`Deliver`), the copier of `QueueSubscribe()`
moves it on (`CopierTake`, `CopierPut`), the processor starts a dispatcher
(`TakeRequest`), the dispatcher looks for the agent, starts it and waits for its
answer, its timeout or the end of processing (`DispatchGet`, `DispatchResult`,
`DispatchGivesUp`) and puts one reply in a channel (`DispatchSend`) from which
the processor starts the goroutine that publishes (`TakeReply`, `HandleReply`),
which may fail to make or to publish the reply.
`PrepareForShutdown`, `Shutdown`, `ProcessorStop`, `ProcessorEnd` and `End` are
the shutdown. The wait group also counts goroutines under the context of the
server and others under that of its parent (`others`), which `Shutdown()` does not
cancel; `Signalled` is the end of the parent's context. Encodings, signatures and filters are the one bit `valid`.

`ExternalAgents.tla` is one round of `reconcileAgents()` after the other. A round
ends a step where it looks at a file or gives up the mutex of the manager, and
files change in between; the walk reads one file at a time (`Scan`). The manager
refuses a DDL in `Invalid`. Subscribing and unsubscribing stop at the first error:
the connection counts its subscriptions of an agent in a collective (`conn`),
because those that are left behind add up. The provider's list, the table of the manager and
the subscriptions are three variables because the code keeps them in three places
and the questions are about their differences. The orphans are cut from the list
one index at a time, each from what the ones before left, as the code does. A
panic of the process is the value "crashed" of `pc`, from which it restarts.

`Supervisor.tla` has `StartSupervised()` with an action for each file and
submission, the pipes, a reader for each stream, the collector that shares their
channel, and the heartbeats. A line is a record of its stream, its number,
whether it is longer than the scanner takes and whether its bytes were
overwritten while it waited in the channel, which is a choice because the reader
hands over a buffer it goes on using. What was submitted is one sequence of
lines, each with the subject it went to; the properties tell the place of a line
by counting the lines of its stream before it. The files of the pid and of the
exit are created and then written. The status action looks at a job in four steps
(`AskRunning`, `AskStarted`, `AskPid`, `AskCode`) while all this goes on, and
`told` is its last answer. That the system may give the pid of a command to
another process is left out.

`Client.tla` is a batched request: the loop over the groups made by `InGroups`,
and for each group a receiver, a handler and the copier of the subscription.
All groups use one reply subject and one name for the subscription. A batch is
published node by node and may fail after any of them (`Publish(k)`); `Do()` then
merges the statistics and returns while the handler may still be counting
replies (`Abandon`; `late` has those it counts afterwards). The code merges without
regard to the handler; here the merge is one step. The
`Sleeps` constant says whether the sleep between two batches outlasts the copier
of the last one.

`Plugins.tla` has the watcher (purge, the sleep of two seconds, deploy), the host
as far as it treats managing machines, and for each plugin and version an archive
watcher that downloads, extracts to a temporary place, removes and renames.
Contents are a version or `Damaged`. `PurgeUnknown` is on or off from the start
(`purges`). An item that does not verify is refused and then discarded in a step of
its own, with whatever was put there in between. Removals, the sleep and
deployments can fail or be interrupted. The host is that of `AAgent`: it reads a
manifest twice, and when the directory of a manager goes it may be `stuck` for ever
in `cleanf()`, as `aagent_removal` shows.

`Tally.tla` has the servers' start, alive and shutdown events, a network that
keeps the order of one process only and loses events, the recorder's
`processAlive`, `processStartup`, `processShutdown` and `maintenance`, its
restart, and the callbacks of the election that change its label. A unit of time
is 10 minutes. Its assumption on the times is that two alive intervals are no
longer than the limit, as 30 and 80 minutes are.

`MC*.tla` give TLC the constants a configuration file cannot express.
`ElectionProofs.tla`, `SpoolProofs.tla`, `GovernorProofs.tla`,
`AAgentProofs.tla`, `ServerProofs.tla`, `TallyProofs.tla`,
`ExternalAgentsProofs.tla` and `ClientProofs.tla` hold the theorems.
`AAgentProofs.tla` has those about `Plugins` too and `ServerProofs.tla` those about
`Supervisor`. They extend both modules, which is why these two have names such as
`PluginsSpec` and `SupervisorInit`; the modules of a pair share no state.

Definitions marked "Variant for mutation" are the plausible mistakes each
property is tested against; they are not used by the specifications.

## Runs

| Run | Checks | Shows |
|---|---|---|
| `election_faults` | `MutualExclusion`, `StandsDownInTime`, `IndInv`, `LeadershipSettles` | with requests and answers lost or late, crashes and restarts, no two members report `IsLeader()`, a leader without the bucket stands down, the invariant of the proof holds; once nothing fails, a leader is found and stays |
| `election_operator` | `NoResurrection` | with evictions, `Stop()` and a backoff policy a leader that lost the key never comes to lead again without having been a candidate |
| `spool_faults` | `NothingLost`, `AttemptsBounded`, `OnlyRetriesAreOvertaken`, `SpoolBounded`, `SpoolDrains` | a reliable message leaves the spool only when stored, expired, not to be signed, out of tries or with a file that could not be read or written; limits on attempts, order and size; every file leaves |
| `governor_slots` | `NoHoarding`, `SlotsAreOwned`, `ImplementsSemaphore`, `SomebodyGetsIn` | the governor is a semaphore, workers keep their own slots, leaks come free |
| `aagent_hosting` | `OnePerPath`, `SurvivorsWereRestarted`, `MutexesComeFree`, `DiskIsRun` | reloads, restarts and transitions interleave without two machines for a path; as long as no directory is removed, mutexes come free and what is on disk runs, unless a manifest changed between its two reads |
| `aagent_removal` | `RemovedMachinesGo`, which is violated | see Disagreements |
| `server_requests` | `CountedExactly`, `OneReply`, `NothingAfterStop`, `Answered`, `StopEnds` | the wait group counts who runs; a request has one reply at most and none after a timeout; after the processor nothing is started or published; an accepted request has its reply or a reason why not; a shutdown comes to its end unless replies nobody reads any more fill their channel, and `Shutdown()` alone leaves only what runs under the parent's context |
| `supervisor_output` | `OutputInPlace`, `ExitIsLast`, `StatusAdvances`, `Ends`, `NotHeldUp` | the lines that were read are submitted once and in order, but for those a failed submission leaves at the end, and under their stream, but for those it leaves in the buffer; the exit is the last thing submitted; the status of a job, asked in four looks, only advances; the supervisor ends; the command is not held up |
| `external_reconcile` | `SubscriptionsMatch`, `ListMatches`, `Converges` | agents that are registered are subscribed, once but for what a failed subscribing or unsubscribing left, the list is what the manager has, and once files rest the agents are those on disk |
| `client_batches` | `Listening`, `StatsAgree`, `Returns` | every target is asked once while somebody listens, replies count once, the statistics tell who did not answer, also when a publish fails half way, the request returns |
| `plugins_converge` | `ManagedOrForgotten`, `DeclaredIsRun`, `PurgedUnlessForgotten` | a plugin is without its manager only while the watcher deals with it, or after a failure or a late archive watcher; plugins and managers become what is declared unless the host is stuck or misread a manifest; what is dropped goes |
| `tally_counts` | `NetTally`, `TallySettles`, `OneLossIsTolerated` | gauges count what was observed, and what was observed is what runs once things are quiet |

Several of these are conjunctions of parts that have names and comments of their
own in the module (`StatsAgree` is `AskedOnce`, `CountedOnce`, `NobodyMissed` and
`UnexpectedIsLate`, for instance). Every module states a type invariant; it holds on the
instances below and is proved for every module.

### Disagreements

Where the code does not do what a comment or document says, the property that
states the claim is kept in the module, marked "Not so". `aagent_removal` is a run;
each of the others can be seen by adding the property to the configuration of
its component.

| Property | The code says | What happens |
|---|---|---|
| `RemovedMachinesGo` (run `aagent_removal`) | `aagent/aagent.go:340`: "deletes machines not on disk anymore" | `cleanf()` locks the AAgent, then the machine; a transition locks them the other way round, and both wait for ever |
| `Election!ShutdownNotifiesLoss` | `election.go:270`: "Calling leader lost during shutdown" | `stop()` has made the member a candidate before `IsLeader()` is asked: `OnLost` is not called when the context ends |
| `Spool!ReliableOrder` | `spool.go:171`: later reliable messages are skipped "to preserve order" | the next poll leaves out the failed message, whose next try is in the future, and publishes the later ones |
| `Spool!IgnoredStaysIgnored` | `disk_spool.go:271`: files that cannot be removed are put on a list "just to ignore" | the list holds paths and is compared with base names, so each poll empties it while the files are still there |
| `Governor!SlotsLastAsLongAsWork` | `governor.go:16`: workers remove themselves "once they are done" | SIGINT gives the entry back while the command runs |
| `ExternalAgents!ListIsManager` | `Agents()` "provides a list of loaded agent DDLs" | when two agents go in one round, the list is shortened by indices that no longer fit; an agent that does not activate is listed as loaded |
| `Supervisor!OutputComplete` | "Tracks command output and Submit to Choria" | the end of the command does not wait for the goroutines that copy its output, and a line may be overwritten in the scanner before it is copied |
| `Plugins!PurgeUnknown` | "PurgeUnknown will remove plugins not declared in DataItem" | an archive watcher that is still at work after two seconds deploys the plugin again, or removing the plugin fails or is interrupted after its manager went: no directory tells any more that it was managed |

`Client!Listening` holds with `Sleeps = TRUE`. With no sleep between batches the
copier of the last batch can give up the subscription of the next, which has the
same name.

### Bounds

- Election: two members. The argument of the invariant is about pairs of
  members, and the proof covers any number. Interval 3 of a TTL of 4 is the
  default ratio; with delay 1 a renewal can come a TTL after the last one, so the
  key does expire under a member that still believes to lead, and another wins it
  while the first has a claim: the case `SeparationInv` is about. `election_operator` has
  delay 0 because a backoff multiplies the states, and leaves out states with
  `calm` set, which only disables faults.
- Spool: three messages, two reliable and one unreliable, signed but for the
  first, two submitters at a time, one crash or failure, two tries. Order needs two
  reliable messages and two submitters that rename against the order of their
  names; a failed retry needs two tries. `SpoolMax` is 0, so that a directory
  with one file refuses and two submitters and a miscount together reach the bound.
  The proof covers any number.
- Governor: two workers, limits 1 and 2, four sequence numbers, one more than
  can be held when a request is stored. One worker leaves its message behind,
  the other can be interrupted.
- AAgent: one path that follows itself, two objects and one edit for
  `aagent_hosting`, enough for a reload or a removal, two starts of each, and three
  versions of which the last cannot be loaded; two paths that follow each other for `aagent_removal`.
- Server: two requests and room for one in every channel, so that each of them
  is full while another goroutine wants to send. The proof covers any number and
  any room.
- Supervisor: two lines on one stream and one on the other, of which one may be
  too long, room for one line in the channel and two in a pipe, one failed
  submission, one heartbeat. Mixing of streams needs a line of each, an
  overwritten line needs a second of the same. `AskWhen` is {FALSE}: the status
  action is run next to jobs whose output is not published, because it looks at
  files which the publication of output does not touch; the proof has both.
- ExternalAgents: three places for two agents, one of which has two DDLs, two
  versions, one of which is refused in one place, two collectives, two edits, one
  failed read, subscription or removal. The DDLs of the first agent begin with
  version 1 or not at all, because nothing tells its two versions apart. An upgrade in place needs two versions,
  two agents that go in one round two edits, a half made registration or
  removal two collectives.
- Client: five targets in batches of three: two batches, the second smaller, and
  a publish that fails between nodes.
- Plugins: two plugins, two versions, two changes of the specification, with and
  without `PurgeUnknown`, one crash, failure or damage.
- Tally: two hosts, two versions, three starts, stops or crashes, two lost events
  or restarts of the recorder, one callback. Alive every 3 units and forgotten
  after 8 is the ratio of the code's 30 and 80 minutes.

The deadlock check is off where the system may stop: a server, a supervisor or a
client that came to its end, and AAgent, where the two mutexes can deadlock, which
`aagent_removal` shows as the violation of a property.

### Fairness

- Election: time passes, the bucket expires keys, each member goes on (one weak
  fairness for its goroutine, its exit and the start of the process that exited or
  crashed). Nothing is assumed about
  faults: `LeadershipSettles` speaks of runs in which they stop.
- Spool: the worker's ticker and handler run, and a next try comes due.
- Governor: a campaign goes on (a request is answered and the ticker ticks) and
  messages reach MaxAge. Work may last for ever, failures may go on for ever;
  `SomebodyGetsIn` is about behaviours in which failures stop.
- AAgent: weak fairness for start goroutines, strong for steps that wait for a
  mutex, because Go's `sync.Mutex` hands a mutex to one who has waited for a
  millisecond.
- Server: weak fairness for the copier, the processor, each dispatcher and each
  publisher; a timer fires. Nothing is assumed about agents, which may run for
  ever, or about which ready case of its `select` the processor takes.
- Supervisor: goroutines run, and os/exec kills the command of a cancelled
  context. The command need neither write nor end.
- ExternalAgents: the ticker fires, files get older, and the service manager
  starts a process that ended.
- Client: goroutines run and timers fire; nodes may be silent.
- Plugins: the three tickers. Faults and changes are bounded, so the properties
  are about what holds in the end. The rounds of the host are fair as long as it
  is not `stuck`; once it is, none is enabled, and `DeclaredIsRun` says nothing of
  what it runs.
- Tally has no fairness: `TallySettles` counts the time since the last change or
  fault (`quiet`), a stronger statement than that it settles some day.

## Proofs

TLAPS checks all of them without assumptions other than those on the constants.

- `ElectionProofs`: `TypeCorrect` for every configuration. `InductiveInvariant`,
  `ElectionSafe` and `LeaderStandsDown` for any number of members, any TTL and
  any interval, under `Defaults`: no backoff, no eviction, no `Stop()`, and
  campaigns that take less than half a TTL (and, as everywhere, less than an
  interval). Mutual exclusion is not inductive. `IndInv` adds:
  what the goroutine's steps say about the mutex and the answer (`ControlInv`);
  that ticker, delay and lease add up to the interval (`ClockInv`); that no claim
  on the key is younger than the key, and an absent key has been without a
  renewal for a TTL (`KeyInv`); and that of two members with a claim one has
  been superseded, its last accepted campaign a TTL before the other's, while
  the other is not yet established (`SeparationInv`). With an eviction or a
  backoff, mutual exclusion is indeed not promised: the key can then go while
  the leader's lease runs. What holds in every configuration is `RevisionsFence`:
  at most one member has the revision the bucket accepts next, and only while
  there is a key. `DeposedStandsDown` is the action property `NoResurrection`, in
  every configuration too: a leader with a stale revision gets no other without
  having been a candidate. `ElectionIsALock` says, under `Defaults`, that the election
  implements `Semaphore` with one place: a step after which a member reports
  `IsLeader()` and did not before is taken while nobody does, and every other step
  only takes members out. It needs mutual exclusion before and after the step, and
  that a step lets one member lead at most.
- `SpoolProofs`: `SpoolNeverOverfull`, `TypeCorrect`, `ReliableIsNotLost`,
  `AttemptsAreBounded` and `ReliableInOrder`, for any number of messages,
  submitters, tries, crashes and failures. For the first the invariant counts the entries together with the
  submitters that passed the check, and the times one passed it because it could
  not count (`BoundInv`). The others follow a message. `Named`: it is
  offered once, gets its name before its file is in place and has no attempt
  before that; `Now` is later than every name and every rename so far.
  `Counts`: the attempts are the tries the file tells of, one more while the
  message is in hand or after it left, and one for each crash and failure; a
  message to be tried again has a try left. `Accounted`: what left the directory,
  is on the skip list or is being removed may go (`MayGo`, which no step takes
  back), and a file that does not parse is being rewritten or counts as
  damaged. That the handler is at a message of its batch at all (`Current`) needs
  the least element of a set of naturals. Order needs that the worker comes to a
  file only after the older reliable ones, unless it skips those or they were
  tried (`OldestFirst`), and that whatever was overtaken was tried (`Behind`).
  The property once spoke of every reliable message. The proof of it failed at a
  signed one: when it cannot be signed and its file cannot be removed, the skip
  list forgets it, later messages are published, and a later poll may sign it
  after all. It was overtaken without a failed attempt. The property now excludes
  signed messages from those that are not overtaken, and the instance has one. It
  also compares the rename of one message with the naming of the other: submitters
  that overlap may rename in either order, and nothing is promised of them.
- `AAgentProofs`: `TypeCorrect`, `NoTwoPerPath` and `OnlyRestartedSurvive`, for
  any number of directories, objects, starts and callers. The invariant says that
  an object that was never loaded is neither listed nor started (`Fresh`), that
  watchers have no context but one `Start()` made (`Contexts`), and that whatever
  left the list, or is about to, had its last context cancelled (`Leaving`):
  a watcher that lives on must then have an earlier one. `Reading` says that
  between the two reads of a manifest its path has no machine, so that the second
  read adds no other.
  About `Plugins`, for any plugins, versions, changes and faults, `PluginsTypeCorrect` and
  `NothingElseIsLeft`: a plugin without its manager is being dealt with or was
  forgotten. It needs that only what is desired is deployed (`Wanted`), because a
  manager that is removed for another must get that other.
- `GovernorProofs`: `TypeCorrect`, `SlotsOwned`, `TakesOneSlot` and
  `RefinesSemaphore`, for any number of workers, limits and sequence numbers. The invariant says what a
  worker knows at each step (`Progress`), that a number it knows is stored
  unless it was removed (`Stored`), that two workers never know the same number
  (`Apart`), and that the stream holds no more than the highest limit
  (`Room`). Owned slots are an injection of working workers into stored messages,
  which is why entering finds a free place; every other step only takes workers
  out of `Governed`, which is a release. That a `Start()` takes one slot at most
  needs `Spent`: a worker that waits or has a request out took none so far, and a
  request given up on belongs to a `Start()` that ended without a slot.
- `ServerProofs`: `TypeCorrect`, `WaitGroupExact`, `AtMostOneReply` and
  `QuietAfterStop`, for any finite set of requests and any room in the channels.
  The wait group and the types are proved together (`Counted`): that the group
  never goes below zero, which would be a panic, needs the count, and each step
  of a dispatcher adds or removes exactly one member of the set of busy ones.
  That `TakeRequest` adds one needs `Pipeline`: a request is in one place only on
  its way from the broker to its dispatcher, and what waits there has no
  dispatcher yet. At most one reply needs `Replied`: what waits in the channel of
  replies is there once, its dispatcher is done and its publisher did not start.
  `Closed` says that the connection is closed once the processor is done, from
  which `QuietAfterStop` follows step by step.
  About `Supervisor`, for any number of lines, any room in channel, pipe and buffer and
  any number of failed submissions: `SupervisorTypeCorrect`, `OutputStaysInPlace`,
  `ExitComesLast` and `StatusOnlyAdvances`. `Unstarted` says that before the start
  there is nothing of the command anywhere. `Finishing` is the order of the end:
  who waited for the output finds no collector and no heartbeat at work, and the exit
  comes after that. `Piped` says that the lines in a pipe and in a scanner have the
  numbers up to the last one written and the last one in the file.
  `Numbered` is about the way of the lines (`Way`: submitted, in the buffer, in
  the channel): a line has its place among the lines of its stream.
  `Passed` says that a reader that goes on, or met no long line, handed over all that
  it read, which is what gives the next line its number, and `OneStream` that the
  buffer is of one stream while submissions work. `Borrowed` is about the others: the last
  line of the buffer is of the stream it will be submitted under, so a line under
  the wrong subject has one after it that belongs there. `Left` says that the
  collector ends after its readers and leaves lines only after a failure. `Asking`
  relates what the status action saw at its last look to what is on disk now.
  Nothing is said of the bytes of a line, which `OutputComplete` is about. Order needs no induction over
  data: publishing and taking a line leave `Way` as it is, a reader appends one
  line to it, and a count is the cardinality of a set that grows by one.
- `TallyProofs`: `TypeCorrect`, `GaugesCount`, `Settles` and `ToleratesOneLoss`,
  for any finite set of hosts and versions, any number of changes, losses and
  restarts, and all times of which two alive intervals are within the limit.
  The gauges follow from how much one host adds to or takes from a cardinality,
  and from the label being 1 without an election (`Labelled`). That the tally
  settles, which is stated with the time since the last change and so is an
  invariant, needs three facts about quiet time: only the alive event of this
  unit is under way (`QuietNet`), the next one of a running server is near, under
  way or follows one that was counted (`Announced`), and a record of an ended
  server is as old as the quiet time (`Silent`). `Recent` bounds the age of a
  record by one alive interval and one more for a lost event.
- `ExternalAgentsProofs`: `TypeCorrect`, `RequestsReachAgents` and `ListIsTable`,
  for any DDL files, names, versions, collectives, edits and failures.
  `Subscribed` is the property, agent by agent: registered means one subscription
  in every collective, `leaky` agents may have more, one for each failure, and an
  agent that is not registered and of which nothing failed has no entry in
  `a.subs`, which would refuse it. The list needs `Distinct` (no two entries of an agent), `Indices`
  (the indices to remove are in order, and fit as long as there is only one) and
  `InStep`: an entry is what its agent was registered with, or its agent is
  unregistered and its index is still to be removed. The theorem says nothing of
  rounds that remove two agents, where the code's list goes wrong (see
  Disagreements).
- `ClientProofs`: `TypeCorrect`, `NoBatchIsDeaf` and `StatisticsAreTrue`, for any
  non-empty list of targets without duplicates and any batch size; the last two
  assume `Sleeps`, without which they are false. The lemma `Partition` says that
  the groups of `InGroups()` cover the targets and share none. `Flow` is about
  control: batches are done in turn, at most one copier is at work, a token in
  `receiverReady` is of the batch to be published, and nobody gives up the
  subscription of a batch that goes on (`Kept`, which needs the single copier,
  because all subscriptions have one name). `OnePlace` says that a reply is in the
  channel of one subscription, in the channel of replies or counted, and
  nowhere twice. `Reasons` says why a batch ended, `Unexpected` that a node which
  answers in another batch is outstanding in its own, which timed out,
  and `Totals` what the merged statistics hold between two batches and after the
  return, when they lack the replies counted later.

Only model-checked:

- liveness, because TLAPS 1.4.5 does not reason about fairness or ENABLED:
  `LeadershipSettles`, `SpoolDrains`, `SomebodyGetsIn`, `MutexesComeFree`,
  `DiskIsRun`, `Answered`, `StopEnds`, `Ends`, `NotHeldUp`, `Converges`, `Returns`,
  `DeclaredIsRun` and `PurgedUnlessForgotten`.

Every other property of a passing run is stated by a theorem.

## Further hazards

`PROJECT.json` lists the hazards that properties are aimed at. The following are
covered by the same properties or, where none is named, by none:

- The leader's lastSeq is stale once the key was expired, evicted or taken over;
  an Update with it must never be accepted.
  (`providers/election/streams/election.go:172`; `NoResurrection`)
- After arbitrary failures somebody must win again and keep the key: a restarted
  leader, a leftover key or a lost answer must not keep everybody a candidate.
  (`providers/election/streams/election.go:156`; `LeadershipSettles`)
- The order of stop() and IsLeader() at shutdown decides whether the leader's
  OnLost callback is ever called: stop() resets the state first, so a leader
  whose context is cancelled is never told it lost.
  (`providers/election/streams/election.go:267`)
- Stop() re-locks the mutex it holds, and the campaign goroutine then waits for
  it for ever. (`providers/election/streams/election.go:330`)
- Start() returns the error of configure() with the mutex held: every later
  Start(), Stop() or IsLeader() of the object blocks. Modelled (StartFails);
  leadership settles on another member as long as one is left.
  (`providers/election/streams/election.go:296`; `LeadershipSettles`)
- An interrupted splay returns a plain error, not context.Canceled, so a member
  that was cancelled before its first campaign still creates the key and then
  leaves it to expire. (`providers/election/streams/election.go:230`;
  `LeadershipSettles`)
- IncrementTries() rewrites the file in place; a crash or a full disk leaves a
  truncated file that the next poll discards as unreadable, so a reliable
  message with tries left is gone. So does a poll that cannot read an intact
  file. The property excludes such messages by name (`damaged`): it is a loss the
  code accepts.
  (`submission/disk_spool.go:112`; `NothingLost`)
- The stream stored the message but its acknowledgement came too late: the
  message counts as failed, is retried and must neither be lost nor published
  beyond its tries. (`submission/spool.go:116`; `NothingLost`,
  `AttemptsBounded`)
- The test for a full spool is one off: a spool that holds its maximum takes one
  more (the configuration reference says maximum), and the racing submitters
  come on top. (`submission/disk_spool.go:332`; `SpoolBounded`)
- A message with MaxTries 0 passes Validate() and is removed by the first poll
  without an attempt to publish it. (`submission/disk_spool.go:188`)
- Every failing return of Start() leaves running set and gives the caller no
  finisher: the object is of no more use.
  (`providers/governor/streams/governor.go:264`)
- On SIGINT the signal handler calls the finisher while the command is still
  running. (`cmd/governor_run.go:123`)
- When one of several watchers cannot be made, the ones before it stay in the
  manager: every later Start() fails with already exist, whatever the first
  error was. (`aagent/watchers/watchers.go:184`)
- A machine is in the list before it is started: a subscription can make it
  transition while m.ctx is nil. (`aagent/aagent.go:153`)
- ManageMachines() adds one to the wait group for two goroutines that both call
  Done(). (`aagent/aagent.go:107`)
- The end of the command overtakes its output: the pipes are closed while lines
  are still in them or in the goroutine of os/exec.
  (`providers/execution/exec.go:367`; `OutputInPlace`)
- The reader hands scanner.Bytes() to another goroutine through a channel with
  room for 10 and scans on, which overwrites the lines that were not yet copied.
  (`providers/execution/exec.go:544`)
- Between the end of the command and the writing of the exit file a job is
  neither running nor has it an exit code, and each of the four looks of the status
  action may fall on another side of it.
  (`providers/agent/mcorpc/golang/executor/status.go:87`; `StatusAdvances`)
- Pid numbers are used again: IsRunning() and Signal() of a job that ended may
  find another process. (`providers/execution/exec.go:499`)
- RegisterAgent() returns nil for an agent that does not activate; the provider
  lists it as loaded, cannot unregister it when its DDL goes and never tries it
  again. (`server/agents/agents.go:226`; `ListMatches`)
- A file changes or goes between the walk and the moment its age is looked at;
  what is registered then is what was read earlier and must be corrected by the
  next round. (`providers/agent/mcorpc/external/provider.go:152`; `Converges`)
- An agent with DDLs in two directories is an upgrade of itself in every round,
  back and forth between the two.
  (`providers/agent/mcorpc/external/provider.go:60`; `Converges`)
- An action reads the path and the DDL of its agent in two critical sections: a
  reconciliation between them gives it the executable of one version and the DDL
  of another. (`providers/agent/mcorpc/external/agent.go:149`)
- A request that is published before the broker knows the subscription loses the
  first replies: the token of receiverReady must follow the subscription.
  (`client/client/client.go:141`; `Listening`)
- The last batch is smaller than the others when the size does not divide the
  number of targets. (`providers/agent/mcorpc/client/util.go:46`; `StatsAgree`)
- With more than one receiver on a client all of them subscribe as "replies":
  only the last can be given up by name. (`choria/connection.go:261`)
- The watcher gives a manager 2 seconds to exit before it removes the plugin,
  while the host looks for removed directories every 10 seconds: the manager is
  still there and deploys the plugin again, and no directory tells any more that
  it was managed. (`aagent/watchers/pluginswatcher/plugins.go:367`;
  `PurgedUnlessForgotten`)
- The server stops, or a write fails, between the removal of the old manager and
  the new one: a plugin that is declared has no manager until the next watch.
  (`aagent/watchers/pluginswatcher/plugins.go:243`; `DeclaredIsRun`)
- A download, an extraction or a verification fails, or the files of a deployed
  plugin change: it must be tried again, and what is in place must not be lost
  to a half extracted archive. (`aagent/watchers/archivewatcher/archive.go:225`;
  `DeclaredIsRun`)
- An item that does not verify is deleted after it was looked at: a good one that
  was put in between goes too, and nothing is declared until the next.
  (`aagent/watchers/pluginswatcher/plugins.go:437`; `DeclaredIsRun` says nothing
  while there is no item)
- currentPlugins() looks for managers in the directory of the plugins; with
  plugins_directory set they are elsewhere and nothing is ever purged.
  (`aagent/watchers/pluginswatcher/plugins.go:388`)
- The label is read for every gauge anew while the callbacks of the election
  change it without the lock: a host can be taken off under one label and added
  under the other within one event. (`lifecycle/tally/tally.go:145`; `NetTally`)
- A worker of the chain blocks in a send on a full channel, where it does not
  see that its context ended; the pool then never stops.
  (`broker/federation/choria_nats_ingest.go:76`)
- The channel of state changes has room for one and further changes are dropped:
  a watcher must look at the current state when it wakes, not count changes.
  (`aagent/watchers/watcher/watcher.go:291`)

## Not modelled

Times in all modules but `Election` and `Tally` (backoff durations, splay, poll
intervals) are nondeterministic delays. The contents of messages, manifests and
files, metrics and logging are left out. NATS is modelled by the operations the
code calls, marked external in the map. A message with `MaxTries` 0, which
`Validate()` accepts, is outside the assumptions of `Spool`. Watchers
that fail to be created and machine data are outside `AAgent`. In the server, the
tables made at start, `RunServiceHost()` and the execution of an action are left
out; in the client, requests without replies, service requests and several
receivers with connections of their own; in the tally, the counters that only
grow.

`pluginswatcher` is a newer copy of `machineswatcher`, and `Plugins` follows the
newer one. The federation broker, the stream adapters and the single watchers have
state of their own and could be modelled in the same way; the rest of the
repository is either a library's work (the NATS server, cryptography, TLS),
functions without state between calls (encodings, filters, validation, DDLs,
configuration), generated code and mocks, or the terminal.

## Plan

1. Done: `Election`, `Spool`, `Governor` with `Semaphore`, `AAgent`, `Server`,
   `ExternalAgents`, `Supervisor`, `Client`, `Plugins`, `Tally`, with their runs;
   theorems about all of them.
2. `Watcher`: one watcher with its state change channel, composed with the
   machine of `AAgent`; `Federation`: the chains of worker pools and their
   shutdown.
