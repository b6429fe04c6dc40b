----------------------------- MODULE Supervisor -----------------------------
(***************************************************************************)
(* The supervisor of a long running command (providers/execution,          *)
(* cmd/exec-supervisor.go).  StartSupervised() saves and submits what it   *)
(* does, starts the command, waits for it and records how it ended.  When  *)
(* output is tracked it goes, for each stream, through the pipe of the     *)
(* operating system, a goroutine of os/exec and an io.Pipe to a reader,    *)
(* which keeps a copy in a file and hands lines to a channel both readers  *)
(* share; one goroutine collects lines and submits them.  Another submits  *)
(* heartbeats.                                                             *)
(*                                                                         *)
(* A line is its stream, its number in it, whether it is longer than the   *)
(* scanner takes (64 KiB) and whether its bytes were overwritten.  Names   *)
(* differ from those of Server, because ServerProofs extends both modules. *)
(***************************************************************************)
EXTENDS Naturals, Sequences, FiniteSets

CONSTANTS
  LinesCap,   \* room in the channel of lines, 10 in the code
  PipeCap,    \* lines the pipe of the operating system holds
  BuffMax,    \* lines in the buffer that make more than 1024 bytes
  MaxLines,   \* bounds on the lines the command writes to each stream
  MaxLong,    \* bound on the long lines it writes
  MaxFails,   \* bound on the submissions that fail
  MaxBeats,   \* bound on the heartbeats
  AskWhen     \* bound on the jobs whose status is asked for, by what is done with their output

ASSUME SupervisorAssumption ==
  /\ LinesCap \in Nat \ {0} /\ PipeCap \in Nat \ {0} /\ BuffMax \in Nat
  /\ MaxLines \in [{"stdout", "stderr"} -> Nat] /\ MaxLong \in Nat /\ MaxFails \in Nat /\ MaxBeats \in Nat
  /\ AskWhen \subseteq BOOLEAN

Stream == {"stdout", "stderr"}

VARIABLES
  sup,      \* where StartSupervised() is
  track,    \* publishOutput
  cancelled,     \* the context of the command line was cancelled
  \* the command
  child,    \* "none", "running" or "exited"
  written,  \* lines it wrote, for each stream
  longs,    \* long lines it wrote
  ospipe,   \* written and not yet read, with what os/exec holds of it
  \* the goroutines of the output
  closed,   \* the pipes and files were closed
  reader,   \* "scan" or "done"
  scanned,  \* lines in the buffer of the scanner
  lines,    \* the channel
  watcher,  \* watchOutput(): "run" or "done"
  buff,
  prev,     \* the stream of the last line, "none" before the first
  beat,     \* hb(): "none", "run" or "done"
  \* what others see
  spec,     \* spec.json: "created", "started" or "terminated"
  pidfile, exitfile,   \* "none", "empty" when created and not written, or "full"
  file,     \* lines in the stdout and the stderr file
  sent,     \* lines of output that were submitted, with the subject of the submission
  beats,    \* submitted heartbeats
  exitsent,
  fails,
  \* whoever asks for the status
  ask,      \* what statusAction() does next: "idle", "started", "pid" or "code"
  runs,     \* what IsRunning() said
  told      \* the last answer: 0 not started, 1 running, 2 ended

chan   == <<ospipe, reader, scanned, lines, watcher, buff, prev>>
disk   == <<spec, pidfile, exitfile>>
asked  == <<ask, runs, told>>
supervisorVars ==
  <<sup, track, asked, cancelled, child, written, longs, closed, chan, beat, disk, file, sent, beats,
    exitsent, fails>>

Active == sup \notin {"failed", "crashed", "done"}

Line == [origin : Stream, n : Nat \ {0}, long : BOOLEAN, bad : BOOLEAN]

\* A submission works or, within the bound, fails.
Submit(ok) ==
  /\ ok \/ fails < MaxFails
  /\ fails' = IF ok THEN fails ELSE fails + 1

-----------------------------------------------------------------------------
(* StartSupervised()                                                       *)

output == <<child, written, longs, closed, chan, beat, file, sent, beats>>

\* StartTime is set, saved and never cleared.
SaveSpec(ok) ==
  /\ sup = "created"
  /\ IF ok THEN sup' = "saved" /\ spec' = "started" ELSE sup' = "failed" /\ UNCHANGED spec
  /\ UNCHANGED <<track, asked, cancelled, output, pidfile, exitfile, exitsent, fails>>

SubmitSpec(ok) ==
  /\ sup = "saved"
  /\ Submit(ok)
  /\ sup' = IF ok THEN "specsent" ELSE "failed"
  /\ UNCHANGED <<track, asked, cancelled, output, disk, exitsent>>

\* Variant for mutation: one stream has no reader.
StartCommandOneReader(ok) ==
  /\ sup = "specsent"
  /\ ok => ~cancelled
  /\ IF ok
     THEN /\ sup' = "started"
          /\ child' = "running"
          /\ reader' = [s \in Stream |-> IF track /\ s = "stderr" THEN "scan" ELSE "done"]
          /\ watcher' = IF track THEN "run" ELSE "done"
     ELSE sup' = "failed" /\ UNCHANGED <<child, reader, watcher>>
  /\ UNCHANGED <<track, asked, cancelled, written, longs, closed, ospipe, scanned, lines, buff, prev, beat, disk, file,
                 sent, beats, exitsent, fails>>

\* Opens the files, starts the goroutines of the output and the command.
StartCommand(ok) ==
  /\ sup = "specsent"
  /\ ok => ~cancelled
  /\ IF ok
     THEN /\ sup' = "started"
          /\ child' = "running"
          /\ reader' = [s \in Stream |-> IF track THEN "scan" ELSE "done"]
          /\ watcher' = IF track THEN "run" ELSE "done"
     ELSE sup' = "failed" /\ UNCHANGED <<child, reader, watcher>>
  /\ UNCHANGED <<track, asked, cancelled, written, longs, closed, ospipe, scanned, lines, buff, prev, beat, disk, file,
                 sent, beats, exitsent, fails>>

\* The file of the pid is created and then written.  When it cannot be, the
\* command is left to itself.
CreatePid(ok) ==
  /\ sup = "started"
  /\ IF ok THEN sup' = "pidcreated" /\ pidfile' = "empty" ELSE sup' = "failed" /\ UNCHANGED pidfile
  /\ UNCHANGED <<track, asked, cancelled, output, spec, exitfile, exitsent, fails>>

\* The heartbeat is optional.
WritePid(ok) ==
  /\ sup = "pidcreated"
  /\ IF ok
     THEN /\ sup' = "pidwritten"
          /\ pidfile' = "full"
          /\ beat' = IF MaxBeats > 0 THEN "run" ELSE "done"
     ELSE sup' = "failed" /\ UNCHANGED <<pidfile, beat>>
  /\ UNCHANGED <<track, asked, cancelled, child, written, longs, closed, chan, file, sent, beats, spec, exitfile,
                 exitsent, fails>>

SubmitPid(ok) ==
  /\ sup = "pidwritten"
  /\ Submit(ok)
  /\ sup' = "waiting"
  /\ UNCHANGED <<track, asked, cancelled, output, disk, exitsent>>

\* Process.Wait() waits for the command, not for the goroutines of os/exec.
WaitCommand ==
  /\ sup = "waiting"
  /\ child = "exited"
  /\ sup' = "reaped"
  /\ UNCHANGED <<track, asked, cancelled, output, disk, exitsent, fails>>

\* Variant for mutation: the pipes are not closed.
CloseNothing(ok) ==
  /\ sup = "reaped"
  /\ sup' = "closing"
  /\ spec' = IF ok THEN "terminated" ELSE spec
  /\ UNCHANGED <<track, asked, cancelled, output, pidfile, exitfile, exitsent, fails>>

\* TerminateTime is saved if that works, the context cancelled, pipes and files
\* closed.
Close(ok) ==
  /\ sup = "reaped"
  /\ sup' = "closing"
  /\ spec' = IF ok THEN "terminated" ELSE spec
  /\ closed' = TRUE
  /\ UNCHANGED <<track, asked, cancelled, child, written, longs, chan, beat, pidfile, exitfile, file, sent, beats,
                 exitsent, fails>>

\* Variant for mutation: the goroutines are not waited for.
NoWait ==
  /\ sup = "closing"
  /\ sup' = "flushed"
  /\ UNCHANGED <<track, asked, cancelled, output, disk, exitsent, fails>>

\* wg.Wait()
WaitOutput ==
  /\ sup = "closing"
  /\ watcher = "done" /\ beat = "done"
  /\ sup' = "flushed"
  /\ UNCHANGED <<track, asked, cancelled, output, disk, exitsent, fails>>

SubmitExit(ok) ==
  /\ sup = "flushed"
  /\ Submit(ok)
  /\ exitsent' = ok
  /\ sup' = "exitsent"
  /\ UNCHANGED <<track, asked, cancelled, output, disk>>

\* The file of the exit is created and then written, too; errors are logged.
CreateExit(ok) ==
  /\ sup = "exitsent"
  /\ IF ok THEN sup' = "exitcreated" /\ exitfile' = "empty" ELSE sup' = "done" /\ UNCHANGED exitfile
  /\ UNCHANGED <<track, asked, cancelled, output, spec, pidfile, exitsent, fails>>

\* Variant for mutation: the file of the pid is removed when the command ended.
WriteExitRemovePid(ok) ==
  /\ sup = "exitcreated"
  /\ exitfile' = IF ok THEN "full" ELSE exitfile
  /\ pidfile' = "none"
  /\ sup' = "done"
  /\ UNCHANGED <<track, asked, cancelled, output, spec, exitsent, fails>>

WriteExit(ok) ==
  /\ sup = "exitcreated"
  /\ exitfile' = IF ok THEN "full" ELSE exitfile
  /\ sup' = "done"
  /\ UNCHANGED <<track, asked, cancelled, output, spec, pidfile, exitsent, fails>>

\* The supervisor is killed.  The command may go on.
Crash ==
  /\ Active /\ sup # "created"
  /\ sup' = "crashed"
  /\ UNCHANGED <<track, asked, cancelled, output, disk, exitsent, fails>>

\* The command line is interrupted and os/exec then kills the command.
Interrupt ==
  /\ Active /\ ~cancelled
  /\ cancelled' = TRUE
  /\ UNCHANGED <<sup, track, asked, output, disk, exitsent, fails>>

-----------------------------------------------------------------------------
(* The command.                                                            *)

\* A full pipe makes it wait.  Without tracking it writes to the files.  What
\* it writes when the supervisor is gone is left out.
ChildWrite(s, long) ==
  /\ Active /\ child = "running"
  /\ written[s] < MaxLines[s]
  /\ long => longs < MaxLong
  /\ longs' = IF long THEN longs + 1 ELSE longs
  /\ written' = [written EXCEPT ![s] = @ + 1]
  /\ IF track
     THEN /\ Len(ospipe[s]) < PipeCap
          /\ ospipe' = [ospipe EXCEPT ![s] = Append(@,
                          [origin |-> s, n |-> written'[s], long |-> long, bad |-> FALSE])]
          /\ UNCHANGED file
     ELSE file' = [file EXCEPT ![s] = @ + 1] /\ UNCHANGED ospipe
  /\ UNCHANGED <<sup, track, asked, cancelled, child, closed, reader, scanned, lines, watcher, buff, prev, beat, disk,
                 sent, beats, exitsent, fails>>

ChildExit ==
  /\ child = "running"
  /\ child' = "exited"
  /\ UNCHANGED <<sup, track, asked, cancelled, written, longs, closed, chan, beat, disk, file, sent, beats, exitsent, fails>>

-----------------------------------------------------------------------------
(* The goroutines of the supervisor.                                       *)

Overwritten(l) == [origin |-> l.origin, n |-> l.n, long |-> l.long, bad |-> TRUE]

\* The scanner of stream s reads the next k lines, and the file gets them.  It
\* uses its memory again: lines it handed out may be overwritten that are not
\* yet copied, among them those at the places over of the channel.
ReaderFill(s, k, over) ==
  /\ Active
  /\ reader[s] = "scan" /\ scanned[s] = <<>>
  /\ ~closed
  /\ k \in 1..Len(ospipe[s])
  /\ scanned' = [scanned EXCEPT ![s] = SubSeq(ospipe[s], 1, k)]
  /\ over \subseteq {i \in DOMAIN lines : lines[i].origin = s}
  /\ lines' = [i \in DOMAIN lines |-> IF i \in over THEN Overwritten(lines[i]) ELSE lines[i]]
  /\ ospipe' = [ospipe EXCEPT ![s] = SubSeq(@, k + 1, Len(@))]
  /\ file' = [file EXCEPT ![s] = @ + k]
  /\ UNCHANGED <<sup, track, asked, cancelled, child, written, longs, closed, reader, watcher, buff, prev, beat,
                 disk, sent, beats, exitsent, fails>>

\* It hands a line to the channel when there is room.
ReaderSend(s) ==
  /\ Active
  /\ reader[s] = "scan" /\ scanned[s] # <<>>
  /\ ~Head(scanned[s]).long
  /\ Len(lines) < LinesCap
  /\ lines' = Append(lines, Head(scanned[s]))
  /\ scanned' = [scanned EXCEPT ![s] = Tail(@)]
  /\ UNCHANGED <<sup, track, asked, cancelled, child, written, longs, closed, ospipe, reader, watcher, buff, prev,
                 beat, disk, file, sent, beats, exitsent, fails>>

\* A long line, or a closed pipe, ends the scanner.
ReaderEnd(s) ==
  /\ Active
  /\ reader[s] = "scan"
  /\ \/ scanned[s] # <<>> /\ Head(scanned[s]).long
     \/ scanned[s] = <<>> /\ closed
  /\ reader' = [reader EXCEPT ![s] = "done"]
  /\ scanned' = [scanned EXCEPT ![s] = <<>>]
  /\ UNCHANGED <<sup, track, asked, cancelled, child, written, longs, closed, ospipe, lines, watcher, buff, prev, beat,
                 disk, file, sent, beats, exitsent, fails>>

\* The lines of a buffer, submitted under a subject.
Under(subject, b) == [i \in DOMAIN b |-> [subject |-> subject, line |-> b[i]]]

\* Variant for mutation: the buffer is emptied whether the submission worked or not.
PublishAnyway(b, subject, ok) ==
  [buff |-> <<>>,
   sent |-> IF ok THEN Under(subject, b) ELSE <<>>,
   fails |-> IF ok \/ b = <<>> THEN 0 ELSE 1]

\* publish(): what is left in the buffer, what was submitted, whether it failed.
Publish(b, subject, ok) ==
  [buff |-> IF ok THEN <<>> ELSE b,
   sent |-> IF ok THEN Under(subject, b) ELSE <<>>,
   fails |-> IF ok \/ b = <<>> THEN 0 ELSE 1]

\* The buffer is submitted when the next line is of the other stream, and when
\* it is large; either may fail.  Then the line is added to it.
TakeLine(ok1, ok2) ==
  LET l    == Head(lines)
      turn == IF prev \notin {"none", l.origin} THEN Publish(buff, prev, ok1)
              ELSE [buff |-> buff, sent |-> <<>>, fails |-> 0]
      full == IF Len(turn.buff) > BuffMax THEN Publish(turn.buff, prev, ok2)
              ELSE [buff |-> turn.buff, sent |-> <<>>, fails |-> 0]
  IN [buff |-> Append(full.buff, l), sent |-> turn.sent \o full.sent, fails |-> turn.fails + full.fails]

\* watchOutput() takes a line.
WatchLine(ok1, ok2) ==
  /\ Active /\ watcher = "run" /\ lines # <<>>
  /\ LET t == TakeLine(ok1, ok2)
     IN /\ fails + t.fails <= MaxFails
        /\ fails' = fails + t.fails
        /\ sent' = sent \o t.sent
        /\ buff' = t.buff
  /\ prev' = Head(lines).origin
  /\ lines' = Tail(lines)
  /\ UNCHANGED <<sup, track, asked, cancelled, child, written, longs, closed, ospipe, reader, scanned, watcher, beat,
                 disk, file, beats, exitsent>>

\* The ticker of a second, or the end: both readers are done, lines is closed.
WatchPublish(ok, last) ==
  /\ Active /\ watcher = "run"
  /\ IF last THEN lines = <<>> /\ \A s \in Stream : reader[s] = "done" ELSE buff # <<>>
  /\ watcher' = IF last THEN "done" ELSE "run"
  /\ LET p == Publish(buff, prev, ok)
     IN /\ fails + p.fails <= MaxFails
        /\ fails' = fails + p.fails
        /\ sent' = sent \o p.sent
        /\ buff' = p.buff
  /\ UNCHANGED <<sup, track, asked, cancelled, child, written, longs, closed, ospipe, reader, scanned, lines, prev, beat,
                 disk, file, beats, exitsent>>

\* hb(): the payload is IsRunning(), which is true of a command not yet reaped.
Heartbeat(ok) ==
  /\ Active /\ beat = "run"
  /\ beats < MaxBeats
  /\ Submit(ok)
  /\ beats' = IF ok THEN beats + 1 ELSE beats
  /\ UNCHANGED <<sup, track, asked, cancelled, child, written, longs, closed, chan, beat, disk, file, sent, exitsent>>

HeartbeatEnd ==
  /\ Active /\ beat = "run"
  /\ sup = "closing" \/ cancelled
  /\ beat' = "done"
  /\ UNCHANGED <<sup, track, asked, cancelled, child, written, longs, closed, chan, disk, file, sent, beats, exitsent, fails>>

-----------------------------------------------------------------------------
(* statusAction() of the executor agent, one request after the other.  It   *)
(* looks at the job four times; in between the supervisor goes on.  When    *)
(* what it looks at is not whole the request is aborted, which tells        *)
(* nothing.                                                                 *)

job == <<sup, track, cancelled, child, written, longs, closed, chan, beat, disk, file, sent, beats,
         exitsent, fails>>

\* IsRunning(): the pid is that of a process.  It is until somebody waited for it.
IsRunning ==
  pidfile = "full" /\ (child = "running" \/ (child = "exited" /\ sup \in {"pidwritten", "waiting"}))

\* Load() and IsRunning().  Before the job was started its specification names
\* no file of a pid.
AskRunning ==
  /\ ask = "idle" /\ track \in AskWhen
  /\ IF spec = "created" THEN told' = 0 /\ UNCHANGED <<ask, runs>>
     ELSE ask' = "started" /\ runs' = IsRunning /\ UNCHANGED told
  /\ UNCHANGED job

\* HasStarted()
AskStarted ==
  /\ ask = "started"
  /\ IF pidfile = "none" THEN told' = 0 /\ ask' = "idle" /\ UNCHANGED runs
     ELSE ask' = "pid" /\ UNCHANGED <<runs, told>>
  /\ UNCHANGED job

\* ParsePid(), which refuses an empty file.
AskPid ==
  /\ ask = "pid"
  /\ ask' = IF pidfile = "full" /\ ~runs THEN "code" ELSE "idle"
  /\ told' = IF pidfile = "full" /\ runs THEN 1 ELSE told
  /\ UNCHANGED <<runs, job>>

\* ParseExitCode()
AskCode ==
  /\ ask = "code"
  /\ ask' = "idle"
  /\ told' = IF exitfile = "full" THEN 2 ELSE told
  /\ UNCHANGED <<runs, job>>

-----------------------------------------------------------------------------
SupervisorInit ==
  /\ sup = "created" /\ track \in BOOLEAN /\ cancelled = FALSE
  /\ child = "none" /\ written = [s \in Stream |-> 0] /\ longs = 0
  /\ ospipe = [s \in Stream |-> <<>>]
  /\ closed = FALSE
  /\ reader = [s \in Stream |-> "done"] /\ scanned = [s \in Stream |-> <<>>]
  /\ lines = <<>> /\ watcher = "done" /\ buff = <<>> /\ prev = "none"
  /\ beat = "none"
  /\ spec = "created" /\ pidfile = "none" /\ exitfile = "none"
  /\ file = [s \in Stream |-> 0]
  /\ sent = <<>> /\ beats = 0 /\ exitsent = FALSE /\ fails = 0
  /\ ask = "idle" /\ runs = FALSE /\ told = 0

Main ==
  \/ \E ok \in BOOLEAN : \/ SaveSpec(ok) \/ SubmitSpec(ok) \/ StartCommand(ok) \/ CreatePid(ok)
                         \/ WritePid(ok) \/ SubmitPid(ok) \/ Close(ok) \/ SubmitExit(ok)
                         \/ CreateExit(ok) \/ WriteExit(ok)
  \/ WaitCommand \/ WaitOutput

Read(s) == ReaderSend(s) \/ ReaderEnd(s) \/ \E k \in 1..PipeCap, over \in SUBSET (1..LinesCap) : ReaderFill(s, k, over)

Watch ==
  \/ \E ok1, ok2 \in BOOLEAN : WatchLine(ok1, ok2)
  \/ \E ok \in BOOLEAN : WatchPublish(ok, TRUE)

Ask == AskRunning \/ AskStarted \/ AskPid \/ AskCode

SupervisorNext ==
  \/ Main \/ Watch
  \/ Crash \/ Interrupt
  \/ \E s \in Stream : Read(s) \/ \E long \in BOOLEAN : ChildWrite(s, long)
  \/ ChildExit
  \/ \E ok \in BOOLEAN : WatchPublish(ok, FALSE) \/ Heartbeat(ok)
  \/ HeartbeatEnd
  \/ Ask

SupervisorSpec == SupervisorInit /\ [][SupervisorNext]_supervisorVars

\* os/exec kills the command of a context that was cancelled.
Kill == cancelled /\ ChildExit

\* Goroutines run; the command need neither write nor end by itself.
SupervisorFairSpec ==
  /\ SupervisorSpec
  /\ WF_supervisorVars(Main) /\ WF_supervisorVars(Watch) /\ WF_supervisorVars(HeartbeatEnd) /\ WF_supervisorVars(Kill)
  /\ \A s \in Stream : WF_supervisorVars(Read(s))

-----------------------------------------------------------------------------
(* Properties.                                                             *)

SupervisorTypeOK ==
  /\ sup \in {"created", "saved", "specsent", "started", "pidcreated", "pidwritten", "waiting",
              "reaped", "closing", "flushed", "exitsent", "exitcreated", "done", "failed", "crashed"}
  /\ track \in BOOLEAN /\ cancelled \in BOOLEAN /\ closed \in BOOLEAN
  /\ child \in {"none", "running", "exited"}
  /\ written \in [Stream -> Nat] /\ longs \in 0..MaxLong
  /\ ospipe \in [Stream -> Seq(Line)] /\ \A s \in Stream : Len(ospipe[s]) <= PipeCap
  /\ scanned \in [Stream -> Seq(Line)]
  /\ reader \in [Stream -> {"scan", "done"}] /\ watcher \in {"run", "done"}
  /\ lines \in Seq(Line) /\ Len(lines) <= LinesCap
  /\ buff \in Seq(Line) /\ prev \in Stream \cup {"none"}
  /\ beat \in {"none", "run", "done"}
  /\ spec \in {"created", "started", "terminated"} 
  /\ pidfile \in {"none", "empty", "full"} /\ exitfile \in {"none", "empty", "full"}
  /\ file \in [Stream -> Nat]
  /\ sent \in Seq([subject : Stream, line : Line])
  /\ beats \in 0..MaxBeats /\ exitsent \in BOOLEAN /\ fails \in 0..MaxFails
  /\ ask \in {"idle", "started", "pid", "code"} /\ runs \in BOOLEAN /\ told \in 0..2

\* What watchOutput() was given: submitted, in the buffer, or in the channel.
Way == [i \in DOMAIN sent |-> sent[i].line] \o buff \o lines

\* How many of the first i lines of a sequence are of stream s.
CountOf(s, list, i) == Cardinality({j \in 1..i : list[j].origin = s})

\* The lines that a reader took out of its pipe keep their places: among what
\* was submitted, is buffered, in the channel and in the scanner a line has
\* the number it was written with, none twice, and without a long line
\* together they make the file.
NothingSkipped ==
  track =>
    \A s \in Stream :
      LET taken == CountOf(s, Way, Len(Way))
      IN /\ \A i \in DOMAIN Way : Way[i].origin = s => Way[i].n = CountOf(s, Way, i)
         /\ \A i \in DOMAIN scanned[s] : scanned[s][i].n = taken + i
         /\ longs = 0 => taken + Len(scanned[s]) = file[s]

\* What the collector leaves behind was not submitted because a submission failed.
LeftByFailure == watcher = "done" /\ fails = 0 => buff = <<>> /\ lines = <<>>

\* Output is submitted under the subject of its stream, unless a submission
\* failed: then lines of both streams share the buffer, and those of the other
\* stream go before a line of the stream they are submitted under.
OwnSubject ==
  \A i \in DOMAIN sent :
    sent[i].subject # sent[i].line.origin =>
       fails > 0 /\ \E j \in DOMAIN sent : j > i /\ sent[j].subject = sent[i].subject
                                            /\ sent[j].line.origin = sent[i].subject

\* The numbers of the lines that are submitted are in their places, nothing is
\* skipped but what a failed submission left at the end, and the subject is
\* the right one but for what a failed submission left in the buffer.  Of the
\* bytes of a line this says nothing: they may be overwritten, and what the
\* readers never took is lost (OutputComplete).
OutputInPlace == NothingSkipped /\ LeftByFailure /\ OwnSubject

\* The record of the exit is the last thing submitted: who sees it has seen
\* all the output and heartbeats there will be.
ExitIsLast == [][exitsent => UNCHANGED <<sent, beats>>]_supervisorVars

\* What statusAction() tells of a job goes forward only, though it looks at
\* it at four moments and at files that are being written: a job that was told
\* to run was started, one whose exit code was told never runs again.  (A pid
\* that the system gave to another process is left out.)
StatusAdvances == [][told' >= told]_supervisorVars

\* The supervisor of a command that ended, or one that was interrupted, comes
\* to an end itself: no goroutine waits for another for ever.
Ends == (child = "exited" \/ cancelled) ~> ~Active

\* A command is not held up for ever by a full pipe, unless one of its lines
\* was too long and ended the reader.
NotHeldUp ==
  \A s \in Stream : (Len(ospipe[s]) = PipeCap) ~> (Len(ospipe[s]) < PipeCap \/ longs > 0 \/ closed \/ ~Active)

\* "Tracks command output and Submit to Choria": a job that ended normally,
\* whose submissions worked, submitted all that the command wrote.  Not so:
\* Process.Wait() does not wait for the goroutines that copy the output, and
\* a line can be overwritten in the scanner before it is copied.
OutputComplete ==
  sup = "done" /\ track /\ longs = 0 /\ fails = 0 =>
     /\ \A s \in Stream : Cardinality({i \in DOMAIN sent : sent[i].line.origin = s}) = written[s]
     /\ \A i \in DOMAIN sent : ~sent[i].line.bad

=============================================================================
