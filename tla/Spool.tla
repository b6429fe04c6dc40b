------------------------------- MODULE Spool --------------------------------
(***************************************************************************)
(* The submission spool (submission): messages are files in a directory,   *)
(* written by any number of processes (choria pending, the exec supervisor) *)
(* and published by a worker of the server that polls the directory.       *)
(*                                                                         *)
(* There is one directory, one worker and one skip list per priority and   *)
(* they share nothing, so this is the spool of one priority.               *)
(*                                                                         *)
(* A file carries the message, its Tries and its NextTry.  The name of a   *)
(* file begins with the time at which Submit() made it up, before the file *)
(* was renamed to it.  Time counts these two events of every message.      *)
(* NextTry is abstracted to "in the future or not".                        *)
(***************************************************************************)
EXTENDS Naturals, FiniteSets

CONSTANTS
  Msg,          \* the messages
  Reliable,     \* those with the Reliable flag
  Signed,       \* those with the Sign flag: building them can fail
  Submitters,   \* how many processes can be in Submit() at a time
  SpoolMax,     \* spoolMax: configured number of entries
  MaxTries,     \* Message.MaxTries
  MaxFaults     \* bound on crashes of the server and failing file operations

ASSUME SpoolAssumption ==
  /\ IsFiniteSet(Msg)
  /\ Reliable \subseteq Msg /\ Signed \subseteq Msg
  /\ Submitters \in Nat \ {0} /\ SpoolMax \in Nat
  /\ MaxTries \in Nat \ {0}
  /\ MaxFaults \in Nat

VARIABLES
  \* the directory
  dir,           \* the messages that have a file
  name,          \* the time in the name of a file, 0 before it has one
  tries,         \* Tries, as the file has it
  waiting,       \* messages whose NextTry is in the future
  torn,          \* messages whose file does not parse
  \* the submitters
  pending,       \* messages that passed the check for a full spool
  \* the worker
  pc,            \* "idle", "handle", "discard", "retry", "rewrite"
  batch,         \* messages processDir handed to the handler, not yet done
  skipReliable,  \* a reliable message of this batch failed
  skipList,      \* paths processDir ignores
  \* the world
  expired,       \* messages that were found to be older than their TTL
  sent,          \* how often a message was published
  stored,        \* place of a message in the stream, 0 before it is there
  \* history
  placed,        \* when a file was renamed into the directory, 0 before
  damaged,       \* messages whose file could not be read, or written to the end
  overlooked,    \* messages a poll did not see, though they have a file
  miscounts,     \* how often Submit() could not count the entries
  crashes,
  failures

files     == <<dir, name, tries, waiting, torn>>
worker    == <<pc, batch, skipReliable, skipList>>
network   == <<sent, stored>>
history   == <<placed, damaged, overlooked, miscounts, crashes, failures>>
vars      == <<files, pending, worker, network, expired, history>>

-----------------------------------------------------------------------------
(* Submit().                                                               *)

\* Names of files are base names, the skip list holds whole paths.
Path(m) == <<"P", m>>

Now == 1 + Cardinality({m \in Msg : name[m] # 0}) + Cardinality({m \in Msg : placed[m] # 0})

\* Variant for mutation: a full spool is not refused.
SubmitCountAny(m) ==
  /\ Cardinality(pending) < Submitters
  /\ m \notin pending /\ name[m] = 0
  /\ pending' = pending \cup {m}
  /\ UNCHANGED <<files, worker, network, expired, history>>

\* The message is valid and the spool not full, or Submit() returns an error
\* and nothing happens; the file is yet to be made.
SubmitCount(m) ==
  /\ Cardinality(pending) < Submitters
  /\ m \notin pending /\ name[m] = 0
  /\ Cardinality(dir) <= SpoolMax
  /\ pending' = pending \cup {m}
  /\ UNCHANGED <<files, worker, network, expired, history>>

\* countEntries() takes a directory, or an entry, that it cannot read for one
\* that is not there: a full spool takes the message.
SubmitMiscount(m) ==
  /\ Cardinality(pending) < Submitters
  /\ m \notin pending /\ name[m] = 0
  /\ Cardinality(dir) > SpoolMax
  /\ crashes + failures < MaxFaults
  /\ failures' = failures + 1
  /\ miscounts' = miscounts + 1
  /\ pending' = pending \cup {m}
  /\ UNCHANGED <<files, worker, network, expired, placed, damaged, overlooked, crashes>>

\* newMsgPath(): the temporary file is complete and gets its name ...
SubmitName(m) ==
  /\ m \in pending /\ name[m] = 0
  /\ name' = [name EXCEPT ![m] = Now]
  /\ UNCHANGED <<dir, tries, waiting, torn, pending, worker, network, expired, history>>

\* ... and is renamed into the directory.
SubmitRename(m) ==
  /\ m \in pending /\ name[m] # 0
  /\ dir' = dir \cup {m}
  /\ placed' = [placed EXCEPT ![m] = Now]
  /\ pending' = pending \ {m}
  /\ UNCHANGED <<name, tries, waiting, torn, worker, network, expired, damaged, overlooked,
                 miscounts, crashes, failures>>

\* The temporary file cannot be made or renamed, or the submitter dies: what
\* is left of it is not in the directory of a priority.
SubmitFails(m) ==
  /\ m \in pending
  /\ pending' = pending \ {m}
  /\ UNCHANGED <<files, worker, network, expired, history>>

-----------------------------------------------------------------------------
(* processDir(): one pass over the directory.                              *)

Skipped(found) == {m \in found : Path(m) \in skipList}

\* Files to be removed without being handed to the handler: those that cannot
\* be read or parsed, and those with no tries left.
Unwanted(found, unread) ==
  {m \in found \ Skipped(found) : m \in unread \cup torn \/ tries[m] >= MaxTries}

\* Variant for mutation: the comparison with NextTry is the wrong way round.
DeferredOnceDue == {m \in dir : m \notin waiting /\ tries[m] > 0}

Deferred == {m \in dir : m \in waiting /\ tries[m] > 0}

\* compactSkipList(): keeps the entries that are in found.
Compacted(list, found) == {p \in list : p \in found}

\* A tick of the poll ticker.  Files that are not found could not be looked at,
\* those in unread not be read, and those in stay not be removed.  When the
\* directory cannot be read a poll does nothing.
Poll(found, unread, stay) ==
  LET unwanted == Unwanted(found, unread)
      skipped  == Skipped(found)
  IN /\ pc = "idle"
     /\ stay \subseteq skipped \cup unwanted
     /\ failures' = failures + Cardinality(dir \ found) + Cardinality(unread) + Cardinality(stay)
     /\ crashes + failures' <= MaxFaults
     /\ dir' = dir \ ((skipped \cup unwanted) \ stay)
     /\ skipList' = Compacted(skipList \cup {Path(m) : m \in stay \ skipped}, found)
     /\ damaged' = damaged \cup unread
     /\ overlooked' = overlooked \cup (dir \ found)
     /\ batch' = found \ (skipped \cup unwanted \cup Deferred)
     /\ pc' = IF batch' = {} THEN "idle" ELSE "handle"
     /\ skipReliable' = FALSE
     /\ UNCHANGED <<name, tries, waiting, torn, pending, network, expired, placed, miscounts, crashes>>

PollDir ==
  \E found \in SUBSET dir : \E unread \in SUBSET (found \ Skipped(found)), stay \in SUBSET found :
    Poll(found, unread, stay)

-----------------------------------------------------------------------------
(* The handler of Spool.Run().                                             *)

\* Variant for mutation: the sort is the wrong way round.
CurrentNewest == CHOOSE m \in batch : \A o \in batch : name[m] >= name[o]

\* Files are handled in the order of their names.
Oldest == {m \in batch : \A o \in batch : name[m] <= name[o]}

Current == CHOOSE m \in Oldest : TRUE

\* The handler continues with the next message.
Advance ==
  /\ batch' = batch \ {Current}
  /\ pc' = IF batch' = {} THEN "idle" ELSE "handle"

\* NatsMessage() fails: the message cannot be signed, or it has outlived its
\* TTL, which nobody looks at before.
HandleInvalid ==
  /\ pc = "handle"
  /\ \/ Current \in Signed /\ UNCHANGED expired
     \/ expired' = expired \cup {Current}
  /\ pc' = "discard"
  /\ UNCHANGED <<files, pending, batch, skipReliable, skipList, network, history>>

\* One attempt at an unreliable message, whatever comes of it.
PublishUnreliable ==
  /\ pc = "handle"
  /\ Current \notin expired \cup Reliable
  /\ sent' = [sent EXCEPT ![Current] = @ + 1]
  /\ pc' = "discard"
  /\ UNCHANGED <<files, pending, batch, skipReliable, skipList, stored, expired,
                 history>>

SkipReliable ==
  /\ pc = "handle"
  /\ Current \in Reliable \ expired
  /\ skipReliable
  /\ Advance
  /\ UNCHANGED <<files, pending, skipReliable, skipList, network, expired, history>>

\* Request to a JetStream stream, which stores a message ID once (external).
Store(m) ==
  stored' = IF stored[m] # 0 THEN stored
            ELSE [stored EXCEPT ![m] = 1 + Cardinality({o \in Msg : stored[o] # 0})]

\* publishReliable() gets its acknowledgement.
PublishReliable ==
  /\ pc = "handle"
  /\ Current \in Reliable \ expired
  /\ ~skipReliable
  /\ sent' = [sent EXCEPT ![Current] = @ + 1]
  /\ Store(Current)
  /\ pc' = "discard"
  /\ UNCHANGED <<files, pending, batch, skipReliable, skipList, expired, history>>

\* Variant for mutation: a failed message is discarded like an unreliable one.
PublishFailsForGood ==
  /\ pc = "handle"
  /\ Current \in Reliable \ expired
  /\ ~skipReliable
  /\ sent' = [sent EXCEPT ![Current] = @ + 1]
  /\ UNCHANGED stored \/ Store(Current)
  /\ skipReliable' = TRUE
  /\ pc' = "discard"
  /\ UNCHANGED <<files, pending, batch, skipList, expired, history>>

\* publishReliable() fails: the message was not stored, or it was and the
\* acknowledgement did not arrive in time.  IncrementTries() discards it when
\* this was the last try.
PublishFails ==
  /\ pc = "handle"
  /\ Current \in Reliable \ expired
  /\ ~skipReliable
  /\ sent' = [sent EXCEPT ![Current] = @ + 1]
  /\ UNCHANGED stored \/ Store(Current)
  /\ skipReliable' = TRUE
  /\ pc' = IF tries[Current] + 1 >= MaxTries THEN "discard" ELSE "retry"
  /\ UNCHANGED <<files, pending, batch, skipList, expired, history>>

\* removeCompletedWithSkip(), called by Discard() and IncrementTries().
Discard ==
  /\ pc = "discard"
  /\ Advance
  /\ \/ /\ dir' = dir \ {Current}
        /\ UNCHANGED <<skipList, failures>>
     \/ /\ crashes + failures < MaxFaults
        /\ failures' = failures + 1
        /\ skipList' = skipList \cup {Path(Current)}
        /\ UNCHANGED dir
  /\ UNCHANGED <<name, tries, waiting, torn, pending, skipReliable, network, expired,
                 placed, damaged, overlooked, miscounts, crashes>>

\* os.WriteFile() truncates the file, and then fills it.
Truncate ==
  /\ pc = "retry"
  /\ pc' = "rewrite"
  /\ torn' = torn \cup {Current}
  /\ UNCHANGED <<dir, name, tries, waiting, pending, batch, skipReliable, skipList,
                 network, expired, history>>

\* Variant for mutation: the file keeps the old count.
RewriteUncounted ==
  /\ pc = "rewrite"
  /\ Advance
  /\ torn' = torn \ {Current}
  /\ waiting' = waiting \cup {Current}
  /\ UNCHANGED <<dir, name, tries, pending, skipReliable, skipList, network, expired,
                 history>>

Rewrite ==
  /\ pc = "rewrite"
  /\ Advance
  /\ torn' = torn \ {Current}
  /\ tries' = [tries EXCEPT ![Current] = @ + 1]
  /\ waiting' = waiting \cup {Current}
  /\ UNCHANGED <<dir, name, pending, skipReliable, skipList, network, expired, history>>

\* IncrementTries() cannot write the file and discards the message.
WriteFails ==
  /\ pc \in {"retry", "rewrite"}
  /\ crashes + failures < MaxFaults
  /\ failures' = failures + 1
  /\ pc' = "discard"
  /\ damaged' = damaged \cup {Current}
  /\ UNCHANGED <<files, pending, batch, skipReliable, skipList, network, expired,
                 placed, overlooked, miscounts, crashes>>

-----------------------------------------------------------------------------
(* The server and time.                                                    *)

\* The server dies and starts again; the files stay as they are.
Crash ==
  /\ crashes + failures < MaxFaults
  /\ crashes' = crashes + 1
  /\ pc' = "idle"
  /\ batch' = {}
  /\ skipReliable' = FALSE
  /\ skipList' = {}
  /\ damaged' = damaged \cup torn
  /\ UNCHANGED <<files, pending, network, expired, placed, overlooked, miscounts, failures>>

\* NextTry of a message is reached.
Due(m) ==
  /\ m \in waiting
  /\ waiting' = waiting \ {m}
  /\ UNCHANGED <<dir, name, tries, torn, pending, worker, network, expired, history>>

-----------------------------------------------------------------------------
Init ==
  /\ dir = {}
  /\ name = [m \in Msg |-> 0]
  /\ tries = [m \in Msg |-> 0]
  /\ waiting = {}
  /\ torn = {}
  /\ pending = {}
  /\ pc = "idle"
  /\ batch = {}
  /\ skipReliable = FALSE
  /\ skipList = {}
  /\ expired = {}
  /\ sent = [m \in Msg |-> 0]
  /\ stored = [m \in Msg |-> 0]
  /\ placed = [m \in Msg |-> 0]
  /\ damaged = {}
  /\ overlooked = {}
  /\ miscounts = 0
  /\ crashes = 0
  /\ failures = 0

\* What the worker does with the file it is at.
Handle ==
  \/ HandleInvalid
  \/ PublishUnreliable
  \/ SkipReliable
  \/ PublishReliable
  \/ PublishFails
  \/ Discard
  \/ Truncate
  \/ Rewrite
  \/ WriteFails

Next ==
  \/ \E m \in Msg : \/ SubmitCount(m) \/ SubmitMiscount(m)
                    \/ SubmitName(m) \/ SubmitRename(m) \/ SubmitFails(m)
  \/ PollDir
  \/ Handle
  \/ Crash
  \/ \E m \in Msg : Due(m)

Spec == Init /\ [][Next]_vars

\* The ticker ticks, the handler gets on with its work, time passes.
Fairness ==
  /\ WF_vars(PollDir)
  /\ WF_vars(Handle)
  /\ \A m \in Msg : WF_vars(Due(m))

FairSpec == Spec /\ Fairness

-----------------------------------------------------------------------------
(* Properties.                                                             *)

\* In particular no file ever holds a message that has used up its tries.
TypeOK ==
  /\ dir \subseteq Msg /\ waiting \subseteq Msg /\ torn \subseteq Msg
  /\ pending \subseteq Msg /\ batch \subseteq Msg /\ expired \subseteq Msg
  /\ damaged \subseteq Msg /\ overlooked \subseteq Msg
  /\ name \in [Msg -> Nat] /\ placed \in [Msg -> Nat]
  /\ tries \in [Msg -> 0..(MaxTries - 1)]
  /\ pc \in {"idle", "handle", "discard", "retry", "rewrite"}
  /\ skipReliable \in BOOLEAN
  /\ skipList \subseteq {Path(m) : m \in Msg}
  /\ sent \in [Msg -> Nat]
  /\ stored \in [Msg -> Nat]
  /\ crashes \in Nat /\ failures \in Nat /\ crashes + failures <= MaxFaults
  /\ miscounts \in 0..failures

Submitted == {m \in Msg : placed[m] # 0}

\* A reliable message that Submit() accepted leaves the spool only when the
\* stream has it, its TTL has passed, it could not be signed, or all its tries
\* were used, unless its file could not be read or a write to it failed or was
\* interrupted: processDir() and IncrementTries() then discard it.
NothingLost ==
  \A m \in (Submitted \cap Reliable) \ (dir \cup expired \cup Signed \cup damaged) :
    stored[m] # 0 \/ sent[m] >= MaxTries

\* How often the code means to publish a message.
Allowed(m) == IF m \in Reliable THEN MaxTries ELSE 1

\* No message is published more often than MaxTries says, or more than once
\* when it is unreliable, except once more for each crash before the outcome
\* reached the disk and for each file that could not be removed or written.
AttemptsBounded == \A m \in Msg : sent[m] <= Allowed(m) + crashes + failures

\* A reliable message whose Submit() returned before that of another began to
\* name its file reaches the stream first, except that one whose first attempt
\* failed can be overtaken.  So can one that could not be signed or read at
\* first, when its file could not be removed: the skip list forgets it, and a
\* later poll tries it again; and one that a poll did not see.
OnlyRetriesAreOvertaken ==
  \A a \in Reliable \ (Signed \cup damaged \cup overlooked), b \in Reliable :
    /\ placed[a] # 0 /\ placed[a] < name[b]
    /\ stored[b] # 0 /\ stored[b] < stored[a]
    => sent[a] > 1

\* The entries of a priority exceed the limit by at most the submitters that
\* passed the check for it at the same time, and one for each time that the
\* entries could not be counted.
SpoolBounded == Cardinality(dir) <= SpoolMax + Submitters + miscounts

\* Every file leaves the spool: with finitely many submissions it is empty
\* again and again, whatever failed.
SpoolDrains == []<>(dir = {})

\* "if any reliable message fails we skip all future reliable messages to
\* preserve order of reliable messages".  Not so: a message whose retry is
\* not due is left out by the next poll, which publishes the later ones.
ReliableOrder ==
  \A a, b \in Reliable :
    placed[a] # 0 /\ placed[a] < name[b] /\ stored[a] # 0 /\ stored[b] # 0
    => stored[a] < stored[b]

\* "files we cant remove, cant write to or just generally cause hassles will
\* be added here for a ephemeral list of files just to ignore".  Not so: the
\* skip list is keyed by path, compactSkipList() looks up base names.
IgnoredStaysIgnored ==
  [][\A m \in dir' : Path(m) \in skipList => Path(m) \in skipList' \/ crashes' # crashes]_vars
=============================================================================
