----------------------------- MODULE SpoolProofs ----------------------------
(***************************************************************************)
(* Proofs about Spool, for any number of messages, submitters, crashes and *)
(* failures.                                                               *)
(*                                                                         *)
(* The first part bounds the entries.  The second follows a message from   *)
(* its submission on: Inv says what a file, the worker and the skip list   *)
(* tell of a message at every moment.                                      *)
(***************************************************************************)
EXTENDS Spool, FiniteSetTheorems, WellFoundedInduction, TLAPS

\* The part of TypeOK the bound needs.
FilesTyped == dir \subseteq Msg /\ pending \subseteq Msg /\ miscounts \in Nat

\* Every submitter that passed the check for room may add one entry.
EntriesInv ==
  /\ Cardinality(pending) <= Submitters
  /\ Cardinality(dir) + Cardinality(pending) <= SpoolMax + Submitters + miscounts

BoundInv == FilesTyped /\ EntriesInv

LEMMA FiniteParts ==
  ASSUME FilesTyped
  PROVE  /\ IsFiniteSet(dir) /\ Cardinality(dir) \in Nat
         /\ IsFiniteSet(pending) /\ Cardinality(pending) \in Nat
BY SpoolAssumption, FS_Subset, FS_CardinalityType DEF FilesTyped

\* Entries only leave: the bound stays.
LEMMA Shrinking ==
  ASSUME BoundInv, dir' \subseteq dir, UNCHANGED <<pending, miscounts>>
  PROVE  BoundInv'
<1>1. FilesTyped'
  BY DEF BoundInv, FilesTyped
<1>2. Cardinality(dir') <= Cardinality(dir) /\ Cardinality(dir') \in Nat
  BY FiniteParts, FS_Subset, FS_CardinalityType DEF BoundInv
<1>3. EntriesInv'
  BY <1>2, FiniteParts, SpoolAssumption DEF BoundInv, EntriesInv, FilesTyped
<1> QED
  BY <1>1, <1>3 DEF BoundInv

\* A submitter that saw room, or could not count, goes on.
LEMMA CountStep ==
  ASSUME BoundInv, NEW m \in Msg, SubmitCount(m) \/ SubmitMiscount(m)
  PROVE  BoundInv'
<1> USE DEF SubmitCount, SubmitMiscount, files, history
<1>1. FilesTyped'
  BY DEF BoundInv, FilesTyped
<1>2. Cardinality(pending') = Cardinality(pending) + 1 /\ Cardinality(pending) < Submitters
  BY FiniteParts, FS_AddElement DEF BoundInv
<1>3. /\ Cardinality(dir') = Cardinality(dir)
      /\ (miscounts' = miscounts /\ Cardinality(dir) <= SpoolMax) \/ miscounts' = miscounts + 1
  OBVIOUS
<1>4. EntriesInv'
  BY <1>2, <1>3, FiniteParts, SpoolAssumption DEF BoundInv, EntriesInv, FilesTyped
<1> QED
  BY <1>1, <1>4 DEF BoundInv

LEMMA RenameStep ==
  ASSUME BoundInv, NEW m \in Msg, SubmitRename(m) \/ SubmitFails(m)
  PROVE  BoundInv'
<1> USE DEF SubmitRename, SubmitFails, files, history
<1>1. FilesTyped'
  BY DEF BoundInv, FilesTyped
<1>2. m \in pending /\ pending' = pending \ {m} /\ miscounts' = miscounts
  OBVIOUS
<1>3. Cardinality(pending') = Cardinality(pending) - 1
  BY <1>2, FiniteParts, FS_RemoveElement DEF BoundInv
<1>4. Cardinality(dir') \in {Cardinality(dir), Cardinality(dir) + 1}
  BY FiniteParts, FS_AddElement DEF BoundInv
<1>5. EntriesInv'
  BY <1>2, <1>3, <1>4, FiniteParts, SpoolAssumption DEF BoundInv, EntriesInv, FilesTyped
<1> QED
  BY <1>1, <1>5 DEF BoundInv

LEMMA BoundStep ==
  ASSUME BoundInv, [Next]_vars
  PROVE  BoundInv'
<1>1. ASSUME NEW m \in Msg, SubmitCount(m) \/ SubmitMiscount(m) PROVE BoundInv'
  BY <1>1, CountStep
<1>2. ASSUME NEW m \in Msg, SubmitRename(m) \/ SubmitFails(m) PROVE BoundInv'
  BY <1>2, RenameStep
<1>3. ASSUME NEW m \in Msg, SubmitName(m) \/ Due(m) PROVE BoundInv'
  BY <1>3, Shrinking DEF SubmitName, Due, history
<1>4. CASE PollDir
  BY <1>4, Shrinking DEF PollDir, Poll
<1>5. CASE Handle
  BY <1>5, Shrinking DEF Handle, HandleInvalid, PublishUnreliable, SkipReliable,
     PublishReliable, PublishFails, Discard, Truncate, Rewrite, WriteFails, files, history
<1>6. CASE Crash
  BY <1>6, Shrinking DEF Crash, files
<1>7. CASE UNCHANGED vars
  BY <1>7, Shrinking DEF vars, files, history
<1> QED
  BY <1>1, <1>2, <1>3, <1>4, <1>5, <1>6, <1>7 DEF Next

\* However many submitters race each other, a priority never holds more than
\* spoolMax entries, one for each of them and one for each time the entries
\* could not be counted.
THEOREM SpoolNeverOverfull == Spec => []SpoolBounded
<1>1. Init => BoundInv
  <2> SUFFICES ASSUME Init PROVE BoundInv
    OBVIOUS
  <2>1. FilesTyped
    BY DEF Init, FilesTyped
  <2>2. Cardinality(dir) = 0 /\ Cardinality(pending) = 0
    BY FS_EmptySet DEF Init
  <2> QED
    BY <2>1, <2>2, SpoolAssumption DEF BoundInv, EntriesInv, FilesTyped
<1>2. BoundInv => SpoolBounded
  BY FiniteParts, SpoolAssumption DEF BoundInv, EntriesInv, SpoolBounded, FilesTyped
<1> QED
  BY <1>1, <1>2, BoundStep, PTL DEF Spec

-----------------------------------------------------------------------------
(* The inductive invariant.                                                *)

\* Who has a batch works on it, and its messages have files.
Working == (pc # "idle" <=> batch # {}) /\ batch \subseteq dir

\* A file has a name before it is in place, and is in place before it is seen.
Named ==
  /\ \A m \in dir : placed[m] # 0
  /\ \A m \in Msg : placed[m] # 0 => name[m] # 0 /\ m \notin pending
  /\ \A m \in Msg : placed[m] = 0 => sent[m] = 0

\* The worker has dealt with this message, and its file does not tell yet.
InHand(m) == pc \in {"discard", "retry", "rewrite"} /\ m = Current

\* The tries a file tells of were made; of the others each is in hand, was
\* the last, or is owed to a crash or a failure.
Counts ==
  \A m \in Msg :
    /\ tries[m] <= sent[m]
    /\ pc \in {"retry", "rewrite"} /\ m = Current
       => m \in Reliable /\ tries[m] + 1 <= sent[m] /\ tries[m] + 1 < MaxTries
    /\ m \notin Reliable => tries[m] = 0
    /\ sent[m] <= tries[m] + crashes + failures + 1
    /\ m \in dir /\ ~InHand(m) => sent[m] <= tries[m] + crashes + failures

\* A message that may leave the spool.
MayGo(m) ==
  \/ m \notin Reliable
  \/ m \in expired \cup Signed \cup damaged
  \/ stored[m] # 0
  \/ sent[m] >= MaxTries

\* What left, is to be ignored or is being removed may leave, and a file does
\* not parse only while it is rewritten or when it is damaged.
Accounted ==
  /\ \A m \in Submitted \ dir : MayGo(m)
  /\ \A m \in Msg : Path(m) \in skipList => MayGo(m)
  /\ pc = "discard" => MayGo(Current)
  /\ \A m \in torn : m \in damaged \/ (pc = "rewrite" /\ m = Current)

Inv == TypeOK /\ Working /\ Named /\ Counts /\ Accounted

LEMMA Least ==
  ASSUME NEW T, T \subseteq Nat, T # {}
  PROVE  \E x \in T : \A y \in T : x <= y
<1> DEFINE R == OpToRel(<, Nat)
<1>1. IsWellFoundedOn(R, Nat)
  BY NatLessThanWellFounded
<1>2. \A x, y \in Nat : x < y => <<x, y>> \in R
  BY DEF OpToRel
<1> HIDE DEF R
<1>3. PICK x \in T : \A y \in T : ~(<<y, x>> \in R)
  BY <1>1, WFMin
<1>4. ASSUME NEW y \in T PROVE x <= y
  <2>1. x \in Nat /\ y \in Nat
    OBVIOUS
  <2>2. ~(y < x)
    BY <1>2, <1>3, <2>1
  <2> QED
    BY <2>1, <2>2
<1> QED
  BY <1>4

\* A worker with a batch is at one of its messages.
LEMMA CurrentIsThere ==
  ASSUME TypeOK, batch # {}
  PROVE  Current \in batch
<1> DEFINE T == {name[m] : m \in batch}
<1>1. T \subseteq Nat /\ T # {}
  BY DEF TypeOK
<1> HIDE DEF T
<1>2. PICK x \in T : \A y \in T : x <= y
  BY <1>1, Least
<1>3. PICK c \in batch : name[c] = x
  BY <1>2 DEF T
<1>4. c \in Oldest
  BY <1>2, <1>3 DEF T, Oldest
<1>5. Current \in Oldest
  BY <1>4 DEF Current
<1> QED
  BY <1>5 DEF Oldest

\* It stays there while the batch and the names of its files stay.
LEMMA CurrentStays ==
  ASSUME batch' = batch, \A m \in batch : name'[m] = name[m]
  PROVE  Current' = Current
<1>1. Oldest' = Oldest
  BY DEF Oldest
<1> QED
  BY <1>1 DEF Current

LEMMA AtWork ==
  ASSUME Inv, pc # "idle"
  PROVE  Current \in batch /\ Current \in dir /\ Current \in Msg
BY CurrentIsThere DEF Inv, Working, TypeOK

\* Counting messages gives a number.
LEMMA Counting ==
  ASSUME NEW S \in SUBSET Msg
  PROVE  1 + Cardinality(S) \in Nat /\ 1 + Cardinality(S) # 0
<1>1. IsFiniteSet(S)
  BY SpoolAssumption, FS_Subset
<1>2. Cardinality(S) \in Nat
  BY <1>1, FS_CardinalityType
<1> QED
  BY <1>2

LEMMA Storing ==
  ASSUME TypeOK, NEW c \in Msg, Store(c)
  PROVE  /\ stored' \in [Msg -> Nat]
         /\ stored'[c] # 0
         /\ \A m \in Msg : stored[m] # 0 => stored'[m] # 0
<1> DEFINE k == 1 + Cardinality({o \in Msg : stored[o] # 0})
<1>1. k \in Nat /\ k # 0
  BY Counting
<1>2. stored' = IF stored[c] # 0 THEN stored ELSE [stored EXCEPT ![c] = k]
  BY DEF Store
<1> HIDE DEF k
<1> QED
  BY <1>1, <1>2 DEF TypeOK

\* The clock shows a time.
LEMMA Clock == Now \in Nat /\ Now # 0
<1> DEFINE N == {m \in Msg : name[m] # 0}
           P == {m \in Msg : placed[m] # 0}
<1>1. Cardinality(N) \in Nat /\ Cardinality(P) \in Nat
  BY SpoolAssumption, FS_Subset, FS_CardinalityType
<1>2. Now = 1 + Cardinality(N) + Cardinality(P)
  BY DEF Now
<1> HIDE DEF N, P
<1> QED
  BY <1>1, <1>2

LEMMA PollPicks ==
  ASSUME PollDir
  PROVE  \E found \in SUBSET dir, unread \in SUBSET dir, stay \in SUBSET dir : Poll(found, unread, stay)
<1>1. PICK found \in SUBSET dir : \E unread \in SUBSET (found \ Skipped(found)), stay \in SUBSET found :
        Poll(found, unread, stay)
  BY DEF PollDir
<1>2. PICK unread \in SUBSET (found \ Skipped(found)), stay \in SUBSET found : Poll(found, unread, stay)
  BY <1>1
<1>3. unread \in SUBSET dir /\ stay \in SUBSET dir
  BY <1>1, <1>2
<1> QED
  BY <1>2, <1>3

\* Whatever a poll cannot do is a failure.
LEMMA FaultsGrow ==
  ASSUME TypeOK, NEW found \in SUBSET dir, NEW unread \in SUBSET dir, NEW stay \in SUBSET dir,
         Poll(found, unread, stay)
  PROVE  failures' \in Nat /\ failures' >= failures /\ crashes + failures' <= MaxFaults
<1>1. IsFiniteSet(dir)
  BY SpoolAssumption, FS_Subset DEF TypeOK
<1>2. /\ Cardinality(dir \ found) \in Nat /\ Cardinality(unread) \in Nat /\ Cardinality(stay) \in Nat
  BY <1>1, FS_Subset, FS_CardinalityType
<1>3. /\ failures' = failures + Cardinality(dir \ found) + Cardinality(unread) + Cardinality(stay)
      /\ crashes + failures' <= MaxFaults
  BY DEF Poll
<1>4. failures \in Nat
  BY DEF TypeOK
<1> QED
  BY <1>2, <1>3, <1>4

\* A submitter that names or renames its file does not disturb the worker.
LEMMA Submitting ==
  ASSUME Inv, NEW m \in Msg, SubmitName(m) \/ SubmitRename(m)
  PROVE  /\ m \notin batch /\ sent[m] = 0
         /\ UNCHANGED <<tries, torn, sent, stored, worker, damaged, overlooked, crashes, failures>>
         /\ UNCHANGED <<pc, batch, skipReliable, skipList>>
         /\ dir' \subseteq dir \cup {m}
         /\ Submitted' \ dir' \subseteq Submitted \ dir
         /\ \A o \in batch : name'[o] = name[o]
<1>1. TypeOK /\ Working /\ Named
  BY DEF Inv
<1>2. m \in pending /\ placed[m] = 0 /\ sent[m] = 0 /\ m \notin batch
  BY <1>1 DEF SubmitName, SubmitRename, Named, Working
<1>3. /\ UNCHANGED <<tries, torn, sent, stored, worker, damaged, overlooked, crashes, failures>>
      /\ UNCHANGED <<pc, batch, skipReliable, skipList>>
  BY DEF SubmitName, SubmitRename, worker, network, history
<1>4. \A o \in batch : name'[o] = name[o]
  BY <1>1, <1>2 DEF SubmitName, SubmitRename, TypeOK
<1>5. CASE SubmitName(m)
  BY <1>2, <1>3, <1>4, <1>5 DEF SubmitName, Submitted, history
<1>6. CASE SubmitRename(m)
  <2>1. dir' = dir \cup {m} /\ \A o \in Msg : o # m => placed'[o] = placed[o]
    BY <1>1, <1>6 DEF SubmitRename, TypeOK
  <2> QED
    BY <1>2, <1>3, <1>4, <2>1 DEF Submitted
<1> QED
  BY <1>5, <1>6

-----------------------------------------------------------------------------
(* Types.                                                                  *)

LEMMA TypeStep ==
  ASSUME Inv, [Next]_vars
  PROVE  TypeOK'
<1> USE DEF files, worker, network, history
<1>0. TypeOK
  BY DEF Inv
<1>c. crashes \in Nat /\ failures \in Nat /\ crashes + failures <= MaxFaults /\ miscounts \in 0..failures
      /\ MaxFaults \in Nat
  BY <1>0, SpoolAssumption DEF TypeOK
<1>1. ASSUME NEW m \in Msg, SubmitCount(m) \/ SubmitFails(m) \/ Due(m) PROVE TypeOK'
  BY <1>0, <1>1 DEF SubmitCount, SubmitFails, Due, TypeOK, Path
<1>2. ASSUME NEW m \in Msg, SubmitMiscount(m) PROVE TypeOK'
  <2>1. /\ failures' \in Nat /\ crashes' \in Nat /\ crashes' + failures' <= MaxFaults
        /\ miscounts' \in 0..failures'
    BY <1>2, <1>c DEF SubmitMiscount
  <2>2. /\ pending' \subseteq Msg
        /\ UNCHANGED <<files, worker, network, expired, placed, damaged, overlooked>>
    BY <1>0, <1>2 DEF SubmitMiscount, TypeOK
  <2> QED
    BY <1>0, <2>1, <2>2 DEF TypeOK, Path
<1>3. ASSUME NEW m \in Msg, SubmitName(m) \/ SubmitRename(m) PROVE TypeOK'
  <2>1. Now \in Nat
    BY Clock
  <2>2. name' \in [Msg -> Nat] /\ placed' \in [Msg -> Nat]
    BY <1>0, <1>3, <2>1 DEF SubmitName, SubmitRename, TypeOK
  <2>3. /\ dir' \subseteq Msg /\ pending' \subseteq Msg
        /\ UNCHANGED <<tries, waiting, torn, worker, network, expired, damaged, overlooked,
                       miscounts, crashes, failures>>
    BY <1>0, <1>3 DEF SubmitName, SubmitRename, TypeOK
  <2> QED
    BY <1>0, <2>2, <2>3 DEF TypeOK, Path
<1>4. CASE PollDir
  <2>1. PICK found \in SUBSET dir, unread \in SUBSET dir, stay \in SUBSET dir : Poll(found, unread, stay)
    BY <1>4, PollPicks
  <2>2. failures' \in Nat /\ failures' >= failures /\ crashes + failures' <= MaxFaults
    BY <1>0, <2>1, FaultsGrow
  <2>3. miscounts' \in 0..failures' /\ crashes' = crashes
    BY <1>c, <2>1, <2>2 DEF Poll
  <2>4. skipList' \subseteq {Path(m) : m \in Msg}
    BY <1>0, <2>1 DEF Poll, Compacted, TypeOK
  <2>5. /\ dir' \subseteq Msg /\ damaged' \subseteq Msg /\ overlooked' \subseteq Msg /\ batch' \subseteq Msg
    BY <1>0, <2>1 DEF Poll, TypeOK
  <2>6. /\ pc' \in {"idle", "handle"} /\ skipReliable' = FALSE
        /\ UNCHANGED <<name, tries, waiting, torn, pending, network, expired, placed>>
    BY <2>1 DEF Poll
  <2> QED
    BY <1>0, <1>c, <2>2, <2>3, <2>4, <2>5, <2>6 DEF TypeOK
<1>5. CASE HandleInvalid \/ SkipReliable
  BY <1>0, <1>5, AtWork DEF HandleInvalid, SkipReliable, Advance, TypeOK, Path
<1>6. CASE PublishUnreliable \/ PublishReliable \/ PublishFails
  <2>1. Current \in Msg
    BY <1>6, AtWork DEF PublishUnreliable, PublishReliable, PublishFails
  <2>2. stored' \in [Msg -> Nat]
    BY <1>0, <1>6, <2>1, Storing DEF PublishUnreliable, PublishReliable, PublishFails, TypeOK
  <2>3. sent' \in [Msg -> Nat]
    BY <1>0, <1>6, <2>1 DEF PublishUnreliable, PublishReliable, PublishFails, TypeOK
  <2>4. /\ pc' \in {"discard", "retry"} /\ skipReliable' \in BOOLEAN
        /\ UNCHANGED <<files, pending, batch, skipList, expired, history>>
    BY <1>0, <1>6 DEF PublishUnreliable, PublishReliable, PublishFails, TypeOK
  <2> QED
    BY <1>0, <2>2, <2>3, <2>4 DEF TypeOK
<1>7. CASE Discard
  <2>1. Current \in Msg
    BY <1>7, AtWork DEF Discard
  <2>2. skipList' \subseteq {Path(m) : m \in Msg}
    BY <1>0, <1>7, <2>1 DEF Discard, TypeOK
  <2>3. /\ failures' \in Nat /\ crashes' \in Nat /\ crashes' + failures' <= MaxFaults
        /\ miscounts' \in 0..failures'
    BY <1>c, <1>7 DEF Discard
  <2>4. /\ dir' \subseteq Msg /\ batch' \subseteq Msg /\ pc' \in {"idle", "handle"}
        /\ UNCHANGED <<name, tries, waiting, torn, pending, skipReliable, network, expired,
                       placed, damaged, overlooked>>
    BY <1>0, <1>7, <2>1 DEF Discard, Advance, TypeOK
  <2> QED
    BY <1>0, <2>2, <2>3, <2>4 DEF TypeOK
<1>8. CASE Truncate
  BY <1>0, <1>8, AtWork DEF Truncate, TypeOK, Path
<1>9. CASE Rewrite
  <2>1. Current \in Msg /\ tries[Current] + 1 < MaxTries
    BY <1>9, AtWork DEF Rewrite, Inv, Counts
  <2>2. tries' \in [Msg -> 0..(MaxTries - 1)]
    BY <1>0, <1>9, <2>1, SpoolAssumption DEF Rewrite, TypeOK
  <2>3. /\ waiting' \subseteq Msg /\ torn' \subseteq Msg /\ batch' \subseteq Msg /\ pc' \in {"idle", "handle"}
        /\ UNCHANGED <<dir, name, pending, skipReliable, skipList, network, expired, history>>
    BY <1>0, <1>9, <2>1 DEF Rewrite, Advance, TypeOK
  <2> QED
    BY <1>0, <2>2, <2>3 DEF TypeOK
<1>10. CASE WriteFails
  <2>1. Current \in Msg
    BY <1>10, AtWork DEF WriteFails
  <2>2. /\ failures' \in Nat /\ crashes' \in Nat /\ crashes' + failures' <= MaxFaults
        /\ miscounts' \in 0..failures'
    BY <1>c, <1>10 DEF WriteFails
  <2>3. /\ damaged' \subseteq Msg /\ pc' = "discard"
        /\ UNCHANGED <<files, pending, batch, skipReliable, skipList, network, expired, placed, overlooked>>
    BY <1>0, <1>10, <2>1 DEF WriteFails, TypeOK
  <2> QED
    BY <1>0, <2>2, <2>3 DEF TypeOK
<1>11. CASE Crash
  <2>1. /\ failures' \in Nat /\ crashes' \in Nat /\ crashes' + failures' <= MaxFaults
        /\ miscounts' \in 0..failures'
    BY <1>c, <1>11 DEF Crash
  <2>2. /\ pc' = "idle" /\ batch' = {} /\ skipReliable' = FALSE /\ skipList' = {}
        /\ damaged' \subseteq Msg
        /\ UNCHANGED <<files, pending, network, expired, placed, overlooked>>
    BY <1>0, <1>11 DEF Crash, TypeOK
  <2> QED
    BY <1>0, <2>1, <2>2 DEF TypeOK
<1>12. CASE UNCHANGED vars
  BY <1>0, <1>12 DEF vars, TypeOK, Path
<1> QED
  BY <1>1, <1>2, <1>3, <1>4, <1>5, <1>6, <1>7, <1>8, <1>9, <1>10, <1>11, <1>12 DEF Next, Handle

-----------------------------------------------------------------------------
(* The worker, names and what may leave.                                   *)

LEMMA WorkingStep ==
  ASSUME Inv, [Next]_vars
  PROVE  Working'
<1> USE DEF files, worker, network, history, Working
<1>0. Working
  BY DEF Inv
<1>1. CASE \E m \in Msg : SubmitCount(m) \/ SubmitMiscount(m) \/ SubmitName(m) \/ SubmitRename(m)
                          \/ SubmitFails(m) \/ Due(m)
  BY <1>0, <1>1 DEF SubmitCount, SubmitMiscount, SubmitName, SubmitRename, SubmitFails, Due
<1>2. CASE PollDir
  BY <1>2 DEF PollDir, Poll
<1>3. CASE HandleInvalid \/ PublishUnreliable \/ PublishReliable \/ PublishFails \/ Truncate \/ WriteFails
  BY <1>0, <1>3 DEF HandleInvalid, PublishUnreliable, PublishReliable, PublishFails, Truncate, WriteFails
<1>4. CASE SkipReliable \/ Discard \/ Rewrite
  BY <1>0, <1>4 DEF SkipReliable, Discard, Rewrite, Advance
<1>5. CASE Crash \/ UNCHANGED vars
  BY <1>0, <1>5 DEF Crash, vars
<1> QED
  BY <1>1, <1>2, <1>3, <1>4, <1>5 DEF Next, Handle

LEMMA NamedStep ==
  ASSUME Inv, [Next]_vars
  PROVE  Named'
<1> USE DEF files, worker, network, history, Named
<1>0. TypeOK /\ Named
  BY DEF Inv
<1>1. ASSUME NEW m \in Msg, SubmitCount(m) \/ SubmitMiscount(m) PROVE Named'
  <2>1. /\ pending' = pending \cup {m} /\ name[m] = 0
        /\ UNCHANGED <<dir, name, placed, sent>>
    BY <1>1 DEF SubmitCount, SubmitMiscount
  <2> QED
    BY <1>0, <2>1
<1>2. ASSUME NEW m \in Msg, SubmitName(m) PROVE Named'
  <2>1. name' = [name EXCEPT ![m] = Now] /\ UNCHANGED <<dir, pending, placed, sent>>
    BY <1>2 DEF SubmitName
  <2>2. \A o \in Msg : name[o] # 0 => name'[o] # 0
    BY <1>0, <2>1, Clock DEF TypeOK
  <2> QED
    BY <1>0, <2>1, <2>2
<1>3. ASSUME NEW m \in Msg, SubmitRename(m) PROVE Named'
  <2>1. /\ placed' = [placed EXCEPT ![m] = Now] /\ dir' = dir \cup {m} /\ pending' = pending \ {m}
        /\ name[m] # 0 /\ UNCHANGED <<name, sent>>
    BY <1>3 DEF SubmitRename
  <2>2. placed'[m] # 0 /\ \A o \in Msg : o # m => placed'[o] = placed[o]
    BY <1>0, <2>1, Clock DEF TypeOK
  <2>3. dir \subseteq Msg
    BY <1>0 DEF TypeOK
  <2> QED
    BY <1>0, <2>1, <2>2, <2>3
<1>4. CASE (\E m \in Msg : SubmitFails(m)) \/ PollDir \/ Discard
  <2>1. dir' \subseteq dir /\ pending' \subseteq pending /\ UNCHANGED <<name, placed, sent>>
    BY <1>4 DEF SubmitFails, PollDir, Poll, Discard
  <2> QED
    BY <1>0, <2>1
<1>5. CASE PublishUnreliable \/ PublishReliable \/ PublishFails
  <2>1. Current \in dir /\ Current \in Msg
    BY <1>5, AtWork DEF PublishUnreliable, PublishReliable, PublishFails
  <2>2. UNCHANGED <<dir, name, placed, pending>> /\ \A m \in Msg : m # Current => sent'[m] = sent[m]
    BY <1>0, <1>5, <2>1 DEF PublishUnreliable, PublishReliable, PublishFails, TypeOK
  <2> QED
    BY <1>0, <2>1, <2>2
<1>6. CASE HandleInvalid \/ SkipReliable \/ Truncate \/ Rewrite \/ WriteFails \/ Crash
           \/ (\E m \in Msg : Due(m)) \/ UNCHANGED vars
  <2>1. UNCHANGED <<dir, name, placed, pending, sent>>
    BY <1>6 DEF HandleInvalid, SkipReliable, Truncate, Rewrite, WriteFails, Crash, Due, vars
  <2> QED
    BY <1>0, <2>1
<1> QED
  BY <1>1, <1>2, <1>3, <1>4, <1>5, <1>6 DEF Next, Handle

\* What may leave may leave ever after.
LEMMA MayGoStays ==
  ASSUME Inv, [Next]_vars
  PROVE  \A m \in Msg : MayGo(m) => MayGo(m)'
<1> USE DEF files, worker, network, history
<1>0. TypeOK
  BY DEF Inv
<1>1. CASE PublishUnreliable \/ PublishReliable \/ PublishFails
  <2>1. Current \in Msg
    BY <1>1, AtWork DEF PublishUnreliable, PublishReliable, PublishFails
  <2>2. \A m \in Msg : stored[m] # 0 => stored'[m] # 0
    BY <1>0, <1>1, <2>1, Storing DEF PublishUnreliable, PublishReliable, PublishFails
  <2>3. UNCHANGED <<expired, damaged>> /\ sent' = [sent EXCEPT ![Current] = @ + 1]
    BY <1>1 DEF PublishUnreliable, PublishReliable, PublishFails
  <2>4. \A m \in Msg : sent[m] >= MaxTries => sent'[m] >= MaxTries
    BY <1>0, <2>1, <2>3, SpoolAssumption DEF TypeOK
  <2> QED
    BY <2>2, <2>3, <2>4 DEF MayGo
<1>2. CASE ~(PublishUnreliable \/ PublishReliable \/ PublishFails)
  <2>1. UNCHANGED <<stored, sent>> /\ expired \subseteq expired' /\ damaged \subseteq damaged'
    BY <1>2 DEF Next, Handle, SubmitCount, SubmitMiscount, SubmitName, SubmitRename, SubmitFails, PollDir, Poll, HandleInvalid,
       SkipReliable, Discard, Truncate, Rewrite, WriteFails, Crash, Due, vars
  <2> QED
    BY <2>1 DEF MayGo
<1> QED
  BY <1>1, <1>2

LEMMA Sums ==
  ASSUME NEW s \in Nat, NEW t \in Nat, NEW c \in Nat, NEW f \in Nat, NEW d \in Nat, NEW g \in Nat,
         d + g >= c + f
  PROVE  /\ s <= t + c + f + 1 => s <= t + d + g + 1
         /\ s <= t + c + f + 1 /\ d + g >= c + f + 1 => s <= t + d + g
         /\ s <= t + c + f => s <= t + d + g
OBVIOUS

\* What leaves the tries, the attempts and the worker alone, and adds only
\* files of messages without an attempt, leaves the counts alone.
LEMMA CountsKept ==
  ASSUME Inv, UNCHANGED <<tries, sent, pc, crashes>>, Current' = Current,
         failures' \in Nat, failures' >= failures,
         \A m \in Msg : m \in dir' => m \in dir \/ sent[m] = 0
  PROVE  Counts'
<1>1. TypeOK /\ Counts
  BY DEF Inv
<1>2. \A m \in Msg : sent[m] \in Nat /\ tries[m] \in Nat
  BY <1>1, SpoolAssumption DEF TypeOK
<1>3. crashes \in Nat /\ failures \in Nat
  BY <1>1 DEF TypeOK
<1>4. ASSUME NEW m \in Msg
      PROVE  /\ sent[m] <= tries[m] + crashes + failures' + 1
             /\ m \in dir' /\ ~InHand(m) => sent[m] <= tries[m] + crashes + failures'
  <2>1. /\ sent[m] <= tries[m] + crashes + failures + 1
        /\ m \in dir /\ ~InHand(m) => sent[m] <= tries[m] + crashes + failures
    BY <1>1 DEF Counts
  <2> QED
    BY <1>2, <1>3, <2>1
<1> QED
  BY <1>1, <1>4 DEF Counts, InHand

\* So does who gives up what it has in hand and pays for it.
LEMMA CountsPaid ==
  ASSUME Inv, UNCHANGED <<tries, sent>>, pc' \in {"idle", "handle"}, dir' \subseteq dir,
         crashes' \in Nat, failures' \in Nat, crashes' + failures' >= crashes + failures,
         \A m \in dir' : InHand(m) => crashes' + failures' >= crashes + failures + 1
  PROVE  Counts'
<1>1. TypeOK /\ Counts
  BY DEF Inv
<1>2. \A m \in Msg : sent[m] \in Nat /\ tries[m] \in Nat
  BY <1>1, SpoolAssumption DEF TypeOK
<1>3. crashes \in Nat /\ failures \in Nat
  BY <1>1 DEF TypeOK
<1>4. ASSUME NEW m \in Msg
      PROVE  sent[m] <= tries[m] + crashes' + failures' + 1
  <2>1. sent[m] <= tries[m] + crashes + failures + 1
    BY <1>1 DEF Counts
  <2> QED
    BY <1>2, <1>3, <2>1, Sums
<1>5. ASSUME NEW m \in Msg, m \in dir'
      PROVE  sent[m] <= tries[m] + crashes' + failures'
  <2>1. CASE InHand(m)
    <3>1. sent[m] <= tries[m] + crashes + failures + 1
      BY <1>1 DEF Counts
    <3>2. crashes' + failures' >= crashes + failures + 1
      BY <1>5, <2>1
    <3> QED
      BY <1>2, <1>3, <3>1, <3>2, Sums
  <2>2. CASE ~InHand(m)
    <3>1. sent[m] <= tries[m] + crashes + failures
      BY <1>1, <1>5, <2>2 DEF Counts
    <3> QED
      BY <1>2, <1>3, <3>1, Sums
  <2> QED
    BY <2>1, <2>2
<1>6. \A m \in Msg : tries[m] <= sent[m] /\ (m \notin Reliable => tries[m] = 0)
  BY <1>1 DEF Counts
<1> QED
  BY <1>4, <1>5, <1>6 DEF Counts

LEMMA CountsStep ==
  ASSUME Inv, [Next]_vars
  PROVE  Counts'
<1> USE DEF files, worker, network, history
<1>0. TypeOK /\ Counts /\ Working /\ Named /\ TypeOK'
  BY TypeStep DEF Inv
<1>c. crashes \in Nat /\ failures \in Nat
  BY <1>0 DEF TypeOK
<1>1. ASSUME NEW m \in Msg, SubmitName(m) \/ SubmitRename(m) PROVE Counts'
  <2>1. /\ m \notin batch /\ sent[m] = 0 /\ UNCHANGED <<tries, sent, pc, batch, crashes, failures>>
        /\ dir' \subseteq dir \cup {m} /\ \A o \in batch : name'[o] = name[o]
    BY <1>1, Submitting
  <2>2. Current' = Current
    BY <2>1, CurrentStays
  <2> QED
    BY <1>c, <2>1, <2>2, CountsKept
<1>2. CASE \/ \E m \in Msg : SubmitCount(m) \/ SubmitMiscount(m) \/ SubmitFails(m) \/ Due(m)
           \/ UNCHANGED vars
  <2>1. UNCHANGED <<dir, name, tries, sent, pc, batch, crashes>> /\ failures' \in {failures, failures + 1}
    BY <1>2 DEF SubmitCount, SubmitMiscount, SubmitFails, Due, vars
  <2> QED
    BY <1>c, <2>1, CurrentStays, CountsKept
<1>3. CASE PollDir
  <2>1. PICK found \in SUBSET dir, unread \in SUBSET dir, stay \in SUBSET dir : Poll(found, unread, stay)
    BY <1>3, PollPicks
  <2>2. /\ UNCHANGED <<tries, sent, crashes>> /\ pc = "idle" /\ pc' \in {"idle", "handle"}
        /\ dir' \subseteq dir
    BY <2>1 DEF Poll
  <2>3. failures' \in Nat /\ failures' >= failures
    BY <1>0, <2>1, FaultsGrow
  <2>4. \A m : ~InHand(m)
    BY <2>2 DEF InHand
  <2> HIDE DEF files, worker, network, history
  <2>5. crashes' \in Nat /\ crashes' + failures' >= crashes + failures
    <3>1. \A c, f, g \in Nat : g >= f => c + g >= c + f
      OBVIOUS
    <3>2. crashes' = crashes
      BY <2>2
    <3> QED
      BY <1>c, <2>3, <3>1, <3>2
  <2> QED
    BY <2>2, <2>3, <2>4, <2>5, CountsPaid
<1>4. CASE SkipReliable
  <2>1. /\ UNCHANGED <<dir, tries, sent, crashes, failures>>
        /\ pc = "handle" /\ pc' \in {"idle", "handle"}
    BY <1>4 DEF SkipReliable, Advance
  <2>2. \A m : ~InHand(m)
    BY <2>1 DEF InHand
  <2> QED
    BY <1>c, <2>1, <2>2, CountsPaid
<1>5. CASE Crash
  <2>1. /\ UNCHANGED <<dir, tries, sent, failures>> /\ crashes' = crashes + 1 /\ pc' = "idle"
    BY <1>5 DEF Crash
  <2> QED
    BY <1>c, <2>1, CountsPaid
<1>6. CASE Discard
  <2>1. UNCHANGED <<tries, sent, crashes>> /\ pc' \in {"idle", "handle"} /\ dir' \subseteq dir
    BY <1>6 DEF Discard, Advance
  <2>2. CASE failures' = failures + 1
    BY <1>c, <2>1, <2>2, CountsPaid
  <2>3. CASE failures' = failures /\ dir' = dir \ {Current}
    <3>1. \A m \in dir' : ~InHand(m)
      BY <2>3 DEF InHand
    <3> QED
      BY <1>c, <2>1, <2>3, <3>1, CountsPaid
  <2> QED
    BY <1>6, <2>2, <2>3 DEF Discard
<1>7. CASE HandleInvalid
  <2>1. UNCHANGED <<dir, name, tries, sent, batch, crashes, failures>> /\ pc = "handle" /\ pc' = "discard"
    BY <1>7 DEF HandleInvalid
  <2> QED
    BY <1>0, <2>1 DEF Counts, InHand
<1>8. CASE PublishUnreliable \/ PublishReliable \/ PublishFails
  <2>1. Current \in dir /\ Current \in Msg
    BY <1>8, AtWork DEF PublishUnreliable, PublishReliable, PublishFails
  <2>2. /\ pc = "handle" /\ UNCHANGED <<dir, name, tries, batch, crashes, failures>>
        /\ sent' = [sent EXCEPT ![Current] = @ + 1]
    BY <1>8 DEF PublishUnreliable, PublishReliable, PublishFails
  <2>3. Current' = Current
    BY <2>2, CurrentStays
  <2>4. \/ pc' = "discard"
        \/ pc' = "retry" /\ Current \in Reliable /\ ~(tries[Current] + 1 >= MaxTries)
    BY <1>8 DEF PublishUnreliable, PublishReliable, PublishFails
  <2>5. sent[Current] <= tries[Current] + crashes + failures
    BY <1>0, <2>1, <2>2 DEF Counts, InHand
  <2>6. \A m \in Msg : sent[m] \in Nat /\ tries[m] \in Nat
    BY <1>0, SpoolAssumption DEF TypeOK
  <2>7. sent'[Current] = sent[Current] + 1 /\ \A m \in Msg : m # Current => sent'[m] = sent[m]
    BY <1>0, <2>1, <2>2 DEF TypeOK
  <2>8. ASSUME NEW m \in Msg, m # Current
        PROVE  /\ tries'[m] <= sent'[m]
               /\ m \notin Reliable => tries'[m] = 0
               /\ sent'[m] <= tries'[m] + crashes' + failures' + 1
               /\ m \in dir' => sent'[m] <= tries'[m] + crashes' + failures'
    BY <1>0, <2>2, <2>7, <2>8 DEF Counts, InHand
  <2>9. /\ tries'[Current] + 1 <= sent'[Current]
        /\ Current \notin Reliable => tries'[Current] = 0
        /\ sent'[Current] <= tries'[Current] + crashes' + failures' + 1
    <3>1. tries[Current] <= sent[Current] /\ (Current \notin Reliable => tries[Current] = 0)
      BY <1>0, <2>1 DEF Counts
    <3> QED
      BY <1>c, <2>1, <2>2, <2>5, <2>6, <2>7, <3>1
  <2>10. pc' = "retry" => Current \in Reliable /\ tries'[Current] + 1 < MaxTries
    BY <2>1, <2>2, <2>4, <2>6, SpoolAssumption
  <2>11. tries'[Current] <= sent'[Current]
    BY <1>0, <2>1, <2>6, <2>7, <2>9, <2>2
  <2> QED
    BY <2>1, <2>3, <2>4, <2>8, <2>9, <2>10, <2>11 DEF Counts, InHand
<1>9. CASE Truncate
  <2>1. UNCHANGED <<dir, name, tries, sent, batch, crashes, failures>> /\ pc = "retry" /\ pc' = "rewrite"
    BY <1>9 DEF Truncate
  <2>2. Current' = Current
    BY <2>1, CurrentStays
  <2> QED
    BY <1>0, <2>1, <2>2 DEF Counts, InHand
<1>10. CASE Rewrite
  <2>1. Current \in Msg /\ tries[Current] + 1 <= sent[Current] /\ Current \in Reliable
    BY <1>10, AtWork DEF Rewrite, Inv, Counts
  <2>2. /\ UNCHANGED <<dir, sent, crashes, failures>> /\ pc = "rewrite" /\ pc' \in {"idle", "handle"}
        /\ tries' = [tries EXCEPT ![Current] = @ + 1]
    BY <1>10 DEF Rewrite, Advance
  <2>3. tries'[Current] = tries[Current] + 1 /\ \A m \in Msg : m # Current => tries'[m] = tries[m]
    BY <1>0, <2>1, <2>2 DEF TypeOK
  <2>4. \A m \in Msg : sent[m] \in Nat /\ tries[m] \in Nat
    BY <1>0, SpoolAssumption DEF TypeOK
  <2>5. ASSUME NEW m \in Msg, m # Current
        PROVE  /\ tries'[m] <= sent'[m]
               /\ m \notin Reliable => tries'[m] = 0
               /\ sent'[m] <= tries'[m] + crashes' + failures' + 1
               /\ m \in dir' => sent'[m] <= tries'[m] + crashes' + failures'
    BY <1>0, <2>2, <2>3, <2>5 DEF Counts, InHand
  <2>6. /\ tries'[Current] <= sent'[Current]
        /\ sent'[Current] <= tries'[Current] + crashes' + failures'
        /\ sent'[Current] <= tries'[Current] + crashes' + failures' + 1
    <3>1. sent[Current] <= tries[Current] + crashes + failures + 1
      BY <1>0, <2>1 DEF Counts
    <3> QED
      BY <1>c, <2>1, <2>2, <2>3, <2>4, <3>1
  <2> QED
    BY <2>1, <2>2, <2>5, <2>6 DEF Counts
<1>11. CASE WriteFails
  <2>1. /\ UNCHANGED <<dir, name, tries, sent, batch, crashes>> /\ failures' = failures + 1
        /\ pc \in {"retry", "rewrite"} /\ pc' = "discard"
    BY <1>11 DEF WriteFails
  <2>2. Current' = Current
    BY <2>1, CurrentStays
  <2>3. \A m \in Msg : sent[m] \in Nat /\ tries[m] \in Nat
    BY <1>0, SpoolAssumption DEF TypeOK
  <2>4. ASSUME NEW m \in Msg
        PROVE  /\ tries'[m] <= sent'[m]
               /\ m \notin Reliable => tries'[m] = 0
               /\ sent'[m] <= tries'[m] + crashes' + failures' + 1
               /\ m \in dir' /\ m # Current => sent'[m] <= tries'[m] + crashes' + failures'
    <3>1. /\ tries[m] <= sent[m] /\ (m \notin Reliable => tries[m] = 0)
          /\ sent[m] <= tries[m] + crashes + failures + 1
          /\ m \in dir /\ m # Current => sent[m] <= tries[m] + crashes + failures
      BY <1>0 DEF Counts, InHand
    <3> QED
      BY <1>c, <2>1, <2>3, <3>1
  <2> QED
    BY <2>1, <2>2, <2>4 DEF Counts, InHand
<1> QED
  BY <1>1, <1>2, <1>3, <1>4, <1>5, <1>6, <1>7, <1>8, <1>9, <1>10, <1>11 DEF Next, Handle

LEMMA AccountedStep ==
  ASSUME Inv, [Next]_vars
  PROVE  Accounted'
<1> USE DEF files, worker, network, history
<1>0. TypeOK /\ Accounted /\ Working /\ Named /\ Counts
  BY DEF Inv
<1>m. \A m \in Msg : MayGo(m) => MayGo(m)'
  BY MayGoStays
<1>s. Signed \subseteq Msg /\ dir \subseteq Msg /\ torn \subseteq Msg
  BY <1>0, SpoolAssumption DEF TypeOK
<1>1. ASSUME NEW m \in Msg, SubmitName(m) \/ SubmitRename(m) PROVE Accounted'
  <2>1. /\ UNCHANGED <<torn, skipList, damaged, pc, batch>> /\ \A o \in batch : name'[o] = name[o]
        /\ Submitted' \ dir' \subseteq Submitted \ dir
    BY <1>1, Submitting
  <2>2. Current' = Current
    BY <2>1, CurrentStays
  <2>3. pc = "discard" => MayGo(Current)'
    BY <1>0, <1>m, <2>2, AtWork DEF Accounted, MayGo
  <2>4. \A o \in Submitted' \ dir' : o \in Msg
    BY DEF Submitted
  <2> QED
    BY <1>0, <1>m, <2>1, <2>2, <2>3, <2>4 DEF Accounted
<1>2. CASE \/ \E m \in Msg : SubmitCount(m) \/ SubmitMiscount(m) \/ SubmitFails(m) \/ Due(m)
           \/ UNCHANGED vars
  <2>1. UNCHANGED <<dir, name, placed, torn, skipList, damaged, pc, batch>>
    BY <1>2 DEF SubmitCount, SubmitMiscount, SubmitFails, Due, vars
  <2>2. Current' = Current /\ Submitted' = Submitted
    BY <2>1, CurrentStays DEF Submitted
  <2>3. pc = "discard" => MayGo(Current)'
    BY <1>0, <1>m, <2>2, AtWork DEF Accounted, MayGo
  <2> QED
    BY <1>0, <1>m, <2>1, <2>2, <2>3 DEF Accounted, Submitted
<1>3. CASE PollDir
  <2>1. PICK found \in SUBSET dir, unread \in SUBSET dir, stay \in SUBSET dir : Poll(found, unread, stay)
    BY <1>3, PollPicks
  <2> DEFINE U == Unwanted(found, unread)
             K == Skipped(found)
  <2>2. /\ pc = "idle" /\ pc' \in {"idle", "handle"} /\ UNCHANGED <<placed, torn>>
        /\ stay \subseteq K \cup U /\ damaged' = damaged \cup unread
        /\ dir' = dir \ ((K \cup U) \ stay)
        /\ skipList' = Compacted(skipList \cup {Path(m) : m \in stay \ K}, found)
    BY <2>1 DEF Poll
  <2>3. \A m \in torn : m \in damaged
    BY <1>0, <2>2 DEF Accounted
  <2>4. \A m \in U : m \in Msg /\ MayGo(m)'
    <3> SUFFICES ASSUME NEW m \in U PROVE m \in Msg /\ MayGo(m)'
      OBVIOUS
    <3>1. m \in Msg /\ (m \in unread \cup torn \/ tries[m] >= MaxTries)
      BY <1>s DEF Unwanted
    <3>2. ~(tries[m] >= MaxTries)
      BY <1>0, <3>1, SpoolAssumption DEF TypeOK
    <3> QED
      BY <2>2, <2>3, <3>1, <3>2 DEF MayGo
  <2>5. \A m \in K : m \in Msg /\ MayGo(m)'
    BY <1>0, <1>m, <1>s DEF Skipped, Accounted
  <2> HIDE DEF U, K
  <2>6. \A m \in Submitted' \ dir' : MayGo(m)'
    <3>1. Submitted' = Submitted /\ Submitted \subseteq Msg
      BY <2>2 DEF Submitted
    <3> QED
      BY <1>0, <1>m, <2>2, <2>4, <2>5, <3>1 DEF Accounted
  <2>7. \A m \in Msg : Path(m) \in skipList' => MayGo(m)'
    <3> SUFFICES ASSUME NEW m \in Msg, Path(m) \in skipList' PROVE MayGo(m)'
      OBVIOUS
    <3>1. Path(m) \in skipList \/ \E o \in stay \ K : Path(m) = Path(o)
      BY <2>2 DEF Compacted
    <3>2. \A o : Path(m) = Path(o) => m = o
      BY DEF Path
    <3> QED
      BY <1>0, <1>m, <2>2, <2>4, <3>1, <3>2 DEF Accounted
  <2> QED
    BY <2>2, <2>3, <2>6, <2>7 DEF Accounted
<1>4. CASE SkipReliable
  <2>1. /\ UNCHANGED <<dir, placed, torn, skipList, damaged>> /\ pc = "handle" /\ pc' \in {"idle", "handle"}
    BY <1>4 DEF SkipReliable, Advance
  <2> QED
    BY <1>0, <1>m, <2>1 DEF Accounted, Submitted
<1>5. CASE Crash
  <2>1. UNCHANGED <<dir, placed, torn>> /\ skipList' = {} /\ damaged' = damaged \cup torn /\ pc' = "idle"
    BY <1>5 DEF Crash
  <2> QED
    BY <1>0, <1>m, <2>1 DEF Accounted, Submitted
<1>6. CASE Discard
  <2>1. /\ UNCHANGED <<placed, torn, damaged>> /\ pc = "discard" /\ pc' \in {"idle", "handle"}
        /\ dir \ {Current} \subseteq dir' /\ skipList' \subseteq skipList \cup {Path(Current)}
    BY <1>6 DEF Discard, Advance
  <2>2. Current \in Msg /\ MayGo(Current)
    BY <1>0, <2>1, AtWork DEF Accounted
  <2>3. \A m : Path(m) = Path(Current) => m = Current
    BY DEF Path
  <2>4. \A m \in Msg : (placed'[m] # 0 /\ m \notin dir' => MayGo(m)) /\ (Path(m) \in skipList' => MayGo(m))
    BY <1>0, <2>1, <2>2, <2>3 DEF Accounted, Submitted
  <2> QED
    BY <1>0, <1>m, <2>1, <2>4 DEF Accounted, Submitted
<1>7. CASE HandleInvalid \/ PublishUnreliable \/ PublishReliable \/ PublishFails
  <2>1. /\ UNCHANGED <<dir, name, placed, batch, torn, skipList, damaged>> /\ pc = "handle"
        /\ pc' \in {"discard", "retry"}
    BY <1>7 DEF HandleInvalid, PublishUnreliable, PublishReliable, PublishFails
  <2>2. Current' = Current /\ Current \in Msg
    BY <2>1, CurrentStays, AtWork
  <2>3. pc' = "discard" => MayGo(Current)'
    <3>1. CASE HandleInvalid
      BY <2>1, <2>2, <3>1 DEF HandleInvalid, MayGo
    <3>2. CASE PublishUnreliable
      BY <2>1, <2>2, <3>2 DEF PublishUnreliable, MayGo
    <3>3. CASE PublishReliable
      <4>1. stored'[Current] # 0
        BY <1>0, <2>2, <3>3, Storing DEF PublishReliable
      <4> QED
        BY <2>2, <4>1 DEF MayGo
    <3>4. CASE PublishFails
      <4>1. sent'[Current] = sent[Current] + 1 /\ tries[Current] <= sent[Current]
        BY <1>0, <2>2, <3>4 DEF PublishFails, TypeOK, Counts
      <4>2. sent[Current] \in Nat /\ tries[Current] \in Nat /\ MaxTries \in Nat
        BY <1>0, <2>2, SpoolAssumption DEF TypeOK
      <4>3. pc' = "discard" => tries[Current] + 1 >= MaxTries
        BY <3>4 DEF PublishFails
      <4>4. pc' = "discard" => sent'[Current] >= MaxTries
        BY <4>1, <4>2, <4>3
      <4> QED
        BY <2>2, <4>4 DEF MayGo
    <3> QED
      BY <1>7, <3>1, <3>2, <3>3, <3>4
  <2> QED
    BY <1>0, <1>m, <2>1, <2>2, <2>3 DEF Accounted, Submitted
<1>8. CASE Truncate
  <2>1. /\ UNCHANGED <<dir, name, placed, batch, skipList, damaged>> /\ pc = "retry" /\ pc' = "rewrite"
        /\ torn' = torn \cup {Current}
    BY <1>8 DEF Truncate
  <2>2. Current' = Current
    BY <2>1, CurrentStays
  <2> QED
    BY <1>0, <1>m, <2>1, <2>2 DEF Accounted, Submitted
<1>9. CASE Rewrite
  <2>1. /\ UNCHANGED <<dir, placed, skipList, damaged>> /\ pc' \in {"idle", "handle"}
        /\ torn' = torn \ {Current}
    BY <1>9 DEF Rewrite, Advance
  <2> QED
    BY <1>0, <1>m, <2>1 DEF Accounted, Submitted
<1>10. CASE WriteFails
  <2>1. /\ UNCHANGED <<dir, name, placed, batch, skipList, torn>> /\ pc \in {"retry", "rewrite"} /\ pc' = "discard"
        /\ damaged' = damaged \cup {Current}
    BY <1>10 DEF WriteFails
  <2>2. Current' = Current
    BY <2>1, CurrentStays
  <2>3. MayGo(Current)'
    BY <2>1, <2>2 DEF MayGo
  <2> QED
    BY <1>0, <1>m, <2>1, <2>2, <2>3 DEF Accounted, Submitted
<1> QED
  BY <1>1, <1>2, <1>3, <1>4, <1>5, <1>6, <1>7, <1>8, <1>9, <1>10 DEF Next, Handle

-----------------------------------------------------------------------------
(* The theorems.                                                           *)

LEMMA InvInit == Init => Inv
<1> SUFFICES ASSUME Init PROVE Inv
  OBVIOUS
<1> USE DEF Init
<1>1. TypeOK
  <2>1. /\ name \in [Msg -> Nat] /\ sent \in [Msg -> Nat] /\ stored \in [Msg -> Nat]
        /\ placed \in [Msg -> Nat]
    OBVIOUS
  <2>2. /\ tries \in [Msg -> 0..(MaxTries - 1)] /\ crashes \in Nat /\ failures \in Nat
        /\ crashes + failures <= MaxFaults /\ miscounts \in 0..failures
    BY SpoolAssumption
  <2>3. /\ dir = {} /\ waiting = {} /\ torn = {} /\ pending = {} /\ batch = {} /\ expired = {}
        /\ damaged = {} /\ overlooked = {} /\ skipList = {} /\ pc = "idle" /\ skipReliable = FALSE
    OBVIOUS
  <2> HIDE DEF Init
  <2> QED
    BY <2>1, <2>2, <2>3 DEF TypeOK
<1>2. Working /\ Named /\ Accounted
  BY DEF Working, Named, Accounted, Submitted
<1>3. Counts
  BY SpoolAssumption DEF Counts, InHand
<1> QED
  BY <1>1, <1>2, <1>3 DEF Inv

LEMMA Invariance == Spec => []Inv
<1>1. Inv /\ [Next]_vars => Inv'
  BY TypeStep, WorkingStep, NamedStep, CountsStep, AccountedStep DEF Inv
<1> QED
  BY <1>1, InvInit, PTL DEF Spec

\* Every variable of the spool keeps its type: in particular a file never
\* tells of MaxTries tries, so that a poll never drops a message for them.
THEOREM TypeCorrect == Spec => []TypeOK
<1>1. Inv => TypeOK
  BY DEF Inv
<1> QED
  BY <1>1, Invariance, PTL

\* A reliable message that was accepted leaves the spool only when it may:
\* stored, expired, not to be signed, out of tries or with a file that could not
\* be read or written.
THEOREM ReliableIsNotLost == Spec => []NothingLost
<1>1. Inv => NothingLost
  BY DEF Inv, Accounted, MayGo, NothingLost, Submitted
<1> QED
  BY <1>1, Invariance, PTL

\* No message is published more often than its tries allow, but for once more
\* for each crash and each failing file operation.
THEOREM AttemptsAreBounded == Spec => []AttemptsBounded
<1>1. Inv => AttemptsBounded
  <2> SUFFICES ASSUME Inv, NEW m \in Msg PROVE sent[m] <= Allowed(m) + crashes + failures
    BY DEF AttemptsBounded
  <2>1. TypeOK /\ Counts
    BY DEF Inv
  <2>2. /\ sent[m] \in Nat /\ tries[m] \in Nat /\ tries[m] <= MaxTries - 1
        /\ crashes \in Nat /\ failures \in Nat /\ MaxTries \in Nat
    BY <2>1, SpoolAssumption DEF TypeOK
  <2>3. sent[m] <= tries[m] + crashes + failures + 1 /\ (m \notin Reliable => tries[m] = 0)
    BY <2>1 DEF Counts
  <2> QED
    BY <2>2, <2>3 DEF Allowed
<1> QED
  BY <1>1, Invariance, PTL

-----------------------------------------------------------------------------
(* Order.                                                                  *)

\* m was published, or there is a reason why it is not.
Tried(m) == sent[m] >= 1 \/ m \in expired \cup Signed \cup damaged \cup overlooked

InStream == {m \in Msg : stored[m] # 0}

\* What the stream, the files and the skip list tell of attempts.
Touched ==
  /\ \A m \in Msg : stored[m] # 0 => sent[m] >= 1
  /\ \A m \in torn : sent[m] >= 1
  /\ \A m \in Msg : Path(m) \in skipList => Tried(m)
  /\ pc \in {"discard", "retry", "rewrite"} => Tried(Current)

\* Times and places are given in turn.
Places ==
  /\ \A m \in Msg : name[m] < Now /\ placed[m] < Now /\ (placed[m] # 0 => name[m] < placed[m])
  /\ \A m \in Msg : stored[m] <= Cardinality(InStream)

\* The worker does not come to a file before one that was in place when it was
\* named and was never tried, unless it skips the reliable ones.
OldestFirst ==
  \A a \in Reliable \cap dir, b \in batch :
    placed[a] < name[b] => a \in batch \/ skipReliable \/ Tried(a)

\* What was overtaken was tried.
Behind ==
  \A a, b \in Reliable :
    /\ placed[a] # 0 /\ placed[a] < name[b]
    /\ stored[b] # 0 /\ stored[a] = 0
    => Tried(a)

OrderInv == Touched /\ Places /\ OldestFirst /\ Behind /\ OnlyRetriesAreOvertaken

\* Attempts are not forgotten, and neither are reasons.
LEMMA TriedStays ==
  ASSUME Inv, [Next]_vars
  PROVE  \A m \in Msg : (sent[m] >= 1 => sent'[m] >= 1) /\ (Tried(m) => Tried(m)')
<1> USE DEF files, worker, network, history
<1>0. TypeOK
  BY DEF Inv
<1>1. CASE PublishUnreliable \/ PublishReliable \/ PublishFails
  <2>1. Current \in Msg
    BY <1>1, AtWork DEF PublishUnreliable, PublishReliable, PublishFails
  <2>2. UNCHANGED <<expired, damaged, overlooked>> /\ sent' = [sent EXCEPT ![Current] = @ + 1]
    BY <1>1 DEF PublishUnreliable, PublishReliable, PublishFails
  <2>3. \A m \in Msg : sent[m] >= 1 => sent'[m] >= 1
    BY <1>0, <2>1, <2>2 DEF TypeOK
  <2> QED
    BY <2>2, <2>3 DEF Tried
<1>2. CASE ~(PublishUnreliable \/ PublishReliable \/ PublishFails)
  <2>1. /\ UNCHANGED sent /\ expired \subseteq expired'
        /\ damaged \subseteq damaged' /\ overlooked \subseteq overlooked'
    BY <1>2 DEF Next, Handle, SubmitCount, SubmitMiscount, SubmitName, SubmitRename, SubmitFails, PollDir, Poll, HandleInvalid,
       SkipReliable, Discard, Truncate, Rewrite, WriteFails, Crash, Due, vars
  <2> QED
    BY <2>1 DEF Tried
<1> QED
  BY <1>1, <1>2

\* Naming a file and renaming it take time.
LEMMA NewTime ==
  ASSUME Inv, NEW x \in Msg, SubmitName(x) \/ SubmitRename(x)
  PROVE  /\ Now' = Now + 1 /\ Now \in Nat
         /\ placed[x] = 0 /\ x \notin dir /\ sent[x] = 0
         /\ \/ SubmitName(x) /\ name[x] = 0 /\ name'[x] = Now /\ placed' = placed
            \/ SubmitRename(x) /\ name[x] # 0 /\ name' = name /\ placed'[x] = Now
         /\ \A m \in Msg : m # x => name'[m] = name[m] /\ placed'[m] = placed[m]
<1> DEFINE N == {m \in Msg : name[m] # 0}
           P == {m \in Msg : placed[m] # 0}
<1>1. TypeOK /\ Named
  BY DEF Inv
<1>2. Now \in Nat /\ Now # 0
  BY Clock
<1>3. x \in pending /\ placed[x] = 0 /\ sent[x] = 0 /\ x \notin dir
  BY <1>1 DEF Named, SubmitName, SubmitRename
<1>4. /\ \/ SubmitName(x) /\ name[x] = 0 /\ name'[x] = Now /\ placed' = placed
         \/ SubmitRename(x) /\ name[x] # 0 /\ name' = name /\ placed'[x] = Now
      /\ \A m \in Msg : m # x => name'[m] = name[m] /\ placed'[m] = placed[m]
  BY <1>1 DEF SubmitName, SubmitRename, TypeOK, history
<1>5. /\ IsFiniteSet(N) /\ Cardinality(N) \in Nat
      /\ IsFiniteSet(P) /\ Cardinality(P) \in Nat
  BY SpoolAssumption, FS_Subset, FS_CardinalityType
<1>6. Now = 1 + Cardinality(N) + Cardinality(P) /\ Now' = 1 + Cardinality(N') + Cardinality(P')
  BY DEF Now
<1>7. \/ N' = N \cup {x} /\ x \notin N /\ P' = P
      \/ P' = P \cup {x} /\ x \notin P /\ N' = N
  BY <1>2, <1>3, <1>4
<1> HIDE DEF N, P
<1>8. Now' = Now + 1
  <2>1. CASE N' = N \cup {x} /\ x \notin N /\ P' = P
    <3>1. Cardinality(N') = Cardinality(N) + 1
      BY <1>5, <2>1, FS_AddElement
    <3> QED
      BY <1>5, <1>6, <2>1, <3>1
  <2>2. CASE P' = P \cup {x} /\ x \notin P /\ N' = N
    <3>1. Cardinality(P') = Cardinality(P) + 1
      BY <1>5, <2>2, FS_AddElement
    <3> QED
      BY <1>5, <1>6, <2>2, <3>1
  <2> QED
    BY <1>7, <2>1, <2>2
<1> QED
  BY <1>2, <1>3, <1>4, <1>8

\* A message that is new to the stream is stored after all others.
LEMMA NewPlace ==
  ASSUME TypeOK, Places, NEW c \in Msg, Store(c), stored' # stored
  PROVE  /\ stored[c] = 0
         /\ \A m \in Msg : m # c => stored'[m] = stored[m]
         /\ \A m \in Msg : stored[m] < stored'[c]
         /\ stored'[c] = Cardinality(InStream')
         /\ Cardinality(InStream) \in Nat
         /\ Cardinality(InStream') = Cardinality(InStream) + 1
<1> DEFINE k == 1 + Cardinality({o \in Msg : stored[o] # 0})
<1>1. stored[c] = 0 /\ stored' = [stored EXCEPT ![c] = k] /\ k = 1 + Cardinality(InStream)
  BY DEF Store, InStream
<1>2. k \in Nat /\ k # 0
  BY Counting
<1>3. IsFiniteSet(InStream) /\ Cardinality(InStream) \in Nat
  BY SpoolAssumption, FS_Subset, FS_CardinalityType DEF InStream
<1> HIDE DEF k
<1>4. stored'[c] = k /\ \A m \in Msg : m # c => stored'[m] = stored[m]
  BY <1>1 DEF TypeOK
<1>5. InStream' = InStream \cup {c} /\ c \notin InStream
  BY <1>1, <1>2, <1>4 DEF InStream
<1>6. Cardinality(InStream') = Cardinality(InStream) + 1
  BY <1>3, <1>5, FS_AddElement
<1>7. \A m \in Msg : stored[m] < stored'[c]
  <2> SUFFICES ASSUME NEW m \in Msg PROVE stored[m] < stored'[c]
    OBVIOUS
  <2>1. stored[m] \in Nat /\ stored[m] <= Cardinality(InStream)
    BY DEF TypeOK, Places
  <2> QED
    BY <1>1, <1>3, <1>4, <2>1
<1> QED
  BY <1>1, <1>3, <1>4, <1>6, <1>7

\* Only the two publications of reliable messages store anything, and only
\* a submission gives times.
LEMMA OnlyPublishStores ==
  ASSUME [Next]_vars, ~PublishReliable, ~PublishFails
  PROVE  UNCHANGED stored
BY DEF Next, Handle, SubmitCount, SubmitMiscount, SubmitName, SubmitRename, SubmitFails, PollDir, Poll, HandleInvalid,
   PublishUnreliable, SkipReliable, Discard, Truncate, Rewrite, WriteFails, Crash, Due, vars,
   files, worker, network, history

LEMMA OnlySubmitNames ==
  ASSUME [Next]_vars, \A m \in Msg : ~SubmitName(m) /\ ~SubmitRename(m)
  PROVE  UNCHANGED <<name, placed>> /\ dir' \subseteq dir
BY DEF Next, Handle, SubmitCount, SubmitMiscount, SubmitFails, PollDir, Poll, HandleInvalid, PublishUnreliable,
   PublishReliable, PublishFails, SkipReliable, Discard, Truncate, Rewrite, WriteFails, Crash, Due,
   vars, files, worker, network, history

\* The publication of a reliable message.
LEMMA Publishing ==
  ASSUME Inv, PublishReliable \/ PublishFails
  PROVE  /\ Current \in Reliable \ expired /\ Current \in Msg /\ Current \in batch /\ ~skipReliable
         /\ UNCHANGED <<files, batch, skipList, expired, placed, damaged, overlooked>> /\ pc = "handle"
         /\ sent'[Current] = sent[Current] + 1 /\ sent[Current] \in Nat
         /\ \A m \in Msg : m # Current => sent'[m] = sent[m]
         /\ stored' = stored \/ Store(Current)
<1> USE DEF PublishReliable, PublishFails, history
<1>1. pc = "handle" /\ Current \in Msg /\ Current \in batch
  BY AtWork
<1>2. sent' = [sent EXCEPT ![Current] = @ + 1] /\ sent \in [Msg -> Nat]
  BY DEF Inv, TypeOK
<1>3. stored' = stored \/ Store(Current)
  OBVIOUS
<1> QED
  BY <1>1, <1>2, <1>3

LEMMA PlacesStep ==
  ASSUME Inv, Places, [Next]_vars
  PROVE  Places'
<1>0. TypeOK /\ TypeOK'
  BY TypeStep DEF Inv
<1>1. \A m \in Msg : name'[m] < Now' /\ placed'[m] < Now' /\ (placed'[m] # 0 => name'[m] < placed'[m])
  <2>1. CASE \E x \in Msg : SubmitName(x) \/ SubmitRename(x)
    <3>1. PICK x \in Msg : SubmitName(x) \/ SubmitRename(x)
      BY <2>1
    <3>2. /\ Now' = Now + 1 /\ Now \in Nat /\ placed[x] = 0
          /\ \/ name[x] = 0 /\ name'[x] = Now /\ placed' = placed
             \/ name[x] # 0 /\ name' = name /\ placed'[x] = Now
          /\ \A m \in Msg : m # x => name'[m] = name[m] /\ placed'[m] = placed[m]
      BY <3>1, NewTime
    <3> SUFFICES ASSUME NEW m \in Msg
                 PROVE  name'[m] < Now' /\ placed'[m] < Now' /\ (placed'[m] # 0 => name'[m] < placed'[m])
      OBVIOUS
    <3>3. /\ name[m] \in Nat /\ placed[m] \in Nat /\ name[m] < Now /\ placed[m] < Now
          /\ placed[m] # 0 => name[m] < placed[m]
      BY <1>0 DEF TypeOK, Places
    <3> QED
      BY <3>2, <3>3
  <2>2. CASE ~ \E x \in Msg : SubmitName(x) \/ SubmitRename(x)
    <3>1. UNCHANGED <<name, placed>> /\ Now' = Now
      BY <2>2, OnlySubmitNames DEF Now
    <3> QED
      BY <3>1 DEF Places
  <2> QED
    BY <2>1, <2>2
<1>2. \A m \in Msg : stored'[m] <= Cardinality(InStream')
  <2>1. CASE stored' = stored
    <3>1. InStream' = InStream
      BY <2>1 DEF InStream
    <3> QED
      BY <2>1, <3>1 DEF Places
  <2>2. CASE stored' # stored
    <3>1. Current \in Msg /\ Store(Current)
      BY <2>2, OnlyPublishStores, Publishing
    <3>2. /\ \A m \in Msg : m # Current => stored'[m] = stored[m]
          /\ stored'[Current] = Cardinality(InStream')
          /\ Cardinality(InStream) \in Nat
          /\ Cardinality(InStream') = Cardinality(InStream) + 1
      BY <1>0, <2>2, <3>1, NewPlace
    <3> SUFFICES ASSUME NEW m \in Msg PROVE stored'[m] <= Cardinality(InStream')
      OBVIOUS
    <3>3. stored[m] \in Nat /\ stored[m] <= Cardinality(InStream)
      BY <1>0 DEF TypeOK, Places
    <3> QED
      BY <3>2, <3>3
  <2> QED
    BY <2>1, <2>2
<1> QED
  BY <1>1, <1>2 DEF Places

LEMMA TouchedStep ==
  ASSUME Inv, Touched, [Next]_vars
  PROVE  Touched'
<1> USE DEF files, worker, network, history
<1>0. TypeOK /\ Counts /\ Working /\ Named
  BY DEF Inv
<1>t. \A m \in Msg : (sent[m] >= 1 => sent'[m] >= 1) /\ (Tried(m) => Tried(m)')
  BY TriedStays
<1>s. dir \subseteq Msg /\ torn \subseteq Msg
  BY <1>0 DEF TypeOK
<1>c. ASSUME Current' = Current, pc \in {"discard", "retry", "rewrite"}
      PROVE  Tried(Current)'
  BY <1>c, <1>t, AtWork DEF Touched, Tried
<1>1. ASSUME NEW x \in Msg, SubmitName(x) \/ SubmitRename(x) PROVE Touched'
  <2>1. /\ UNCHANGED <<torn, skipList, pc, batch, stored>> /\ \A o \in batch : name'[o] = name[o]
    BY <1>1, Submitting
  <2>2. Current' = Current
    BY <2>1, CurrentStays
  <2> QED
    BY <1>s, <1>t, <1>c, <2>1, <2>2 DEF Touched
<1>2. CASE \/ \E m \in Msg : SubmitCount(m) \/ SubmitMiscount(m) \/ SubmitFails(m) \/ Due(m)
           \/ UNCHANGED vars
  <2>1. UNCHANGED <<name, torn, skipList, pc, batch, stored>>
    BY <1>2 DEF SubmitCount, SubmitMiscount, SubmitFails, Due, vars
  <2>2. Current' = Current
    BY <2>1, CurrentStays
  <2> QED
    BY <1>s, <1>t, <1>c, <2>1, <2>2 DEF Touched
<1>3. CASE PollDir
  <2>1. PICK found \in SUBSET dir, unread \in SUBSET dir, stay \in SUBSET dir : Poll(found, unread, stay)
    BY <1>3, PollPicks
  <2> DEFINE U == Unwanted(found, unread)
             K == Skipped(found)
  <2>2. /\ pc' \in {"idle", "handle"} /\ UNCHANGED <<torn, stored>>
        /\ stay \subseteq K \cup U /\ damaged' = damaged \cup unread
        /\ skipList' = Compacted(skipList \cup {Path(m) : m \in stay \ K}, found)
    BY <2>1 DEF Poll
  <2>3. \A m \in U : m \in Msg /\ Tried(m)'
    <3> SUFFICES ASSUME NEW m \in U PROVE m \in Msg /\ Tried(m)'
      OBVIOUS
    <3>1. m \in Msg /\ (m \in unread \cup torn \/ tries[m] >= MaxTries)
      BY <1>s DEF Unwanted
    <3>2. ~(tries[m] >= MaxTries)
      BY <1>0, <3>1, SpoolAssumption DEF TypeOK
    <3> QED
      BY <1>t, <2>2, <3>1, <3>2 DEF Touched, Tried
  <2> HIDE DEF U, K
  <2>4. \A m \in Msg : Path(m) \in skipList' => Tried(m)'
    <3> SUFFICES ASSUME NEW m \in Msg, Path(m) \in skipList' PROVE Tried(m)'
      OBVIOUS
    <3>1. Path(m) \in skipList \/ \E o \in stay \ K : Path(m) = Path(o)
      BY <2>2 DEF Compacted
    <3>2. \A o : Path(m) = Path(o) => m = o
      BY DEF Path
    <3> QED
      BY <1>t, <2>2, <2>3, <3>1, <3>2 DEF Touched
  <2> QED
    BY <1>s, <1>t, <2>2, <2>4 DEF Touched
<1>4. CASE SkipReliable \/ Rewrite
  <2>1. /\ UNCHANGED <<skipList, stored>> /\ torn' \subseteq torn /\ pc' \in {"idle", "handle"}
    BY <1>4 DEF SkipReliable, Rewrite, Advance
  <2> QED
    BY <1>s, <1>t, <2>1 DEF Touched
<1>5. CASE Crash
  <2>1. UNCHANGED <<torn, stored>> /\ skipList' = {} /\ pc' = "idle"
    BY <1>5 DEF Crash
  <2> QED
    BY <1>s, <1>t, <2>1 DEF Touched
<1>6. CASE Discard
  <2>1. /\ UNCHANGED <<torn, stored>> /\ pc = "discard" /\ pc' \in {"idle", "handle"}
        /\ skipList' \subseteq skipList \cup {Path(Current)}
    BY <1>6 DEF Discard, Advance
  <2>2. Current \in Msg /\ Tried(Current)
    BY <2>1, AtWork DEF Touched
  <2>3. \A m : Path(m) = Path(Current) => m = Current
    BY DEF Path
  <2>4. \A m \in Msg : Path(m) \in skipList' => Tried(m)
    BY <2>1, <2>2, <2>3 DEF Touched
  <2> QED
    BY <1>s, <1>t, <2>1, <2>4 DEF Touched
<1>7. CASE HandleInvalid
  <2>1. /\ UNCHANGED <<name, batch, torn, skipList, stored>> /\ Current \in expired' \cup Signed
    BY <1>7 DEF HandleInvalid
  <2>2. Current' = Current
    BY <2>1, CurrentStays
  <2>3. Tried(Current)'
    BY <2>1, <2>2 DEF Tried
  <2> QED
    BY <1>s, <1>t, <2>1, <2>3 DEF Touched
<1>8. CASE PublishUnreliable
  <2>1. Current \in Msg
    BY <1>8, AtWork DEF PublishUnreliable
  <2>2. /\ UNCHANGED <<name, batch, torn, skipList, stored>>
        /\ sent' = [sent EXCEPT ![Current] = @ + 1]
    BY <1>8 DEF PublishUnreliable
  <2>3. Current' = Current
    BY <2>2, CurrentStays
  <2>4. sent'[Current] >= 1
    BY <1>0, <2>1, <2>2 DEF TypeOK
  <2>5. Tried(Current)'
    BY <2>3, <2>4 DEF Tried
  <2> QED
    BY <1>s, <1>t, <2>2, <2>5 DEF Touched
<1>9. CASE PublishReliable \/ PublishFails
  <2>1. /\ Current \in Msg /\ UNCHANGED <<name, batch, torn, skipList>>
        /\ sent'[Current] = sent[Current] + 1 /\ sent[Current] \in Nat
        /\ stored' = stored \/ Store(Current)
    BY <1>9, Publishing
  <2>2. Current' = Current
    BY <2>1, CurrentStays
  <2>3. sent'[Current] >= 1
    BY <2>1
  <2>4. Tried(Current)'
    BY <2>2, <2>3 DEF Tried
  <2>5. \A m \in Msg : m # Current => (stored'[m] # 0 => stored[m] # 0)
    BY <1>0, <2>1 DEF Store, TypeOK
  <2>6. \A m \in Msg : stored'[m] # 0 => sent'[m] >= 1
    BY <1>t, <2>1, <2>3, <2>5 DEF Touched
  <2> QED
    BY <1>s, <1>t, <2>1, <2>4, <2>6 DEF Touched
<1>10. CASE Truncate \/ WriteFails
  <2>1. /\ UNCHANGED <<name, batch, skipList, stored, sent>> /\ pc \in {"retry", "rewrite"}
        /\ torn' \subseteq torn \cup {Current}
    BY <1>10 DEF Truncate, WriteFails
  <2>2. Current' = Current /\ Current \in Msg
    BY <2>1, CurrentStays, AtWork
  <2>3. sent[Current] >= 1
    <3>1. tries[Current] \in Nat /\ sent[Current] \in Nat /\ tries[Current] + 1 <= sent[Current]
      BY <1>0, <2>1, <2>2, SpoolAssumption DEF TypeOK, Counts
    <3> QED
      BY <3>1
  <2>4. Tried(Current)'
    BY <2>1, <2>2, <1>c
  <2> QED
    BY <1>s, <1>t, <2>1, <2>3, <2>4 DEF Touched
<1> QED
  BY <1>1, <1>2, <1>3, <1>4, <1>5, <1>6, <1>7, <1>8, <1>9, <1>10 DEF Next, Handle

\* The message at hand is the oldest of the batch.
LEMMA CurrentIsOldest ==
  ASSUME Inv, pc # "idle"
  PROVE  \A m \in batch : name[Current] <= name[m]
<1>1. Current \in batch
  BY AtWork
<1>2. Oldest # {}
  <2> DEFINE T == {name[m] : m \in batch}
  <2>1. T \subseteq Nat /\ T # {}
    BY <1>1 DEF Inv, TypeOK
  <2> HIDE DEF T
  <2>2. PICK x \in T : \A y \in T : x <= y
    BY <2>1, Least
  <2>3. PICK c \in batch : name[c] = x
    BY <2>2 DEF T
  <2> QED
    BY <2>2, <2>3 DEF T, Oldest
<1>3. Current \in Oldest
  BY <1>2 DEF Current
<1> QED
  BY <1>3 DEF Oldest

LEMMA OldestFirstStep ==
  ASSUME Inv, Touched, Places, OldestFirst, [Next]_vars
  PROVE  OldestFirst'
<1> USE DEF files, worker, network, history
<1>0. TypeOK /\ Counts /\ Working /\ Named
  BY DEF Inv
<1>t. \A m \in Msg : Tried(m) => Tried(m)'
  BY TriedStays
<1>s. dir \subseteq Msg /\ batch \subseteq Msg /\ batch \subseteq dir
  BY <1>0 DEF TypeOK, Working
<1>1. ASSUME NEW x \in Msg, SubmitName(x) \/ SubmitRename(x) PROVE OldestFirst'
  <2>1. /\ x \notin dir /\ Now \in Nat /\ placed'[x] \in {0, Now}
        /\ x \in dir' => placed'[x] = Now
        /\ \A m \in Msg : m # x => name'[m] = name[m] /\ placed'[m] = placed[m]
    BY <1>1, NewTime DEF SubmitName
  <2>2. UNCHANGED <<batch, skipReliable>> /\ dir' \subseteq dir \cup {x}
    BY <1>1 DEF SubmitName, SubmitRename
  <2> SUFFICES ASSUME NEW a \in Reliable, a \in dir', NEW b \in batch', placed'[a] < name'[b]
               PROVE  a \in batch' \/ skipReliable' \/ Tried(a)'
    BY DEF OldestFirst
  <2>3. b \in batch /\ b # x /\ b \in Msg /\ name'[b] = name[b]
    BY <1>s, <2>1, <2>2
  <2>4. a # x
    <3>1. name[b] \in Nat /\ name[b] < Now
      BY <1>0, <2>3 DEF TypeOK, Places
    <3> QED
      BY <2>1, <2>3, <3>1
  <2>5. a \in dir /\ a \in Msg /\ placed'[a] = placed[a]
    BY <1>s, <2>1, <2>2, <2>4
  <2> QED
    BY <1>t, <2>2, <2>3, <2>5 DEF OldestFirst
<1>2. CASE PollDir
  <2>1. PICK found \in SUBSET dir, unread \in SUBSET dir, stay \in SUBSET dir : Poll(found, unread, stay)
    BY <1>2, PollPicks
  <2>2. /\ batch' = found \ (Skipped(found) \cup Unwanted(found, unread) \cup Deferred)
        /\ dir' \subseteq dir /\ damaged' = damaged \cup unread /\ overlooked' = overlooked \cup (dir \ found)
    BY <2>1 DEF Poll
  <2> SUFFICES ASSUME NEW a \in Reliable, a \in dir, ~Tried(a)'
               PROVE  a \in batch'
    BY <2>2 DEF OldestFirst
  <2>3. a \in Msg /\ sent[a] \in Nat /\ tries[a] \in Nat /\ ~Tried(a)
    BY <1>0, <1>s, <1>t, SpoolAssumption DEF TypeOK
  <2>4. a \in found /\ a \notin unread
    BY <2>2 DEF Tried
  <2>5. sent[a] = 0 /\ a \notin torn /\ Path(a) \notin skipList
    BY <2>3 DEF Tried, Touched
  <2>6. tries[a] = 0
    <3>1. tries[a] <= sent[a]
      BY <1>0, <2>3 DEF Counts
    <3> QED
      BY <2>3, <2>5, <3>1
  <2>7. ~(tries[a] >= MaxTries) /\ ~(tries[a] > 0)
    BY <2>6, SpoolAssumption
  <2> QED
    BY <2>2, <2>4, <2>5, <2>7 DEF Skipped, Unwanted, Deferred
<1>3. CASE SkipReliable \/ Discard \/ Rewrite
  <2>1. /\ batch' = batch \ {Current} /\ UNCHANGED <<name, placed, skipReliable>> /\ dir' \subseteq dir
    BY <1>3 DEF SkipReliable, Discard, Rewrite, Advance
  <2>2. skipReliable \/ Tried(Current)
    BY <1>3 DEF SkipReliable, Discard, Rewrite, Touched
  <2> SUFFICES ASSUME NEW a \in Reliable, a \in dir, NEW b \in batch', placed[a] < name[b]
               PROVE  a \in batch' \/ skipReliable \/ Tried(a)'
    BY <2>1 DEF OldestFirst
  <2>3. a \in batch \/ skipReliable \/ Tried(a)
    BY <2>1 DEF OldestFirst
  <2> QED
    BY <1>s, <1>t, <2>1, <2>2, <2>3
<1>4. CASE ~((\E x \in Msg : SubmitName(x) \/ SubmitRename(x)) \/ PollDir \/ SkipReliable \/ Discard \/ Rewrite)
  <2>1. /\ UNCHANGED <<name, placed, dir>> /\ batch' \subseteq batch
        /\ batch' = {} \/ (batch' = batch /\ (skipReliable => skipReliable'))
    BY <1>4 DEF Next, Handle, SubmitCount, SubmitMiscount, SubmitFails, HandleInvalid, PublishUnreliable,
       PublishReliable, PublishFails, Truncate, WriteFails, Crash, Due, vars
  <2> QED
    BY <1>s, <1>t, <2>1 DEF OldestFirst
<1> QED
  BY <1>1, <1>2, <1>3, <1>4

\* A message older than one that is published now was tried, or is not in the
\* spool any more: it is not in the batch, because the oldest comes first.
LEMMA OlderWasTried ==
  ASSUME Inv, Touched, Places, OldestFirst, PublishReliable \/ PublishFails,
         NEW a \in Reliable, placed[a] # 0, placed[a] < name[Current], stored[a] = 0
  PROVE  Tried(a)
<1>0. TypeOK /\ Accounted /\ a \in Msg
  BY SpoolAssumption DEF Inv
<1>1. Current \in batch /\ Current \in Msg /\ ~skipReliable /\ pc = "handle"
  BY Publishing
<1>2. CASE a \in dir
  <2>1. a \notin batch
    <3>1. \A m \in batch : name[Current] <= name[m]
      BY <1>1, CurrentIsOldest
    <3>2. name[a] \in Nat /\ placed[a] \in Nat /\ name[Current] \in Nat /\ name[a] < placed[a]
      BY <1>0, <1>1 DEF TypeOK, Places
    <3> QED
      BY <3>1, <3>2
  <2> QED
    BY <1>1, <1>2, <2>1 DEF OldestFirst
<1>3. CASE a \notin dir
  <2>1. a \in expired \cup Signed \cup damaged \/ sent[a] >= MaxTries
    BY <1>0, <1>3 DEF Accounted, MayGo, Submitted
  <2>2. MaxTries \in Nat /\ MaxTries >= 1 /\ sent[a] \in Nat
    BY <1>0, SpoolAssumption DEF TypeOK
  <2> QED
    BY <2>1, <2>2 DEF Tried
<1> QED
  BY <1>2, <1>3

LEMMA OrderStep ==
  ASSUME Inv, OrderInv, [Next]_vars
  PROVE  Behind' /\ OnlyRetriesAreOvertaken'
<1>0. TypeOK /\ Named /\ Reliable \subseteq Msg /\ TypeOK'
  BY SpoolAssumption, TypeStep DEF Inv
<1>t. \A m \in Msg : Tried(m) => Tried(m)'
  BY TriedStays
<1>n. \A m \in Msg : name[m] \in Nat /\ placed[m] \in Nat /\ stored[m] \in Nat /\ sent[m] \in Nat
  BY <1>0 DEF TypeOK
<1>m. \A m \in Msg : name'[m] \in Nat /\ placed'[m] \in Nat /\ stored'[m] \in Nat /\ sent'[m] \in Nat
  BY <1>0 DEF TypeOK
<1>1. CASE PublishReliable \/ PublishFails
  <2>1. /\ Current \in Reliable \ expired /\ Current \in Msg
        /\ UNCHANGED <<name, expired, placed, damaged, overlooked>>
        /\ sent'[Current] = sent[Current] + 1
        /\ \A m \in Msg : m # Current => sent'[m] = sent[m]
        /\ stored' = stored \/ Store(Current)
    BY <1>1, Publishing DEF files
  <2>2. \A m \in Msg : sent[m] > 1 => sent'[m] > 1
    BY <1>n, <2>1
  <2>3. CASE stored' = stored
    BY <1>0, <1>t, <2>1, <2>2, <2>3 DEF OrderInv, Behind, OnlyRetriesAreOvertaken
  <2>4. CASE stored' # stored
    <3>1. /\ stored[Current] = 0
          /\ \A m \in Msg : m # Current => stored'[m] = stored[m]
          /\ \A m \in Msg : stored[m] < stored'[Current]
      BY <1>0, <2>1, <2>4, NewPlace DEF OrderInv
    <3>2. ASSUME NEW a \in Reliable, NEW b \in Reliable, placed[a] # 0, placed[a] < name[b],
                 stored'[b] # 0, stored'[a] = 0
          PROVE  Tried(a)
      <4>1. a # Current /\ stored[a] = 0
        BY <1>0, <1>n, <1>m, <2>1, <3>1, <3>2
      <4>2. CASE b = Current
        BY <1>1, <3>2, <4>1, <4>2, OlderWasTried DEF OrderInv
      <4>3. CASE b # Current
        BY <1>0, <3>1, <3>2, <4>1, <4>3 DEF OrderInv, Behind
      <4> QED
        BY <4>2, <4>3
    <3>3. Behind'
      BY <1>0, <1>t, <2>1, <3>2 DEF Behind
    <3>4. ASSUME NEW a \in Reliable \ (Signed \cup damaged \cup overlooked), NEW b \in Reliable,
                 placed[a] # 0, placed[a] < name[b],
                 stored'[b] # 0, stored'[b] < stored'[a]
          PROVE  sent'[a] > 1
      <4>1. b # Current
        <5>1. a \in Msg /\ stored[a] < stored'[Current]
          BY <1>0, <3>1
        <5>2. CASE a = Current
          BY <1>m, <1>0, <3>4, <5>2
        <5>3. CASE a # Current
          BY <1>n, <1>m, <2>1, <3>1, <3>4, <5>1, <5>3
        <5> QED
          BY <5>2, <5>3
      <4>2. stored[b] = stored'[b] /\ b \in Msg
        BY <1>0, <3>1, <4>1
      <4>3. CASE a = Current
        <5>1. Tried(a)
          BY <3>1, <3>4, <4>2, <4>3 DEF OrderInv, Behind
        <5>2. sent[a] >= 1
          BY <2>1, <3>4, <4>3, <5>1 DEF Tried
        <5> QED
          BY <1>n, <2>1, <4>3, <5>2
      <4>4. CASE a # Current
        <5>1. a \in Msg /\ stored'[a] = stored[a]
          BY <1>0, <3>1, <4>4
        <5>2. sent[a] > 1
          BY <3>4, <4>2, <5>1 DEF OrderInv, OnlyRetriesAreOvertaken
        <5> QED
          BY <2>2, <5>1, <5>2
      <4> QED
        BY <4>3, <4>4
    <3>5. OnlyRetriesAreOvertaken'
      BY <2>1, <3>4 DEF OnlyRetriesAreOvertaken
    <3> QED
      BY <3>3, <3>5
  <2> QED
    BY <2>3, <2>4
<1>2. CASE ~(PublishReliable \/ PublishFails)
  <2>1. UNCHANGED stored
    BY <1>2, OnlyPublishStores
  <2>2. \A m \in Msg : sent[m] > 1 => sent'[m] > 1
    <3>1. CASE PublishUnreliable
      <4>1. Current \in Msg /\ sent' = [sent EXCEPT ![Current] = @ + 1]
        BY <3>1, AtWork DEF PublishUnreliable
      <4> QED
        BY <1>0, <1>n, <4>1 DEF TypeOK
    <3>2. CASE ~PublishUnreliable
      <4>1. UNCHANGED sent
        BY <1>2, <3>2 DEF Next, Handle, SubmitCount, SubmitMiscount, SubmitName, SubmitRename, SubmitFails, PollDir, Poll,
           HandleInvalid, SkipReliable, Discard, Truncate, Rewrite, WriteFails, Crash, Due, vars,
           files, worker, network, history
      <4> QED
        BY <4>1
    <3> QED
      BY <3>1, <3>2
  <2>3. \A a, b \in Reliable : placed'[a] # 0 /\ placed'[a] < name'[b] /\ stored[b] # 0
                              => placed[a] # 0 /\ placed[a] < name[b]
    <3>1. CASE \E x \in Msg : SubmitName(x) \/ SubmitRename(x)
      <4>1. PICK x \in Msg : SubmitName(x) \/ SubmitRename(x)
        BY <3>1
      <4>2. /\ Now \in Nat /\ placed[x] = 0 /\ sent[x] = 0
            /\ placed' = placed \/ (name' = name /\ placed'[x] = Now)
            /\ \A m \in Msg : m # x => name'[m] = name[m] /\ placed'[m] = placed[m]
        BY <4>1, NewTime
      <4>3. stored[x] = 0
        BY <4>2 DEF OrderInv, Touched
      <4> SUFFICES ASSUME NEW a \in Reliable, NEW b \in Reliable, placed'[a] # 0, placed'[a] < name'[b],
                          stored[b] # 0
                   PROVE  placed[a] # 0 /\ placed[a] < name[b]
        OBVIOUS
      <4>4. b # x /\ b \in Msg /\ a \in Msg /\ name'[b] = name[b] /\ name[b] < Now
        BY <1>0, <4>2, <4>3 DEF OrderInv, Places
      <4>5. a # x
        <5> SUFFICES ASSUME a = x PROVE FALSE
          OBVIOUS
        <5>1. placed'[x] = Now
          BY <4>2
        <5> QED
          BY <1>n, <4>2, <4>4, <5>1
      <4> QED
        BY <4>2, <4>4, <4>5
    <3>2. CASE ~ \E x \in Msg : SubmitName(x) \/ SubmitRename(x)
      <4>1. name' = name /\ placed' = placed
        BY <3>2, OnlySubmitNames
      <4> QED
        BY <4>1
    <3> QED
      BY <3>1, <3>2
  <2>g. damaged \subseteq damaged' /\ overlooked \subseteq overlooked'
    BY <1>2 DEF Next, Handle, SubmitCount, SubmitMiscount, SubmitName, SubmitRename, SubmitFails, PollDir, Poll,
       HandleInvalid, PublishUnreliable, SkipReliable, Discard, Truncate, Rewrite, WriteFails, Crash, Due, vars,
       history
  <2>4. Behind'
    BY <1>0, <1>t, <2>1, <2>3 DEF OrderInv, Behind
  <2>5. OnlyRetriesAreOvertaken'
    BY <1>0, <2>1, <2>2, <2>3, <2>g DEF OrderInv, OnlyRetriesAreOvertaken
  <2> QED
    BY <2>4, <2>5
<1> QED
  BY <1>1, <1>2

\* Whatever crashes, fails or is submitted meanwhile, a reliable message that
\* needs no signature, was seen by every poll and could be read is stored after
\* one that was named when its own file was in place already only when its first
\* attempt failed.
THEOREM ReliableInOrder == Spec => []OnlyRetriesAreOvertaken
<1>1. Init => OrderInv
  <2> SUFFICES ASSUME Init PROVE OrderInv
    OBVIOUS
  <2>1. Touched /\ OldestFirst /\ Behind /\ OnlyRetriesAreOvertaken
    BY SpoolAssumption DEF Init, Touched, OldestFirst, Behind, OnlyRetriesAreOvertaken
  <2>2. InStream = {} /\ Now \in Nat /\ Now # 0
    BY Clock DEF Init, InStream
  <2>3. Places
    BY <2>2, FS_EmptySet DEF Init, Places
  <2> QED
    BY <2>1, <2>3 DEF OrderInv
<1>2. Inv /\ OrderInv /\ [Next]_vars => OrderInv'
  BY TouchedStep, PlacesStep, OldestFirstStep, OrderStep DEF OrderInv
<1>3. OrderInv => OnlyRetriesAreOvertaken
  BY DEF OrderInv
<1> QED
  BY <1>1, <1>2, <1>3, Invariance, PTL DEF Spec
=============================================================================
