-------------------------------- MODULE WAL --------------------------------
(***************************************************************************)
(* The write-ahead log of internal/wal: DefaultWALManager with its         *)
(* WALSegment objects, the files they leave on disk, and the crash and     *)
(* restart of the process around them.                                     *)
(*                                                                         *)
(* Every exported method of the manager holds w.mu from its first line to  *)
(* its return, so each is one action.  What interleaves is what runs       *)
(* outside one critical section: the rotation goroutines Write spawns, the *)
(* check and the act of rotationLoop, the two halves of Close, and a crash *)
(* between two system calls of one method.                                 *)
(*                                                                         *)
(* A segment's name is the Unix second of its creation, so files are       *)
(* identified by seconds.  Segment objects are pointers: the same object   *)
(* can be the active segment and an element of the list of closed ones.    *)
(***************************************************************************)
EXTENDS Naturals, Sequences, FiniteSets, SequencesExt

CONSTANTS
  Records,        \* record IDs, each written at most once
  Ptrs,           \* bound: segment objects alive in one process
  MaxNow,         \* bound: the last second the clock reaches
  SegmentSize,    \* records after which a segment asks for rotation, 0: never
  MaxAge,         \* age in seconds after which it asks for rotation, 0: never
  Retention,      \* age after which a fully sent segment may be deleted
  SharedSeconds,  \* may two segments be created within one second?
  Faults,         \* the failures the environment may inject
  Compressed      \* does the configuration name a compression?

\* "torn":   a process dies, or a disk fills up, between the two writes of a record
\* "create": the file of a new segment cannot be created
\* "save":   the companion file of sent IDs is truncated but not rewritten
FaultKinds == {"torn", "create", "save"}

ASSUME WALAssumption ==
  /\ MaxNow \in Nat
  /\ SegmentSize \in Nat
  /\ MaxAge \in Nat
  /\ Retention \in Nat \ {0}
  /\ SharedSeconds \in BOOLEAN
  /\ Faults \subseteq FaultKinds
  /\ Compressed \in BOOLEAN
  /\ IsFiniteSet(Records)
  /\ IsFiniteSet(Ptrs)

Seconds == 0..MaxNow

\* How a data file ends: at a frame boundary, after a size header without
\* data, after incomplete data, or with a frame boundary lost for good.
Tails == {"whole", "header", "partial", "shifted"}

Segment == [id : Seconds, open : BOOLEAN, created : Seconds, size : Nat,
            sent : SUBSET Records, indexed : BOOLEAN, ids : SUBSET Records]

VARIABLES
  now,        \* time.Now().Unix()
  \* the disk
  exists,     \* the seconds whose segment file is in the directory
  recs,       \* the complete records in each file
  tail,       \* how each file ends
  mtime,      \* modification time of each file
  sentFile,   \* what loadSentIndex would read from each companion file
  \* the process
  up,         \* is it running?
  seg,        \* the segment objects
  segments,   \* w.segments
  active,     \* w.activeSegment
  rotations,  \* goroutines spawned by Write that have not called Rotate yet
  loopWants,  \* rotationLoop has read shouldRotate() = true under RLock
  closing,    \* progress of Close: "no", "cancelled", "done"
  doomed,     \* segments DeleteSentRecords has still to remove, holding w.mu
  \* what the callers know
  used,       \* records handed to Write
  acked,      \* records for which Write returned nil
  asked,      \* records the callers reported as sent
  marked      \* records for which MarkSent returned nil

disk    == <<exists, recs, tail, mtime, sentFile>>
process == <<up, seg, segments, active, rotations, loopWants, closing,
             doomed>>
history == <<used, acked, asked, marked>>
vars    == <<now, disk, process, history>>

-----------------------------------------------------------------------------
(* Segments *)

\* NewWALSegment: an append handle on a new or, within the same second, an
\* existing file; the companion file is not read.
FreshSegment(s) ==
  [id |-> s, open |-> TRUE, created |-> s, size |-> 0,
   sent |-> {}, indexed |-> FALSE, ids |-> {}]

\* Mutant of OpenedSegment: the companion file is not loaded.
OpenedUnmarked(s) == [FreshSegment(s) EXCEPT !.created = mtime[s]]

\* OpenWALSegment: the modification time stands in for the creation time and
\* the companion file is loaded.
OpenedSegment(s) ==
  [id |-> s, open |-> TRUE, created |-> mtime[s], size |-> Cardinality(recs[s]),
   sent |-> sentFile[s], indexed |-> FALSE, ids |-> {}]

\* Can the readers of segment.go walk the file to its end?  Incomplete data
\* reads as a record that does not unmarshal, unless it must be decompressed
\* first; a header without data is an error for the whole file.
Readable(s) ==
  /\ s \in exists
  /\ tail[s] = "whole" \/ (tail[s] = "partial" /\ ~Compressed)

\* WALSegment.GetUnsentRecords, an error counting as no records
UnsentOf(p) ==
  IF Readable(seg[p].id) THEN recs[seg[p].id] \ seg[p].sent ELSE {}

\* The IDs containsRecordLocked consults: the index, built on first use.
KnownIds(p) ==
  IF seg[p].indexed THEN seg[p].ids
  ELSE IF Readable(seg[p].id) THEN recs[seg[p].id] ELSE {}

\* Segment p after containsRecordLocked looked a record up in it
Indexed(p) ==
  IF ~seg[p].indexed /\ Readable(seg[p].id)
  THEN [seg[p] EXCEPT !.indexed = TRUE, !.ids = recs[seg[p].id]]
  ELSE seg[p]

ShouldRotate(segment) ==
  \/ SegmentSize > 0 /\ segment.size >= SegmentSize
  \/ MaxAge > 0 /\ segment.created + MaxAge <= now

InUse == {active} \cup ToSet(segments)
Spare == Ptrs \ InUse

\* MarkSent asks the active segment first, then the closed ones in order.
SearchOrder == <<active>> \o segments
Holders(r)  == {i \in 1..Len(SearchOrder) : r \in KnownIds(SearchOrder[i])}
Earliest(S) == CHOOSE i \in S : \A j \in S : i <= j

\* saveSentIndex: the companion file is overwritten with one object's index.
\* Mutants: nothing is saved; the new mark alone is; every record of the file is.
NewestSaved(p, sent) == [sentFile EXCEPT ![seg[p].id] = sent \ seg[p].sent]
NothingSaved(p, sent) == sentFile
WholeFileSaved(p, sent) ==
  [sentFile EXCEPT ![seg[p].id] = sent \cup recs[seg[p].id]]
SavedIndex(p, sent) == [sentFile EXCEPT ![seg[p].id] = sent]

\* Seconds in which createActiveSegment may run: the environment assumption
\* SharedSeconds = FALSE is that no second sees two segments created.
SecondFree ==
  \/ SharedSeconds
  \/ now \notin exists /\ \A p \in InUse : seg[p].id # now

\* createActiveSegment with file creation succeeding: p becomes active
Activate(p) ==
  /\ active' = p
  /\ exists' = exists \cup {now}
  /\ mtime' = IF now \in exists THEN mtime ELSE [mtime EXCEPT ![now] = now]
  /\ recs' = IF now \in exists THEN recs ELSE [recs EXCEPT ![now] = {}]
  /\ tail' = IF now \in exists THEN tail ELSE [tail EXCEPT ![now] = "whole"]

-----------------------------------------------------------------------------
TypeOK ==
  /\ now \in Seconds
  /\ exists \subseteq Seconds
  /\ recs \in [Seconds -> SUBSET Records]
  /\ tail \in [Seconds -> Tails]
  /\ mtime \in [Seconds -> Seconds]
  /\ sentFile \in [Seconds -> SUBSET Records]
  /\ up \in BOOLEAN
  /\ seg \in [Ptrs -> Segment]
  /\ segments \in Seq(Ptrs)
  /\ active \in Ptrs
  /\ rotations \in Nat
  /\ loopWants \in BOOLEAN
  /\ closing \in {"no", "cancelled", "done"}
  /\ doomed \subseteq Ptrs
  /\ used \subseteq Records
  /\ acked \subseteq used
  /\ asked \subseteq used
  /\ marked \subseteq asked

\* The first start, in an empty directory (newManager)
Init ==
  /\ now = 0
  /\ exists = {0}
  /\ recs = [s \in Seconds |-> {}]
  /\ tail = [s \in Seconds |-> "whole"]
  /\ mtime = [s \in Seconds |-> 0]
  /\ sentFile = [s \in Seconds |-> {}]
  /\ up = TRUE
  /\ seg = [p \in Ptrs |-> FreshSegment(0)]
  /\ segments = <<>>
  /\ active \in Ptrs
  /\ rotations = 0
  /\ loopWants = FALSE
  /\ closing = "no"
  /\ doomed = {}
  /\ used = {} /\ acked = {} /\ asked = {} /\ marked = {}

Tick ==
  /\ now < MaxNow
  /\ now' = now + 1
  /\ UNCHANGED <<disk, process, history>>

-----------------------------------------------------------------------------
(* Writing *)

\* w.mu is free: the process runs and no deletion loop is in progress
Unlocked == up /\ doomed = {}

Write(r) ==
  LET written == [seg[active] EXCEPT
                    !.size = @ + 1,
                    !.ids  = IF seg[active].indexed THEN @ \cup {r} ELSE @]
      file == seg[active].id
  IN
  /\ Unlocked
  /\ r \in Records \ used
  /\ seg[active].open
  /\ seg' = [seg EXCEPT ![active] = written]
  /\ IF file \notin exists       \* an unlinked file: the handle outlives the name
     THEN UNCHANGED <<recs, tail, mtime>>
     ELSE /\ mtime' = [mtime EXCEPT ![file] = now]
          /\ IF tail[file] = "whole"
             THEN recs' = [recs EXCEPT ![file] = @ \cup {r}] /\ UNCHANGED tail
             ELSE tail' = [tail EXCEPT ![file] = "shifted"] /\ UNCHANGED recs
  /\ rotations' = IF ShouldRotate(written) THEN rotations + 1 ELSE rotations
  /\ used' = used \cup {r}
  /\ acked' = acked \cup {r}
  /\ UNCHANGED <<now, exists, sentFile, up, segments, active, loopWants,
                 closing, doomed, asked, marked>>

\* "segment file is closed": after Close, or after a rotation that closed the
\* active segment and could not create the next one.
WriteRefused(r) ==
  /\ Unlocked
  /\ r \in Records \ used
  /\ ~seg[active].open
  /\ used' = used \cup {r}
  /\ UNCHANGED <<now, disk, process, acked, asked, marked>>

\* The size header is written, the data is missing (k = "header") or cut
\* short (k = "partial").
Torn(k) ==
  LET file == seg[active].id
  IN  /\ "torn" \in Faults
      /\ seg[active].open
      /\ file \in exists
      /\ tail' = [tail EXCEPT ![file] = IF @ = "whole" THEN k ELSE "shifted"]
      /\ mtime' = [mtime EXCEPT ![file] = now]

\* The second write of the record fails: Write returns the error, the process
\* and the file go on.
WriteFails(r) ==
  /\ Unlocked
  /\ r \in Records \ used
  /\ \E k \in {"header", "partial"} : Torn(k)
  /\ used' = used \cup {r}
  /\ UNCHANGED <<now, exists, recs, sentFile, process, acked, asked, marked>>

-----------------------------------------------------------------------------
(* Rotating *)

\* Rotate up to the creation of the file: the active segment is closed and
\* listed.  Bound: the list is no longer than Ptrs has elements.
Retire == Len(segments) < Cardinality(Ptrs) /\ segments' = Append(segments, active)

Rotate ==
  /\ Retire
  /\ \/ /\ SecondFree
        /\ \E p \in Spare :
             /\ seg' = [seg EXCEPT ![active].open = FALSE, ![p] = FreshSegment(now)]
             /\ Activate(p)
     \/ \* createActiveSegment fails: the closed segment stays the active one
        /\ "create" \in Faults
        /\ seg' = [seg EXCEPT ![active].open = FALSE]
        /\ UNCHANGED <<active, exists, mtime, recs, tail>>
  /\ UNCHANGED <<now, sentFile, up, closing, doomed, history>>

\* A goroutine spawned by Write rotates whatever is active when it gets w.mu.
RotateSpawned ==
  /\ Unlocked
  /\ rotations > 0
  /\ rotations' = rotations - 1
  /\ Rotate
  /\ UNCHANGED loopWants

\* rotationLoop reads shouldRotate() under RLock, if select prefers a tick to the
\* cancelled context even after Close, which waits for it five seconds at most ...
RotationCheck ==
  /\ Unlocked
  /\ ~loopWants
  /\ ShouldRotate(seg[active])
  /\ loopWants' = TRUE
  /\ UNCHANGED <<now, disk, up, seg, segments, active, rotations, closing,
                 doomed, history>>

\* ... and rotates in a second critical section.
RotateInLoop ==
  /\ Unlocked
  /\ loopWants
  /\ loopWants' = FALSE
  /\ Rotate
  /\ UNCHANGED rotations

-----------------------------------------------------------------------------
(* Marking as sent *)

\* The segments asked for r until one holds it build their index on the way.
MarkSent(r) ==
  LET i == Earliest(Holders(r))
      owner == SearchOrder[i]
      searched == {SearchOrder[j] : j \in 1..i}
      sent == seg[owner].sent \cup {r}
  IN
  /\ Unlocked
  /\ r \in used
  /\ Holders(r) # {}
  /\ seg' = [p \in Ptrs |->
               IF p = owner THEN [Indexed(p) EXCEPT !.sent = sent]
               ELSE IF p \in searched THEN Indexed(p) ELSE seg[p]]
  /\ sentFile' = SavedIndex(owner, sent)
  /\ asked' = asked \cup {r}
  /\ marked' = marked \cup {r}
  /\ UNCHANGED <<now, exists, recs, tail, mtime, up, segments, active, rotations,
                 loopWants, closing, doomed, used, acked>>

\* "record not found": no segment holds it in a file that can be read.
MarkSentUnknown(r) ==
  /\ Unlocked
  /\ r \in used
  /\ Holders(r) = {}
  /\ seg' = [p \in Ptrs |-> IF p \in InUse THEN Indexed(p) ELSE seg[p]]
  /\ asked' = asked \cup {r}
  /\ UNCHANGED <<now, disk, up, segments, active, rotations, loopWants, closing,
                 doomed, used, acked, marked>>

\* saveSentIndex fails after truncating the companion file.  The record is
\* already in the index in memory, the error sends MarkSent on to the next
\* holder, and the caller is told that the record was not found.
MarkSentUnsaved(r) ==
  LET holders == {SearchOrder[i] : i \in Holders(r)}
      files == {seg[p].id : p \in holders}
  IN
  /\ "save" \in Faults
  /\ Unlocked
  /\ r \in used
  /\ holders # {}
  /\ seg' = [p \in Ptrs |->
               IF p \in holders THEN [Indexed(p) EXCEPT !.sent = @ \cup {r}]
               ELSE IF p \in InUse THEN Indexed(p) ELSE seg[p]]
  /\ sentFile' = [s \in Seconds |-> IF s \in files THEN {} ELSE sentFile[s]]
  /\ asked' = asked \cup {r}
  /\ UNCHANGED <<now, exists, recs, tail, mtime, up, segments, active, rotations,
                 loopWants, closing, doomed, used, acked, marked>>

\* The same with a next holder whose save does not fail: MarkSent returns nil, and
\* the companion files of the holders before it are left truncated.
MarkSentByNext(r) ==
  \E i \in Holders(r) :
    LET before == {k \in Holders(r) : k < i}
        holders == {SearchOrder[k] : k \in before \cup {i}}
        searched == {SearchOrder[k] : k \in 1..i}
        files == {seg[SearchOrder[k]].id : k \in before}
        owner == SearchOrder[i]
    IN
    /\ "save" \in Faults
    /\ Unlocked
    /\ r \in used
    /\ before # {}
    /\ seg' = [p \in Ptrs |->
                 IF p \in holders THEN [Indexed(p) EXCEPT !.sent = @ \cup {r}]
                 ELSE IF p \in searched THEN Indexed(p) ELSE seg[p]]
    /\ sentFile' = [s \in Seconds |->
                      IF s = seg[owner].id THEN seg[owner].sent \cup {r}
                      ELSE IF s \in files THEN {} ELSE sentFile[s]]
    /\ asked' = asked \cup {r}
    /\ marked' = marked \cup {r}
    /\ UNCHANGED <<now, exists, recs, tail, mtime, up, segments, active, rotations,
                   loopWants, closing, doomed, used, acked>>

-----------------------------------------------------------------------------
(* Deleting what was sent *)

\* GetUnsentRecords of the manager, as the replay at startup calls it
GetUnsentRecords == UNION {UnsentOf(p) : p \in InUse}

\* Mutants of Deletable: age alone decides; an unreadable file counts as sent.
OldEnough(p) == Readable(seg[p].id) /\ seg[p].created + Retention < now
NoneUnsent(p) == UnsentOf(p) = {} /\ seg[p].created + Retention < now

\* Is every record of the segment sent, and the segment old enough?
Deletable(p) ==
  /\ Readable(seg[p].id)
  /\ UnsentOf(p) = {}
  /\ seg[p].created + Retention < now

\* The segments DeleteSentRecords looks at
ClosedSegments == ToSet(segments)

\* First half of DeleteSentRecords: choose the segments to remove.
DeleteSentRecords ==
  /\ Unlocked
  /\ doomed' = {p \in ClosedSegments : Deletable(p)}
  /\ doomed' # {}
  /\ UNCHANGED <<now, disk, up, seg, segments, active, rotations, loopWants,
                 closing, history>>

\* One iteration of its second half, still under w.mu: close the segment,
\* unlink its file and drop the first listed segment of that name.  A file
\* that is gone already is an error, and the list stays as it is.  The
\* companion file of sent IDs is left behind.
RemoveSegment(p) ==
  LET file == seg[p].id
      named == {i \in 1..Len(segments) : seg[segments[i]].id = file}
  IN
  /\ p \in doomed
  /\ doomed' = doomed \ {p}
  /\ seg' = [seg EXCEPT ![p].open = FALSE]
  /\ exists' = exists \ {file}
  /\ IF file \in exists
     THEN /\ recs' = [recs EXCEPT ![file] = {}]
          /\ tail' = [tail EXCEPT ![file] = "whole"]
          /\ segments' = IF named = {} THEN segments
                         ELSE RemoveAt(segments, Earliest(named))
     ELSE UNCHANGED <<recs, tail, segments>>
  /\ UNCHANGED <<now, mtime, sentFile, up, active, rotations, loopWants, closing,
                 history>>

-----------------------------------------------------------------------------
(* Closing, crashing, starting *)

\* Close, first half: mark as closed and cancel the background loops.
CloseBegin ==
  /\ Unlocked
  /\ closing = "no"
  /\ closing' = "cancelled"
  /\ UNCHANGED <<now, disk, up, seg, segments, active, rotations, loopWants,
                 doomed, history>>

\* Close, second half.  It waits for the loops, but not for the goroutines
\* Write spawned, and for five seconds at most.
CloseFinish ==
  /\ Unlocked
  /\ closing = "cancelled"
  /\ closing' = "done"
  /\ seg' = [p \in Ptrs |-> IF p \in InUse THEN [seg[p] EXCEPT !.open = FALSE]
                                          ELSE seg[p]]
  /\ UNCHANGED <<now, disk, up, segments, active, rotations, loopWants, doomed,
                 history>>

\* The process ends and forgets everything but its files.
Die ==
  /\ up
  /\ up' = FALSE
  /\ seg' = [p \in Ptrs |-> FreshSegment(0)]
  /\ segments' = <<>>
  /\ rotations' = 0
  /\ loopWants' = FALSE
  /\ closing' = "no"
  /\ doomed' = {}
  /\ UNCHANGED <<now, active>>

Crash == Die /\ UNCHANGED <<disk, history>>

\* A crash between the two writes of one record
CrashInWrite(r) ==
  /\ Unlocked
  /\ r \in Records \ used
  /\ Torn("header")
  /\ used' = used \cup {r}
  /\ Die
  /\ UNCHANGED <<exists, recs, sentFile, acked, asked, marked>>

\* A crash between the truncation of a companion file and its rewriting
CrashInSave(r) ==
  /\ "save" \in Faults
  /\ Unlocked
  /\ r \in used
  /\ Holders(r) # {}
  /\ sentFile' = [sentFile EXCEPT ![seg[SearchOrder[Earliest(Holders(r))]].id] = {}]
  /\ asked' = asked \cup {r}
  /\ Die
  /\ UNCHANGED <<exists, recs, tail, mtime, used, acked, marked>>

\* newManager: recoverSegments opens the files in name order, then
\* createActiveSegment adds the file of this second.
Start ==
  LET n == Cardinality(exists)
  IN
  /\ ~up
  /\ SharedSeconds \/ now \notin exists
  /\ \E files \in [1..n -> exists] :
       /\ \A i, j \in 1..n : i < j => files[i] < files[j]
       /\ \E ptr \in Injection(1..n + 1, Ptrs) :
            /\ segments' = [i \in 1..n |-> ptr[i]]
            /\ seg' = [p \in Ptrs |->
                         IF \E i \in 1..n : p = ptr[i]
                         THEN OpenedSegment(files[CHOOSE i \in 1..n : p = ptr[i]])
                         ELSE FreshSegment(now)]
            /\ Activate(ptr[n + 1])
  /\ up' = TRUE
  /\ UNCHANGED <<now, sentFile, rotations, loopWants, closing, doomed, history>>

-----------------------------------------------------------------------------
Next ==
  \/ Tick
  \/ \E r \in Records :
       \/ Write(r) \/ WriteRefused(r) \/ WriteFails(r)
       \/ MarkSent(r) \/ MarkSentUnknown(r) \/ MarkSentUnsaved(r) \/ MarkSentByNext(r)
       \/ CrashInWrite(r) \/ CrashInSave(r)
  \/ RotateSpawned \/ RotationCheck \/ RotateInLoop
  \/ DeleteSentRecords \/ \E p \in Ptrs : RemoveSegment(p)
  \/ CloseBegin \/ CloseFinish
  \/ Crash \/ Start

Spec == Init /\ [][Next]_vars

\* Time passes, the hourly cleanup goroutine of main runs as long as the process
\* does, and a deletion that holds w.mu gets to its end.  Nothing obliges the
\* probes to write, the operator to restart or the process to crash.
FairSpec ==
  /\ Spec
  /\ WF_vars(Tick)
  /\ WF_vars(DeleteSentRecords)
  /\ WF_vars(\E p \in Ptrs : RemoveSegment(p))

-----------------------------------------------------------------------------
(* Properties *)

\* What a restart now would hand to replayWALRecords
OnDisk == UNION {recs[s] \ sentFile[s] : s \in {t \in exists : Readable(t)}}

\* A record whose Write returned nil and that nobody reported as sent is
\* found by a restart, whatever rotated, was deleted or crashed since.
NoLoss == acked \ asked \subseteq OnDisk

\* What MarkSent has returned for, no restart hands out again, although the marks
\* are in a file of their own that is rewritten as a whole.
NoneComesBack == OnDisk \cap marked = {}

\* The running process would report the same unsent records as a restart:
\* the indexes in memory and the companion files agree.
IndexAgrees == up /\ doomed = {} => GetUnsentRecords = OnDisk

\* DeleteSentRecords unlinks no file with a record the callers did not report
\* as sent, although it decides by the index of one segment object.
OnlySentDeleted ==
  [][\A s \in exists \ exists' : recs[s] \subseteq asked]_vars

\* Writes go to a file that has a name: the open active segment is never the
\* one whose file was unlinked.
ActiveHasFile == up /\ seg[active].open => seg[active].id \in exists

\* The index of one segment object, in memory or on disk, never suppresses a
\* record that no caller reported as sent, even when segments share a file.
OnlyReportedSuppressed ==
  /\ \A s \in Seconds : sentFile[s] \subseteq asked
  /\ \A p \in Ptrs : seg[p].sent \subseteq asked

\* A file whose records were all sent does not stay on disk for ever: once it
\* is older than Retention it is unlinked, unless the process dies first.
\* (mtime[s] + Retention < MaxNow: the clock of this instance gets that far.)
Finished(s) ==
  /\ up /\ s \in exists /\ s # seg[active].id
  /\ Readable(s)
  /\ recs[s] \subseteq marked
  /\ mtime[s] + Retention < MaxNow

Purged == \A s \in Seconds : Finished(s) ~> (~up \/ s \notin exists)

\* The records pending on disk and those marked as sent behave as RecordLog.
Log == INSTANCE RecordLog WITH pending <- OnDisk, done <- marked
LogSpec == Log!LogSpec

-----------------------------------------------------------------------------
(* Why NoLoss is inductive *)

\* No size header without its data, no two segments of one name
SoundEnvironment == ~SharedSeconds /\ "torn" \notin Faults

WholeFiles == \A s \in Seconds : tail[s] = "whole"

\* Every record still owed is in some file ...
InSomeFile == \A r \in acked \ asked : \E s \in exists : r \in recs[s]

\* ... files are removed only from under segments that have nothing owed ...
DoomedSettled ==
  /\ ~up => doomed = {}
  /\ \A p \in doomed : recs[seg[p].id] \subseteq asked

\* ... and never from under the open active segment: a listed or doomed segment
\* is the active one only after a rotation that failed half-way closed it.
Apart(p) ==
  IF p = active THEN ~seg[active].open ELSE seg[p].id # seg[active].id

ListedApart == up => \A p \in ToSet(segments) \cup doomed : Apart(p)

\* What holds in any environment, and makes OnlySentDeleted hold
DeletionInv == TypeOK /\ OnlyReportedSuppressed /\ DoomedSettled

LossInv ==
  /\ TypeOK
  /\ WholeFiles
  /\ InSomeFile
  /\ OnlyReportedSuppressed
  /\ ActiveHasFile
  /\ DoomedSettled
  /\ ListedApart

-----------------------------------------------------------------------------
(* Why memory and disk agree *)

\* ... and no companion file truncated but not rewritten
QuietEnvironment == SoundEnvironment /\ "save" \notin Faults

\* A record is in one file at most.
RecordsApart ==
  \A s \in exists : /\ recs[s] \subseteq used
                    /\ \A t \in exists \ {s} : recs[s] \cap recs[t] = {}

\* Every index holds only what MarkSent has returned for.
MarksReturned ==
  /\ \A s \in Seconds : sentFile[s] \subseteq marked
  /\ \A p \in Ptrs : seg[p].sent \subseteq marked

\* The running process has one object for every file, ...
EachListed == up => \A s \in exists : \E p \in InUse : seg[p].id = s
OneObject  == up => \A p, q \in InUse : seg[p].id = seg[q].id => p = q

\* ... which knows what is in the file and which of it is sent.  A closed active
\* segment whose file was removed knows only of records that are.
InStep(p) ==
  LET file == seg[p].id
  IN  IF file \in exists
      THEN /\ recs[file] \ seg[p].sent = recs[file] \ sentFile[file]
           /\ seg[p].indexed => seg[p].ids = recs[file]
      ELSE seg[p].indexed => seg[p].ids \subseteq marked

AllInStep == up => \A p \in InUse : InStep(p)

\* Files are removed only when the disk has all their records as sent.
DoomedSaved == \A p \in doomed : recs[seg[p].id] \subseteq sentFile[seg[p].id]

LogInv ==
  /\ LossInv
  /\ RecordsApart
  /\ MarksReturned
  /\ EachListed
  /\ OneObject
  /\ AllInStep
  /\ DoomedSaved
=============================================================================
