-------------------------------- MODULE Wal --------------------------------
(***************************************************************************)
(* The write-ahead log manager (wal.rs): one file being appended to, up to *)
(* Retain rotated files, a background fsync thread.  The writer mutex is   *)
(* held for an append or an fsync but NOT across rotate, whose file-system *)
(* steps interleave with the appends and rotations of other threads.       *)
(*                                                                         *)
(* A record is the number of its append; a file is an inode holding a      *)
(* sequence of records.  Directory operations are taken to be durable and  *)
(* ordered (the code never fsyncs the directory).                          *)
(***************************************************************************)
EXTENDS Integers, Sequences

CONSTANTS
  Appenders,      \* threads that call append, sync or check_rotate
  MaxSize,        \* max_file_size, in records
  Retain,         \* retain_count
  MaxRecords,     \* bound on the number of appends
  MaxFailures,    \* bound on the number of power failures
  MaxKills        \* bound on the number of process deaths

ASSUME WalAssumption ==
  /\ MaxSize \in Nat /\ Retain \in Nat \ {0}
  /\ MaxRecords \in Nat /\ MaxFailures \in Nat /\ MaxKills \in Nat

VARIABLES
  dir,         \* file name -> inode or None
  content,     \* inode -> records, in the OS buffer or on disk
  on_disk,     \* inode -> how many of them are certain to be on disk
  writer,      \* the WalWriter: the inode it has open, its unsynced_count
  thread,      \* appender -> where it is inside append / rotate
  appended,    \* number of records ever appended
  failures, kills,
  promised,    \* history: records a sync() has returned for
  retired      \* history: records of files deleted for being the oldest

vars == <<dir, content, on_disk, writer, thread, appended, failures, kills,
          promised, retired>>
history == <<failures, kills, promised, retired>>

Names == 0 .. Retain           \* 0: the path itself; n: rotated_path(n)
None == 0                      \* no such file
Torn == 0                      \* a record cut short
Idle == [at |-> "idle", i |-> 0]
At(pc, n) == [at |-> pc, i |-> n]

Linked == {n \in Names : dir[n] # None}
RecordsOf(s) == {s[i] : i \in DOMAIN s} \ {Torn}

\* The records that replay_all would read.
Replayable == UNION {RecordsOf(content[dir[n]]) : n \in Linked}

Init ==
  /\ dir = [n \in Names |-> IF n = 0 THEN 1 ELSE None]
  /\ content = <<<<>>>>
  /\ on_disk = <<0>>
  /\ writer = [inode |-> 1, unsynced |-> 0]
  /\ thread = [a \in Appenders |-> Idle]
  /\ appended = 0
  /\ failures = 0 /\ kills = 0
  /\ promised = {} /\ retired = {}

-----------------------------------------------------------------------------
(* append, sync, check_rotate: under the writer lock *)

\* Mutant: the record goes to the front of the file.
WrittenFirst(s, r) == <<r>> \o s

Written(s, r) == Append(s, r)

Oversize(s) == Len(s) > MaxSize

AppendEvent(a) ==
  /\ thread[a] = Idle
  /\ appended < MaxRecords
  /\ appended' = appended + 1
  /\ LET w == writer.inode
     IN  /\ content' = [content EXCEPT ![w] = Written(@, appended')]
         /\ thread' = [thread EXCEPT ![a] =
              IF Oversize(content'[w]) THEN At("rotate", 0) ELSE Idle]
  /\ writer' = [writer EXCEPT !.unsynced = @ + 1]
  /\ UNCHANGED <<dir, on_disk, history>>

CheckRotate(a) ==
  /\ thread[a] = Idle
  /\ Oversize(content[writer.inode])
  /\ thread' = [thread EXCEPT ![a] = At("rotate", 0)]
  /\ UNCHANGED <<dir, content, on_disk, writer, appended, history>>

\* Mutant: the counter is reset and the file is not fsynced.
FsyncSkipped ==
  /\ UNCHANGED on_disk
  /\ writer' = [writer EXCEPT !.unsynced = 0]

\* Mutant: the manager's total is taken for the length of the file.
FsyncTotal ==
  /\ on_disk' = [on_disk EXCEPT ![writer.inode] = appended]
  /\ writer' = [writer EXCEPT !.unsynced = 0]

\* WalWriter::sync: an fsync of the open file, if anything was appended
\* through this writer since the last one.
Fsync ==
  /\ on_disk' = IF writer.unsynced > 0
                THEN [on_disk EXCEPT ![writer.inode] = Len(content[writer.inode])]
                ELSE on_disk
  /\ writer' = [writer EXCEPT !.unsynced = 0]

Sync(a) ==
  /\ thread[a] = Idle
  /\ Fsync
  /\ promised' = promised \cup Replayable
  /\ UNCHANGED <<dir, content, thread, appended, failures, kills, retired>>

\* The background thread.
BackgroundSync ==
  /\ writer.unsynced > 0
  /\ Fsync
  /\ UNCHANGED <<dir, content, thread, appended, history>>

-----------------------------------------------------------------------------
(* rotate: after the fsync, one file-system call at a time, no lock held *)

\* Mutants: the rotated file is not fsynced; the rotated files are not shifted.
NoSyncBeforeRotation == UNCHANGED <<on_disk, writer>>
FirstMovePath == At("move", 0)

SyncBeforeRotation == Fsync
FirstMove == At("exists", Retain)

RotateSync(a) ==
  /\ thread[a].at = "rotate"
  /\ SyncBeforeRotation
  /\ thread' = [thread EXCEPT ![a] = FirstMove]
  /\ UNCHANGED <<dir, content, appended, history>>

\* if src.exists(): the move follows; otherwise on to the next file.  The path
\* itself is renamed unchecked.
RotateExists(a) ==
  /\ thread[a].at = "exists"
  /\ LET i == thread[a].i
     IN  thread' = [thread EXCEPT ![a] =
           IF i = 0 \/ dir[i] # None THEN At("move", i) ELSE At("exists", i - 1)]
  /\ UNCHANGED <<dir, content, on_disk, writer, appended, history>>

Renamed(i) == [dir EXCEPT ![i] = None, ![i + 1] = dir[i]]

RemoveOldest(a) ==
  /\ thread[a] = At("move", Retain)
  /\ dir[Retain] # None
  /\ dir' = [dir EXCEPT ![Retain] = None]
  /\ retired' = retired \cup RecordsOf(content[dir[Retain]])
  /\ thread' = [thread EXCEPT ![a] = At("exists", Retain - 1)]
  /\ UNCHANGED <<content, on_disk, writer, appended, failures, kills, promised>>

RenameNext(a) ==
  /\ thread[a].at = "move"
  /\ LET i == thread[a].i
     IN  /\ i < Retain
         /\ dir[i] # None
         /\ dir' = Renamed(i)
         /\ thread' = [thread EXCEPT ![a] =
              IF i = 0 THEN At("open", 0) ELSE At("exists", i - 1)]
  /\ UNCHANGED <<content, on_disk, writer, appended, history>>

\* Mutant: the error is ignored and the path opened.
AfterErrorOpen == At("open", 0)

AfterError == Idle

\* remove_file or rename fails because another rotation moved the file first.
RotateFails(a) ==
  /\ thread[a].at = "move"
  /\ dir[thread[a].i] = None
  /\ thread' = [thread EXCEPT ![a] = AfterError]
  /\ UNCHANGED <<dir, content, on_disk, writer, appended, history>>

\* WalWriter::open(path): create the file, or append to what is there.
OpenPath(d, files, disk) ==
  /\ writer' = [inode |-> IF d[0] = None THEN Len(files) + 1 ELSE d[0], unsynced |-> 0]
  /\ dir' = [d EXCEPT ![0] = writer'.inode]
  /\ content' = IF d[0] = None THEN Append(files, <<>>) ELSE files
  /\ on_disk' = IF d[0] = None THEN Append(disk, 0) ELSE disk

RotateOpen(a) ==
  /\ thread[a].at = "open"
  /\ OpenPath(dir, content, on_disk)
  /\ thread' = [thread EXCEPT ![a] = Idle]
  /\ UNCHANGED <<appended, history>>

Rotate(a) ==
  RotateSync(a) \/ RotateExists(a) \/ RemoveOldest(a) \/ RenameNext(a)
    \/ RotateFails(a) \/ RotateOpen(a)

-----------------------------------------------------------------------------
(* failures, each followed by a restart that opens the log again *)

\* What a power failure may leave of a file.
Survivors(i) ==
  {SubSeq(content[i], 1, k) : k \in on_disk[i] .. Len(content[i])}
    \cup {Append(SubSeq(content[i], 1, k), Torn) : k \in on_disk[i] .. Len(content[i]) - 1}

PowerFailure ==
  /\ failures < MaxFailures
  /\ failures' = failures + 1
  /\ LET inodes == {dir[n] : n \in Linked}
     IN  \E left \in [inodes -> UNION {Survivors(i) : i \in inodes}] :
           /\ \A i \in inodes : left[i] \in Survivors(i)
           /\ LET files == [i \in DOMAIN content |-> IF i \in inodes THEN left[i] ELSE <<>>]
              IN  OpenPath(dir, files, [i \in DOMAIN files |-> Len(files[i])])
  /\ thread' = [a \in Appenders |-> Idle]
  /\ UNCHANGED <<appended, kills, promised, retired>>

\* The process dies; the OS keeps its buffers.
ProcessDeath ==
  /\ kills < MaxKills
  /\ kills' = kills + 1
  /\ OpenPath(dir, content, on_disk)
  /\ thread' = [a \in Appenders |-> Idle]
  /\ UNCHANGED <<appended, failures, promised, retired>>

-----------------------------------------------------------------------------
Next ==
  \/ \E a \in Appenders : AppendEvent(a) \/ CheckRotate(a) \/ Sync(a) \/ Rotate(a)
  \/ BackgroundSync
  \/ PowerFailure
  \/ ProcessDeath

Spec == Init /\ [][Next]_vars

\* The background thread runs until shutdown.
FairSpec == Spec /\ WF_vars(BackgroundSync) /\ \A a \in Appenders : WF_vars(Rotate(a))

-----------------------------------------------------------------------------
\* Type correctness.
TypeOK ==
  /\ content \in Seq(Seq(Nat))
  /\ on_disk \in Seq(Nat) /\ Len(on_disk) = Len(content)
  /\ \A i \in DOMAIN content : on_disk[i] \in 0 .. Len(content[i])
  /\ dir \in [Names -> {None} \cup DOMAIN content]
  /\ writer \in [inode : DOMAIN content, unsynced : Nat]
  /\ thread \in [Appenders -> [at : {"idle", "rotate", "exists", "move", "open"}, i : Names]]
  /\ appended \in 0 .. MaxRecords
  /\ promised \subseteq 1 .. appended /\ retired \subseteq 1 .. appended

\* The records that survive whatever happens next.
OnDisk == UNION {RecordsOf(SubSeq(content[dir[n]], 1, on_disk[dir[n]])) : n \in Linked}

\* "Full replay: old WAL + current WAL (in order)": the files, oldest first,
\* hold the records in the order of their append, whatever rotations overlap.
OrderPreserved ==
  \A m, n \in Linked : m <= n =>
    \A i \in DOMAIN content[dir[n]], j \in DOMAIN content[dir[m]] :
      LET older == content[dir[n]][i]
          newer == content[dir[m]][j]
      IN  (m < n \/ i < j) /\ older # Torn /\ newer # Torn => older < newer

\* The path is missing only while the one rotation that moved it away has yet
\* to open the new file.
OneOpener ==
  /\ \A a, b \in Appenders : thread[a].at = "open" /\ thread[b].at = "open" => a = b
  /\ dir[0] = None <=> \E a \in Appenders : thread[a].at = "open"

\* "ensures all pending records are durable": once sync() has returned, the
\* records in the log are on disk until their file is retired.
SyncedIsDurable == promised \ retired \subseteq OnDisk

\* Rotation deletes no file but the one that is beyond retain_count.
OnlyOldestDeleted ==
  [][\A n \in Linked \ {Retain} : \E m \in Names : dir'[m] = dir[n]]_vars

\* "a background thread fsyncs periodically": an appended record does not stay
\* in the OS buffer for ever.
EventuallyDurable ==
  \A r \in 1 .. MaxRecords : (r \in Replayable) ~> (r \in OnDisk \/ r \notin Replayable)
=============================================================================
