----------------------------- MODULE WalProofs -----------------------------
(***************************************************************************)
(* Proofs about Wal.                                                       *)
(*                                                                         *)
(* For any number of appenders, any file size and any retain_count:        *)
(* whatever rotations overlap and whatever fails, replay reads the records *)
(* in the order of their append, and the path is missing only while the    *)
(* one rotation that moved it has yet to open a new file (WalInv).         *)
(*                                                                         *)
(* For one appending thread:                                               *)
(* rotation deletes no file but the one beyond retain_count (RotationInv:  *)
(* the next name is free); where power may fail but the process does not   *)
(* die alone, what sync() returned for stays on disk (DiskInv: every file  *)
(* but the open one is), and the files together implement DurableLog.      *)
(***************************************************************************)
EXTENDS WalRefinement, TLAPS

\* No record is newer than the counter.
Numbered ==
  \A i \in DOMAIN content : \A j \in DOMAIN content[i] : content[i][j] <= appended

\* No two names lead to one file.
DistinctFiles == \A m, n \in Linked : dir[m] = dir[n] => m = n

\* The file being written, while it has a name, is the newest one.
WriterNewest == \A m, n \in Linked : dir[n] = writer.inode => n <= m

WalInv == TypeOK /\ OrderPreserved /\ OneOpener /\ Numbered /\ DistinctFiles /\ WriterNewest

\* Updating and extending a sequence.
LEMMA SeqUpdated ==
  ASSUME NEW S, NEW s \in Seq(S), NEW i \in DOMAIN s, NEW x \in S
  PROVE  /\ [s EXCEPT ![i] = x] \in Seq(S)
         /\ Len([s EXCEPT ![i] = x]) = Len(s)
         /\ DOMAIN [s EXCEPT ![i] = x] = DOMAIN s
         /\ \A k \in DOMAIN s : [s EXCEPT ![i] = x][k] = IF k = i THEN x ELSE s[k]
OBVIOUS

\* What Append does to the length, the domain and the elements.
LEMMA SeqAppended ==
  ASSUME NEW S, NEW s \in Seq(S), NEW x \in S
  PROVE  /\ Append(s, x) \in Seq(S)
         /\ Len(Append(s, x)) = Len(s) + 1
         /\ DOMAIN Append(s, x) = 1 .. Len(s) + 1 /\ DOMAIN s = 1 .. Len(s)
         /\ \A k \in DOMAIN s : Append(s, x)[k] = s[k]
         /\ Append(s, x)[Len(s) + 1] = x
OBVIOUS

\* What the order of the records depends on.
logVars == <<dir, content, appended>>

-----------------------------------------------------------------------------
\* The initial state: one empty file, open and being written.
LEMMA InitInv == Init => WalInv
<1> SUFFICES ASSUME Init PROVE WalInv
  OBVIOUS
<1> USE WalAssumption DEF Init
<1>1. /\ content \in Seq(Seq(Nat)) /\ Len(content) = 1 /\ content[1] = <<>>
      /\ on_disk \in Seq(Nat) /\ Len(on_disk) = 1 /\ on_disk[1] = 0
  OBVIOUS
<1>2. Linked = {0} /\ dir[0] = 1 /\ 0 \in Names
  BY DEF Linked, Names, None
<1>3. TypeOK
  BY <1>1 DEF TypeOK, Names, None, Idle
<1>4. OrderPreserved /\ Numbered /\ DistinctFiles /\ WriterNewest
  BY <1>1, <1>2 DEF OrderPreserved, Numbered, DistinctFiles, WriterNewest
<1>5. OneOpener
  BY <1>2 DEF OneOpener, None, Idle
<1> QED
  BY <1>3, <1>4, <1>5 DEF WalInv

\* Every record that replay reads has a number that was handed out.
LEMMA ReplayableNumbered ==
  ASSUME TypeOK, Numbered
  PROVE  /\ Replayable \subseteq 1 .. appended
         /\ \A n \in Linked : RecordsOf(content[dir[n]]) \subseteq 1 .. appended
<1>1. \A n \in Linked : RecordsOf(content[dir[n]]) \subseteq 1 .. appended
  <2> TAKE n \in Linked
  <2>1. dir[n] \in DOMAIN content /\ content[dir[n]] \in Seq(Nat)
    BY DEF TypeOK, Linked
  <2>2. \A j \in DOMAIN content[dir[n]] : content[dir[n]][j] \in Nat /\ content[dir[n]][j] <= appended
    BY <2>1 DEF Numbered
  <2> QED
    BY SMTT(30), <2>2 DEF RecordsOf, Torn, TypeOK
<1> QED
  BY <1>1 DEF Replayable

\* A step that leaves the names, the files and the counter alone, and the
\* writer on its file, preserves the order.
LEMMA OrderUnchanged ==
  ASSUME OrderPreserved, Numbered, DistinctFiles, WriterNewest,
         UNCHANGED logVars, writer'.inode = writer.inode
  PROVE  (OrderPreserved /\ Numbered /\ DistinctFiles /\ WriterNewest)'
BY DEF OrderPreserved, Numbered, DistinctFiles, WriterNewest, logVars, Linked

\* The places a thread can be at.
Pcs == [at : {"idle", "rotate", "exists", "move", "open"}, i : Names]

\* Moving one thread to a place that is not "open" changes nobody's being there.
LEMMA PcMoved ==
  ASSUME thread \in [Appenders -> Pcs], NEW a \in Appenders, NEW t \in Pcs,
         t.at # "open", thread[a].at # "open", thread' = [thread EXCEPT ![a] = t]
  PROVE  /\ thread' \in [Appenders -> Pcs]
         /\ \A b \in Appenders : thread'[b].at = "open" <=> thread[b].at = "open"
<1>1. \A b \in Appenders : thread'[b] = IF b = a THEN t ELSE thread[b]
  OBVIOUS
<1>2. thread' \in [Appenders -> Pcs]
  OBVIOUS
<1> QED
  BY <1>1, <1>2

\* An fsync leaves the writer on its file and marks no more than the file holds.
LEMMA FsyncStep ==
  ASSUME TypeOK, Fsync
  PROVE  /\ writer'.inode = writer.inode
         /\ writer' \in [inode : DOMAIN content, unsynced : Nat]
         /\ on_disk' \in Seq(Nat) /\ Len(on_disk') = Len(content)
         /\ \A i \in DOMAIN content : on_disk'[i] \in 0 .. Len(content[i])
<1>1. writer \in [inode : DOMAIN content, unsynced : Nat]
  BY DEF TypeOK
<1>2. writer'.inode = writer.inode /\ writer' \in [inode : DOMAIN content, unsynced : Nat]
  BY <1>1 DEF Fsync
<1>3. content[writer.inode] \in Seq(Nat) /\ Len(content[writer.inode]) \in Nat
  BY <1>1 DEF TypeOK
<1>4. CASE on_disk' = on_disk
  BY <1>2, <1>4 DEF TypeOK
<1>5. CASE on_disk' = [on_disk EXCEPT ![writer.inode] = Len(content[writer.inode])]
  BY SMTT(30), <1>1, <1>2, <1>3, <1>5 DEF TypeOK
<1> QED
  BY <1>4, <1>5 DEF Fsync

-----------------------------------------------------------------------------
\* append: the new record is the newest of all and goes to the newest file.
LEMMA AppendInv ==
  ASSUME WalInv, NEW a \in Appenders, AppendEvent(a)
  PROVE  WalInv'
<1> USE WalAssumption
<1> DEFINE w == writer.inode
<1>0. TypeOK /\ OrderPreserved /\ OneOpener /\ Numbered /\ DistinctFiles /\ WriterNewest
  BY DEF WalInv
<1>t. /\ content \in Seq(Seq(Nat)) /\ dir \in [Names -> {None} \cup DOMAIN content]
      /\ writer \in [inode : DOMAIN content, unsynced : Nat]
      /\ appended \in 0 .. MaxRecords
  BY <1>0 DEF TypeOK
<1>1. /\ w \in DOMAIN content /\ content[w] \in Seq(Nat)
      /\ appended \in Nat /\ appended' = appended + 1 /\ appended' <= MaxRecords
  <2>1. appended < MaxRecords /\ appended' = appended + 1
    BY DEF AppendEvent
  <2> QED
    BY <1>t, <2>1
<1>2. /\ dir' = dir /\ Linked' = Linked /\ on_disk' = on_disk
      /\ writer' = [writer EXCEPT !.unsynced = @ + 1]
  BY DEF AppendEvent, Linked
<1>3. /\ content' = [content EXCEPT ![w] = Append(content[w], appended')]
      /\ promised' = promised /\ retired' = retired
  BY DEF AppendEvent, Written, history
<1>5. /\ content'[w] \in Seq(Nat)
      /\ DOMAIN content'[w] = 1 .. Len(content[w]) + 1
      /\ Len(content'[w]) = Len(content[w]) + 1
      /\ \A j \in DOMAIN content[w] : content'[w][j] = content[w][j]
      /\ content'[w][Len(content[w]) + 1] = appended'
      /\ DOMAIN content[w] = 1 .. Len(content[w])
      /\ content'[w] = Append(content[w], appended')
  <2>1. content'[w] = Append(content[w], appended')
    BY <1>1, <1>3
  <2>2. appended' \in Nat
    BY <1>1
  <2> QED
    BY SMTT(30), <1>1, <2>1, <2>2, SeqAppended
<1>4. /\ content' \in Seq(Seq(Nat)) /\ Len(content') = Len(content)
      /\ DOMAIN content' = DOMAIN content
      /\ \A i \in DOMAIN content : i # w => content'[i] = content[i]
  <2>1. content \in Seq(Seq(Nat)) /\ Append(content[w], appended') \in Seq(Nat)
    BY <1>5, <1>t
  <2> QED
    BY SMTT(30), <1>1, <1>3, <2>1, SeqUpdated
<1>6. writer' \in [inode : DOMAIN content, unsynced : Nat] /\ writer'.inode = w
  <2>1. writer \in [inode : DOMAIN content, unsynced : Nat] /\ writer' = [writer EXCEPT !.unsynced = @ + 1]
    BY <1>2, <1>t
  <2> QED
    BY <2>1
<1>7. /\ thread' \in [Appenders -> [at : {"idle", "rotate", "exists", "move", "open"}, i : Names]]
      /\ \A b \in Appenders : thread'[b].at = "open" <=> thread[b].at = "open"
  <2>1. thread[a] = Idle /\ 0 \in Names
    BY DEF AppendEvent, Names
  <2>2. \E t \in {At("rotate", 0), Idle} : thread' = [thread EXCEPT ![a] = t]
    BY Zenon DEF AppendEvent
  <2> QED
    BY SMTT(30), <1>0, <2>1, <2>2 DEF TypeOK, Idle, At
<1>8. TypeOK'
  <2>1. \A i \in DOMAIN content : on_disk'[i] \in 0 .. Len(content'[i])
    <3> TAKE i \in DOMAIN content
    <3>1. on_disk[i] \in 0 .. Len(content[i]) /\ content[i] \in Seq(Nat)
      BY <1>0 DEF TypeOK
    <3>2. Len(content'[i]) \in {Len(content[i]), Len(content[i]) + 1}
      BY Zenon, <1>4, <1>5
    <3> QED
      BY SMTT(30), <1>2, <3>1, <3>2
  <2>2. promised' \subseteq 1 .. appended' /\ retired' \subseteq 1 .. appended'
    <3>1. promised \subseteq 1 .. appended /\ retired \subseteq 1 .. appended
      BY <1>0 DEF TypeOK
    <3>2. 1 .. appended \subseteq 1 .. appended'
      BY <1>1
    <3> QED
      BY <1>3, <3>1, <3>2
  <2>3. on_disk' \in Seq(Nat) /\ Len(on_disk') = Len(content')
    BY <1>0, <1>2, <1>4 DEF TypeOK
  <2>4. dir' \in [Names -> {None} \cup DOMAIN content']
    BY <1>2, <1>4, <1>t
  <2>5. appended' \in 0 .. MaxRecords
    BY <1>1
  <2> QED
    BY SMTT(30), <1>4, <1>6, <1>7, <2>1, <2>2, <2>3, <2>4, <2>5 DEF TypeOK
<1>9. Numbered'
  <2> SUFFICES ASSUME NEW i \in DOMAIN content, NEW j \in DOMAIN content'[i]
               PROVE  content'[i][j] <= appended'
    BY <1>4 DEF Numbered
  <2>1. content[i] \in Seq(Nat) /\ \A l \in DOMAIN content[i] : content[i][l] \in Nat /\ content[i][l] <= appended
    BY SMTT(30), <1>0, <1>t DEF Numbered
  <2>2. CASE i # w
    BY SMTT(30), <1>1, <1>4, <2>1, <2>2
  <2>3. CASE i = w
    <3>1. CASE j \in DOMAIN content[w]
      BY SMTT(30), <1>1, <1>5, <2>1, <2>3, <3>1
    <3>2. CASE j = Len(content[w]) + 1
      BY <1>1, <1>5, <2>3, <3>2
    <3> QED
      BY <1>5, <2>1, <2>3, <3>1, <3>2
  <2> QED
    BY <2>2, <2>3
<1>10. OrderPreserved'
  <2> SUFFICES ASSUME NEW m \in Linked, NEW n \in Linked, m <= n,
                      NEW i \in DOMAIN content'[dir[n]], NEW j \in DOMAIN content'[dir[m]],
                      m < n \/ i < j,
                      content'[dir[n]][i] # Torn, content'[dir[m]][j] # Torn
               PROVE  content'[dir[n]][i] < content'[dir[m]][j]
    BY <1>2 DEF OrderPreserved
  <2>0. /\ dir[m] \in DOMAIN content /\ dir[n] \in DOMAIN content /\ m \in Nat /\ n \in Nat
        /\ content[dir[m]] \in Seq(Nat) /\ content[dir[n]] \in Seq(Nat)
    <3>1. m \in Names /\ n \in Names /\ dir[m] # None /\ dir[n] # None
      BY DEF Linked
    <3>2. m \in Nat /\ n \in Nat
      BY <3>1 DEF Names
    <3>3. dir[m] \in DOMAIN content /\ dir[n] \in DOMAIN content
      BY Zenon, <1>t, <3>1
    <3> QED
      BY <1>t, <3>2, <3>3
  <2>1. CASE i \in DOMAIN content[dir[n]] /\ j \in DOMAIN content[dir[m]]
    <3>1. content'[dir[n]][i] = content[dir[n]][i] /\ content'[dir[m]][j] = content[dir[m]][j]
      BY Zenon, <1>4, <1>5, <2>0, <2>1
    <3> QED
      BY <1>0, <2>1, <3>1 DEF OrderPreserved
  <2>2. CASE dir[m] = w /\ j = Len(content[w]) + 1 /\ i \in DOMAIN content[dir[n]]
    <3>1. content'[dir[m]][j] = appended'
      BY <1>5, <2>2
    <3>2. content'[dir[n]][i] = content[dir[n]][i]
      BY Zenon, <1>4, <1>5, <2>0, <2>2
    <3>3. content[dir[n]][i] \in Nat /\ content[dir[n]][i] <= appended
      BY SMTT(30), <1>0, <2>0, <2>2 DEF Numbered
    <3> QED
      BY <1>1, <3>1, <3>2, <3>3
  <2>3. CASE dir[n] = w /\ i = Len(content[w]) + 1
    <3>1. n <= m
      BY <1>0, <2>3 DEF WriterNewest
    <3>2. m = n
      BY <2>0, <3>1
    <3> QED
      BY <1>5, <2>0, <2>3, <3>2
  <2>4. \A l \in Linked : \A k \in DOMAIN content'[dir[l]] :
          k \in DOMAIN content[dir[l]] \/ (dir[l] = w /\ k = Len(content[w]) + 1)
    <3> TAKE l \in Linked
    <3>1. dir[l] \in DOMAIN content
      BY <1>t DEF Linked
    <3>2. CASE dir[l] = w
      <4>1. DOMAIN content'[dir[l]] = 1 .. Len(content[w]) + 1 /\ DOMAIN content[dir[l]] = 1 .. Len(content[w])
        BY <1>5, <3>2
      <4>2. Len(content[w]) \in Nat
        BY <1>1
      <4> QED
        BY <3>2, <4>1, <4>2
    <3>3. CASE dir[l] # w
      BY <1>4, <3>1, <3>3
    <3> QED
      BY <3>2, <3>3
  <2> QED
    BY Zenon, <2>1, <2>2, <2>3, <2>4
<1>11. DistinctFiles' /\ WriterNewest'
  BY <1>0, <1>2, <1>6 DEF DistinctFiles, WriterNewest
<1>12. OneOpener'
  BY <1>0, <1>2, <1>7 DEF OneOpener
<1> QED
  BY <1>8, <1>9, <1>10, <1>11, <1>12 DEF WalInv

\* The steps that move no file.
LEMMA QuietInv ==
  ASSUME WalInv, NEW a \in Appenders,
         CheckRotate(a) \/ Sync(a) \/ RotateSync(a) \/ RotateExists(a) \/ RotateFails(a)
  PROVE  WalInv'
<1> USE WalAssumption DEF WalInv
<1> DEFINE Pc == [at : {"idle", "rotate", "exists", "move", "open"}, i : Names]
<1>1. UNCHANGED logVars /\ Linked' = Linked
  BY DEF CheckRotate, Sync, RotateSync, RotateExists, RotateFails, logVars, Linked
<1>2. /\ writer'.inode = writer.inode
      /\ writer' \in [inode : DOMAIN content, unsynced : Nat]
      /\ on_disk' \in Seq(Nat) /\ Len(on_disk') = Len(content)
      /\ \A i \in DOMAIN content : on_disk'[i] \in 0 .. Len(content[i])
  <2>1. CASE Fsync
    BY <2>1, FsyncStep
  <2>2. CASE UNCHANGED <<writer, on_disk>>
    BY <2>2 DEF TypeOK
  <2> QED
    BY <2>1, <2>2 DEF CheckRotate, Sync, RotateSync, SyncBeforeRotation, RotateExists, RotateFails
<1>3. (OrderPreserved /\ Numbered /\ DistinctFiles /\ WriterNewest)'
  BY <1>1, <1>2, OrderUnchanged
<1>4. promised' \subseteq 1 .. appended /\ retired' \subseteq 1 .. appended
  BY Zenon, ReplayableNumbered
    DEF TypeOK, CheckRotate, Sync, RotateSync, RotateExists, RotateFails, history
<1>6. thread' \in [Appenders -> Pc] /\ \A b \in Appenders : thread'[b].at = "open" <=> thread[b].at = "open"
  <2> DEFINE P == thread' \in [Appenders -> Pc]
                    /\ \A b \in Appenders : thread'[b].at = "open" <=> thread[b].at = "open"
  <2>0. thread \in [Appenders -> Pc] /\ 0 \in Names /\ Retain \in Names
    BY DEF TypeOK, Names
  <2>1. CASE CheckRotate(a)
    <3>1. At("rotate", 0) \in Pc /\ At("rotate", 0).at # "open" /\ thread[a].at # "open"
      BY <2>0, <2>1 DEF CheckRotate, At, Idle
    <3>2. thread' = [thread EXCEPT ![a] = At("rotate", 0)]
      BY <2>1 DEF CheckRotate
    <3> QED
      BY <2>0, <3>1, <3>2, PcMoved DEF Pcs
  <2>2. CASE RotateSync(a)
    <3>1. FirstMove \in Pc /\ FirstMove.at # "open" /\ thread[a].at # "open"
      BY <2>0, <2>2 DEF RotateSync, At, FirstMove
    <3>2. thread' = [thread EXCEPT ![a] = FirstMove]
      BY <2>2 DEF RotateSync
    <3> QED
      BY <2>0, <3>1, <3>2, PcMoved DEF Pcs
  <2>3. CASE RotateExists(a)
    <3>1. thread[a].i \in Names /\ thread[a].at # "open"
      BY <2>0, <2>3 DEF RotateExists
    <3>2. CASE thread' = [thread EXCEPT ![a] = At("move", thread[a].i)]
      <4>1. At("move", thread[a].i) \in Pc /\ At("move", thread[a].i).at # "open"
        BY <3>1 DEF At
      <4> QED
        BY <2>0, <3>1, <3>2, <4>1, PcMoved DEF Pcs
    <3>3. CASE thread[a].i # 0 /\ thread' = [thread EXCEPT ![a] = At("exists", thread[a].i - 1)]
      <4>0. thread[a].i - 1 \in Names
        BY <3>1, <3>3 DEF Names
      <4>1. At("exists", thread[a].i - 1) \in Pc /\ At("exists", thread[a].i - 1).at # "open"
        BY <4>0 DEF At
      <4> QED
        BY <2>0, <3>1, <3>3, <4>1, PcMoved DEF Pcs
    <3> QED
      BY Zenon, <2>3, <3>2, <3>3 DEF RotateExists
  <2>4. CASE RotateFails(a)
    <3>1. AfterError \in Pc /\ AfterError.at # "open" /\ thread[a].at # "open"
      BY <2>0, <2>4 DEF RotateFails, AfterError, Idle
    <3>2. thread' = [thread EXCEPT ![a] = AfterError]
      BY <2>4 DEF RotateFails
    <3> QED
      BY <2>0, <3>1, <3>2, PcMoved DEF Pcs
  <2>5. CASE Sync(a) \/ BackgroundSync
    BY Zenon, <2>0, <2>5 DEF Sync, BackgroundSync
  <2> QED
    BY <2>1, <2>2, <2>3, <2>4, <2>5
<1>7. TypeOK'
  BY Zenon, <1>1, <1>2, <1>4, <1>6 DEF TypeOK, logVars
<1>8. OneOpener'
  BY <1>1, <1>6 DEF OneOpener, logVars
<1> QED
  BY <1>3, <1>7, <1>8

\* remove_file of the oldest: fewer files, in the same order.
LEMMA RemoveInv ==
  ASSUME WalInv, NEW a \in Appenders, RemoveOldest(a)
  PROVE  WalInv'
<1> USE WalAssumption DEF WalInv
<1>1. /\ content' = content /\ appended' = appended /\ writer' = writer /\ on_disk' = on_disk
      /\ promised' = promised
      /\ retired' = retired \cup RecordsOf(content[dir[Retain]])
      /\ dir' = [dir EXCEPT ![Retain] = None]
      /\ thread' = [thread EXCEPT ![a] = At("exists", Retain - 1)]
      /\ thread[a] = At("move", Retain)
  BY Zenon DEF RemoveOldest
<1>2. dir \in [Names -> {None} \cup DOMAIN content] /\ Retain \in Names /\ 0 \in Names /\ Retain - 1 \in Names
  BY SMTT(30) DEF TypeOK, Names
<1>3. /\ Linked' = Linked \ {Retain} /\ Retain \in Linked /\ Retain # 0
      /\ \A n \in Names : n # Retain => dir'[n] = dir[n]
      /\ dir' \in [Names -> {None} \cup DOMAIN content]
  BY <1>1, <1>2 DEF Linked, RemoveOldest
<1>4. OrderPreserved'
  BY SMTT(30), <1>1, <1>3 DEF OrderPreserved, Linked
<1>5. Numbered'
  BY Zenon, <1>1 DEF Numbered
<1>6. DistinctFiles' /\ WriterNewest'
  BY Zenon, <1>1, <1>3 DEF DistinctFiles, WriterNewest, Linked
<1>7. /\ thread' \in [Appenders -> Pcs]
      /\ \A b \in Appenders : thread'[b].at = "open" <=> thread[b].at = "open"
  <2>1. At("exists", Retain - 1) \in Pcs /\ At("exists", Retain - 1).at # "open" /\ thread[a].at # "open"
    BY <1>1, <1>2 DEF At, Pcs
  <2>2. thread \in [Appenders -> Pcs]
    BY DEF TypeOK, Pcs
  <2> QED
    BY <1>1, <2>1, <2>2, PcMoved
<1>8. retired' \subseteq 1 .. appended
  <2>1. retired \subseteq 1 .. appended
    BY DEF TypeOK
  <2> QED
    BY Zenon, <1>1, <1>3, <2>1, ReplayableNumbered
<1>9. TypeOK'
  BY <1>1, <1>3, <1>7, <1>8 DEF TypeOK, Pcs
<1>10. OneOpener'
  <2>1. dir'[0] = dir[0]
    BY <1>2, <1>3
  <2> QED
    BY Zenon, <1>7, <2>1 DEF OneOpener
<1> QED
  BY <1>4, <1>5, <1>6, <1>9, <1>10

\* Giving file i the name i + 1 keeps the names in order when none is left
\* at i.
LEMMA ShiftedNames ==
  ASSUME NEW i \in Nat, NEW m \in Nat, NEW n \in Nat, m # i, n # i
  PROVE  LET Old(k) == IF k = i + 1 THEN i ELSE k
         IN  /\ m < n => Old(m) < Old(n)
             /\ Old(m) = Old(n) => m = n
             /\ Old(n) <= Old(m) => n <= m
OBVIOUS

\* rename: a file takes the next older name, over the file that had it.
LEMMA RenameInv ==
  ASSUME WalInv, NEW a \in Appenders, RenameNext(a)
  PROVE  WalInv'
<1> USE WalAssumption
<1> DEFINE i == thread[a].i
<1>0. TypeOK /\ OrderPreserved /\ OneOpener /\ Numbered /\ DistinctFiles /\ WriterNewest
  BY DEF WalInv
<1>1. /\ content' = content /\ appended' = appended /\ writer' = writer /\ on_disk' = on_disk
      /\ promised' = promised /\ retired' = retired
      /\ dir' = [dir EXCEPT ![i] = None, ![i + 1] = dir[i]]
      /\ thread' = [thread EXCEPT ![a] = IF i = 0 THEN At("open", 0) ELSE At("exists", i - 1)]
      /\ thread[a].at = "move" /\ i < Retain /\ dir[i] # None
  BY DEF RenameNext, Renamed, history
<1>9. thread \in [Appenders -> Pcs] /\ dir \in [Names -> {None} \cup DOMAIN content]
  BY SMTT(30), <1>0 DEF TypeOK, Pcs
<1>i. i \in Names
  BY <1>9 DEF Pcs
<1> HIDE DEF i
<1>2. /\ dir \in [Names -> {None} \cup DOMAIN content] /\ i \in Names /\ i + 1 \in Names /\ 0 \in Names
      /\ Names \subseteq Nat
  BY SMTT(30), <1>1, <1>9, <1>i DEF Names
<1>3. /\ i \in Linked /\ Linked' = (Linked \ {i}) \cup {i + 1}
      /\ dir'[i + 1] = dir[i]
      /\ \A n \in Linked' : n # i + 1 => dir'[n] = dir[n] /\ n \in Linked /\ n # i
      /\ dir' \in [Names -> {None} \cup DOMAIN content]
  BY Zenon, <1>1, <1>2 DEF Linked, None
<1> DEFINE Old(n) == IF n = i + 1 THEN i ELSE n
<1>4. /\ \A n \in Linked' : Old(n) \in Linked /\ dir'[n] = dir[Old(n)] /\ Old(n) \in Nat /\ n \in Nat
      /\ \A m, n \in Linked' : m < n => Old(m) < Old(n)
      /\ \A m, n \in Linked' : Old(m) = Old(n) => m = n
      /\ \A m, n \in Linked' : Old(n) <= Old(m) => n <= m
  <2>1. \A n \in Linked' : Old(n) \in Linked /\ dir'[n] = dir[Old(n)] /\ Old(n) \in Nat /\ n \in Nat
    BY Zenon, <1>2, <1>3 DEF Linked
  <2>2. \A n \in Linked' : n # i
    BY <1>2, <1>3
  <2>3. i \in Nat
    BY <1>2
  <2>4. \A m, n \in Linked' : m \in Nat /\ n \in Nat /\ m # i /\ n # i
    BY <2>1, <2>2
  <2>5. \A m, n \in Linked' : /\ m < n => Old(m) < Old(n)
                              /\ Old(m) = Old(n) => m = n
                              /\ Old(n) <= Old(m) => n <= m
    <3> TAKE m, n \in Linked'
    <3>1. m \in Nat /\ n \in Nat /\ m # i /\ n # i
      BY Zenon, <2>4
    <3> QED
      BY <2>3, <3>1, ShiftedNames
  <2> QED
    BY Zenon, <2>1, <2>5
<1> HIDE DEF Old
<1>5. OrderPreserved'
  <2> SUFFICES ASSUME NEW m \in Linked', NEW n \in Linked', m <= n,
                      NEW k \in DOMAIN content[dir'[n]], NEW j \in DOMAIN content[dir'[m]],
                      m < n \/ k < j,
                      content[dir'[n]][k] # Torn, content[dir'[m]][j] # Torn
               PROVE  content[dir'[n]][k] < content[dir'[m]][j]
    BY Zenon, <1>1 DEF OrderPreserved
  <2>1. Old(m) \in Linked /\ Old(n) \in Linked /\ dir'[n] = dir[Old(n)] /\ dir'[m] = dir[Old(m)]
    BY Zenon, <1>4
  <2>2. Old(m) <= Old(n) /\ (m < n => Old(m) < Old(n))
    BY SMTT(30), <1>4
  <2> QED
    BY Zenon, <1>0, <2>1, <2>2 DEF OrderPreserved
<1>6. Numbered'
  BY <1>0, <1>1 DEF Numbered
<1>7. DistinctFiles'
  BY <1>0, <1>4 DEF DistinctFiles
<1>8. WriterNewest'
  BY Zenon, <1>0, <1>1, <1>4 DEF WriterNewest
<1>10. TypeOK' /\ OneOpener'
  <2>1. CASE i = 0
    <3>1. At("open", 0) \in Pcs /\ thread' = [thread EXCEPT ![a] = At("open", 0)] /\ At("open", 0).at = "open"
      BY <1>1, <1>2, <2>1 DEF At, Pcs
    <3>2. thread' \in [Appenders -> Pcs] /\ thread'[a].at = "open" /\ \A b \in Appenders : b # a => thread'[b] = thread[b]
      BY <1>9, <3>1
    <3>3. dir'[0] = None /\ \A b \in Appenders : thread[b].at # "open"
      BY SMTT(30), <1>0, <1>1, <1>2, <2>1 DEF OneOpener
    <3>4. TypeOK'
      BY Zenon, <1>0, <1>1, <1>3, <3>2 DEF TypeOK, Pcs
    <3>5. OneOpener'
      BY <3>2, <3>3 DEF OneOpener
    <3> QED
      BY <3>4, <3>5
  <2>2. CASE i # 0
    <3>1. i - 1 \in Names
      BY <1>2, <2>2 DEF Names
    <3>2. At("exists", i - 1) \in Pcs /\ thread' = [thread EXCEPT ![a] = At("exists", i - 1)]
          /\ At("exists", i - 1).at # "open"
      BY Zenon, <1>1, <2>2, <3>1 DEF At, Pcs
    <3>3. thread' \in [Appenders -> Pcs] /\ \A b \in Appenders : thread'[b].at = "open" <=> thread[b].at = "open"
      BY <1>1, <1>9, <3>2, PcMoved
    <3>4. dir'[0] = dir[0]
      BY SMTT(30), <1>1, <1>2, <2>2
    <3>5. TypeOK'
      BY Zenon, <1>0, <1>1, <1>3, <3>3 DEF TypeOK, Pcs
    <3>6. OneOpener'
      BY Zenon, <1>0, <3>3, <3>4 DEF OneOpener
    <3> QED
      BY <3>5, <3>6
  <2> QED
    BY <2>1, <2>2
<1> QED
  BY <1>5, <1>6, <1>7, <1>8, <1>10 DEF WalInv

-----------------------------------------------------------------------------
\* A function on an initial segment of the naturals is a sequence.
LEMMA SeqDefined ==
  ASSUME NEW S, NEW n \in Nat, NEW f \in [1 .. n -> S]
  PROVE  f \in Seq(S) /\ Len(f) = n /\ DOMAIN f = 1 .. n
OBVIOUS

\* OrderPreserved and Numbered, of files that may differ from those in content.
OrderedIn(files) ==
  \A m, n \in Linked : m <= n =>
    \A i \in DOMAIN files[dir[n]], j \in DOMAIN files[dir[m]] :
      (m < n \/ i < j) /\ files[dir[n]][i] # Torn /\ files[dir[m]][j] # Torn
        => files[dir[n]][i] < files[dir[m]][j]
NumberedIn(files) == \A i \in DOMAIN files : \A j \in DOMAIN files[i] : files[i][j] <= appended

\* Opening the path, on files that are in order, keeps them in order and leaves
\* the writer on the newest.
LEMMA OpenPathInv ==
  ASSUME dir \in [Names -> {None} \cup DOMAIN content], content \in Seq(Seq(Nat)),
         NEW files \in Seq(Seq(Nat)), Len(files) = Len(content),
         NEW disk \in Seq(Nat), Len(disk) = Len(files),
         \A i \in DOMAIN files : disk[i] \in 0 .. Len(files[i]),
         OrderedIn(files), NumberedIn(files), DistinctFiles, appended' = appended,
         OpenPath(dir, files, disk)
  PROVE  /\ content' \in Seq(Seq(Nat))
         /\ on_disk' \in Seq(Nat) /\ Len(on_disk') = Len(content')
         /\ \A i \in DOMAIN content' : on_disk'[i] \in 0 .. Len(content'[i])
         /\ dir' \in [Names -> {None} \cup DOMAIN content']
         /\ writer' \in [inode : DOMAIN content', unsynced : Nat]
         /\ dir'[0] # None
         /\ OrderPreserved' /\ Numbered' /\ DistinctFiles' /\ WriterNewest'
<1> USE WalAssumption
<1> DEFINE N == Len(files) + 1
<1>1. /\ 0 \in Names /\ Names \subseteq Nat /\ DOMAIN files = DOMAIN content /\ Len(files) \in Nat
      /\ DOMAIN files = 1 .. Len(files)
      /\ N \in Nat /\ N = Len(files) + 1 /\ 1 .. N = DOMAIN files \cup {N} /\ N \notin DOMAIN files
  <2>1. Len(files) \in Nat /\ DOMAIN files = 1 .. Len(files) /\ DOMAIN content = 1 .. Len(content)
    OBVIOUS
  <2>2. \A k \in Nat : 1 .. k + 1 = (1 .. k) \cup {k + 1} /\ k + 1 \notin 1 .. k /\ k + 1 \in Nat
    OBVIOUS
  <2>3. 0 \in Names /\ Names \subseteq Nat
    BY SMTT(30) DEF Names
  <2> QED
    BY <2>1, <2>2, <2>3
<1> HIDE DEF N
<1>2. CASE dir[0] = None
  <2>1. /\ content' = Append(files, <<>>) /\ on_disk' = Append(disk, 0)
        /\ writer' = [inode |-> N, unsynced |-> 0] /\ dir' = [dir EXCEPT ![0] = N]
    BY Zenon, <1>1, <1>2 DEF OpenPath
  <2>2. /\ content' \in Seq(Seq(Nat)) /\ Len(content') = N /\ DOMAIN content' = 1 .. N
        /\ \A i \in DOMAIN files : content'[i] = files[i]
        /\ content'[N] = <<>>
    <3>1. <<>> \in Seq(Nat)
      BY SMTT(30)
    <3> QED
      BY SMTT(30), <1>1, <2>1, <3>1, SeqAppended
  <2>3. /\ on_disk' \in Seq(Nat) /\ Len(on_disk') = N
        /\ \A i \in DOMAIN files : on_disk'[i] = disk[i]
        /\ on_disk'[N] = 0
    <3>1. DOMAIN disk = DOMAIN files
      BY SMTT(30)
    <3> QED
      BY SMTT(30), <1>1, <2>1, <3>1, SeqAppended
  <2>4. \A i \in DOMAIN content' : on_disk'[i] \in 0 .. Len(content'[i])
    <3>1. content'[N] = <<>> /\ Len(<<>>) = 0 /\ on_disk'[N] = 0
      BY Zenon, <2>2, <2>3
    <3>2. \A i \in DOMAIN files : on_disk'[i] \in 0 .. Len(content'[i])
      BY Zenon, <2>2, <2>3
    <3> SUFFICES ASSUME NEW i \in DOMAIN content'
                 PROVE  on_disk'[i] \in 0 .. Len(content'[i])
      OBVIOUS
    <3>3. CASE i = N
      BY <3>1, <3>3
    <3>4. CASE i \in DOMAIN files
      BY Zenon, <3>2, <3>4
    <3> QED
      BY SMTT(30), <1>1, <2>2, <3>3, <3>4
  <2>5. /\ dir' \in [Names -> {None} \cup DOMAIN content'] /\ dir'[0] = N /\ N # None
        /\ \A n \in Linked' : n # 0 => n \in Linked /\ dir'[n] = dir[n] /\ dir[n] \in DOMAIN files
        /\ \A n \in Linked' : n \in Nat
    BY SMTT(30), <1>1, <1>2, <2>1, <2>2 DEF Linked, None
  <2>6. writer' \in [inode : DOMAIN content', unsynced : Nat] /\ writer'.inode = N
    BY Zenon, <1>1, <2>1, <2>2
  <2>7. OrderPreserved'
    <3> SUFFICES ASSUME NEW m \in Linked', NEW n \in Linked', m <= n,
                        NEW i \in DOMAIN content'[dir'[n]], NEW j \in DOMAIN content'[dir'[m]],
                        m < n \/ i < j,
                        content'[dir'[n]][i] # Torn, content'[dir'[m]][j] # Torn
                 PROVE  content'[dir'[n]][i] < content'[dir'[m]][j]
      BY Zenon DEF OrderPreserved, Torn
    <3>1. DOMAIN content'[dir'[0]] = {}
      BY <2>2, <2>5
    <3>2. m # 0 /\ n # 0
      BY Zenon, <3>1
    <3>3. /\ m \in Linked /\ content'[dir'[m]] = files[dir[m]]
          /\ n \in Linked /\ content'[dir'[n]] = files[dir[n]]
      BY Zenon, <2>2, <2>5, <3>2
    <3> QED
      BY Zenon, <3>3 DEF OrderedIn
  <2>8. Numbered'
    <3> SUFFICES ASSUME NEW i \in DOMAIN content', NEW j \in DOMAIN content'[i]
                 PROVE  content'[i][j] <= appended
      BY DEF Numbered
    <3>1. DOMAIN content'[N] = {}
      BY SMTT(30), <2>2
    <3>2. i \in DOMAIN files /\ content'[i] = files[i]
      BY Zenon, <1>1, <2>2, <3>1
    <3> QED
      BY ZenonT(40), <3>2 DEF NumberedIn
  <2>9. DistinctFiles' /\ WriterNewest'
    <3>1. \A n \in Linked' : n # 0 => dir'[n] # N
      BY Zenon, <1>1, <2>5
    <3>2. WriterNewest'
      BY SMTT(30), <2>5, <2>6, <3>1 DEF WriterNewest
    <3>3. DistinctFiles'
      BY Zenon, <2>5, <3>1 DEF DistinctFiles
    <3> QED
      BY Zenon, <3>2, <3>3
  <2> QED
    BY Zenon, <2>2, <2>3, <2>4, <2>5, <2>6, <2>7, <2>8, <2>9
<1>3. CASE dir[0] # None
  <2>1. /\ content' = files /\ on_disk' = disk
        /\ writer' = [inode |-> dir[0], unsynced |-> 0] /\ dir' = dir
    <3>1. [dir EXCEPT ![0] = dir[0]] = dir
      BY <1>1
    <3> QED
      BY Zenon, <1>3, <3>1 DEF OpenPath
  <2>2. Linked' = Linked /\ 0 \in Linked /\ writer'.inode = dir[0] /\ dir[0] \in DOMAIN files
    BY Zenon, <1>1, <1>3, <2>1 DEF Linked
  <2>3. OrderPreserved'
    <3> SUFFICES ASSUME NEW m \in Linked', NEW n \in Linked', m <= n,
                        NEW i \in DOMAIN content'[dir'[n]], NEW j \in DOMAIN content'[dir'[m]],
                        m < n \/ i < j,
                        content'[dir'[n]][i] # Torn, content'[dir'[m]][j] # Torn
                 PROVE  content'[dir'[n]][i] < content'[dir'[m]][j]
      BY Zenon DEF OrderPreserved, Torn
    <3>1. m \in Linked /\ n \in Linked /\ content'[dir'[m]] = files[dir[m]] /\ content'[dir'[n]] = files[dir[n]]
      BY Zenon, <2>1, <2>2
    <3> QED
      BY Zenon, <3>1 DEF OrderedIn
  <2>4. Numbered' /\ DistinctFiles'
    BY <2>1, <2>2 DEF Numbered, NumberedIn, DistinctFiles
  <2>5. WriterNewest'
    <3>1. \A m \in Linked : m \in Nat
      BY <1>1 DEF Linked
    <3> QED
      BY SMTT(30), <2>1, <2>2, <3>1 DEF WriterNewest, DistinctFiles
  <2> QED
    BY Zenon, <1>1, <1>3, <2>1, <2>2, <2>3, <2>4, <2>5
<1> QED
  BY Zenon, <1>2, <1>3

\* The path is opened by the one thread that found it missing.
LEMMA OpenInv ==
  ASSUME WalInv, NEW a \in Appenders, RotateOpen(a)
  PROVE  WalInv'
<1> USE WalAssumption
<1>0. TypeOK /\ OrderPreserved /\ OneOpener /\ Numbered /\ DistinctFiles
  BY DEF WalInv
<1>1. /\ OpenPath(dir, content, on_disk) /\ appended' = appended
      /\ thread[a].at = "open" /\ thread' = [thread EXCEPT ![a] = Idle]
      /\ promised' = promised /\ retired' = retired
  BY DEF RotateOpen, history
<1>2. OrderedIn(content) /\ NumberedIn(content)
  BY Zenon, <1>0 DEF OrderPreserved, OrderedIn, Numbered, NumberedIn
<1>3. /\ content' \in Seq(Seq(Nat))
      /\ on_disk' \in Seq(Nat) /\ Len(on_disk') = Len(content')
      /\ \A i \in DOMAIN content' : on_disk'[i] \in 0 .. Len(content'[i])
      /\ dir' \in [Names -> {None} \cup DOMAIN content']
      /\ writer' \in [inode : DOMAIN content', unsynced : Nat]
      /\ dir'[0] # None
      /\ OrderPreserved' /\ Numbered' /\ DistinctFiles' /\ WriterNewest'
  BY Zenon, <1>0, <1>1, <1>2, OpenPathInv DEF TypeOK
<1>4. thread \in [Appenders -> Pcs] /\ Idle \in Pcs /\ Idle.at # "open"
  BY SMTT(30), <1>0 DEF TypeOK, Pcs, Idle, Names
<1>5. thread' \in [Appenders -> Pcs] /\ \A b \in Appenders : thread'[b] = IF b = a THEN Idle ELSE thread[b]
  BY <1>1, <1>4
<1>6. \A b \in Appenders : thread'[b].at # "open"
  BY Zenon, <1>0, <1>1, <1>4, <1>5 DEF OneOpener
<1>7. OneOpener'
  BY Zenon, <1>3, <1>6 DEF OneOpener
<1>8. TypeOK'
  BY Zenon, <1>0, <1>1, <1>3, <1>5 DEF TypeOK, Pcs
<1> QED
  BY <1>3, <1>7, <1>8 DEF WalInv

\* A restart: the path is opened and no thread is inside rotate.
LEMMA RestartInv ==
  ASSUME WalInv, appended' = appended, promised' = promised, retired' = retired,
         thread' = [a \in Appenders |-> Idle],
         NEW files \in Seq(Seq(Nat)), Len(files) = Len(content),
         NEW disk \in Seq(Nat), Len(disk) = Len(files),
         \A i \in DOMAIN files : disk[i] \in 0 .. Len(files[i]),
         OrderedIn(files), NumberedIn(files), OpenPath(dir, files, disk)
  PROVE  WalInv'
<1> USE WalAssumption
<1>0. TypeOK /\ DistinctFiles
  BY ZenonT(40) DEF WalInv
<1>1. dir \in [Names -> {None} \cup DOMAIN content] /\ content \in Seq(Seq(Nat))
  BY <1>0 DEF TypeOK
<1>3. /\ content' \in Seq(Seq(Nat))
      /\ on_disk' \in Seq(Nat) /\ Len(on_disk') = Len(content')
      /\ \A i \in DOMAIN content' : on_disk'[i] \in 0 .. Len(content'[i])
      /\ dir' \in [Names -> {None} \cup DOMAIN content']
      /\ writer' \in [inode : DOMAIN content', unsynced : Nat]
      /\ dir'[0] # None
      /\ OrderPreserved' /\ Numbered' /\ DistinctFiles' /\ WriterNewest'
  BY Zenon, <1>0, <1>1, OpenPathInv
<1>4. Idle \in Pcs /\ Idle.at # "open"
  BY SMTT(30) DEF Pcs, Idle, Names
<1>5. thread' \in [Appenders -> Pcs] /\ \A b \in Appenders : thread'[b].at # "open"
  BY Zenon, <1>4
<1>6. OneOpener'
  BY Zenon, <1>3, <1>5 DEF OneOpener
<1>7. TypeOK'
  BY Zenon, <1>0, <1>3, <1>5 DEF TypeOK, Pcs
<1> QED
  BY Zenon, <1>3, <1>6, <1>7 DEF WalInv

\* The death of the process, and the restart after it.
LEMMA DeathInv == WalInv /\ ProcessDeath => WalInv'
<1> SUFFICES ASSUME WalInv, ProcessDeath PROVE WalInv'
  OBVIOUS
<1>0. TypeOK /\ OrderPreserved /\ Numbered
  BY DEF WalInv
<1>1. OrderedIn(content) /\ NumberedIn(content)
  BY <1>0 DEF OrderPreserved, OrderedIn, Numbered, NumberedIn
<1>2. /\ content \in Seq(Seq(Nat)) /\ on_disk \in Seq(Nat) /\ Len(on_disk) = Len(content)
      /\ \A i \in DOMAIN content : on_disk[i] \in 0 .. Len(content[i])
  BY <1>0 DEF TypeOK
<1>3. /\ OpenPath(dir, content, on_disk) /\ thread' = [a \in Appenders |-> Idle]
      /\ appended' = appended /\ promised' = promised /\ retired' = retired
  BY Zenon DEF ProcessDeath
<1> QED
  BY Zenon, <1>1, <1>2, <1>3, RestartInv

\* What a power failure leaves of a file is a prefix of it, the last record of
\* which may be torn.
LEMMA SurvivorPrefix ==
  ASSUME TypeOK, NEW i \in DOMAIN content, NEW s \in Survivors(i)
  PROVE  /\ s \in Seq(Nat)
         /\ \A j \in DOMAIN s : s[j] = Torn \/ (j \in DOMAIN content[i] /\ s[j] = content[i][j])
<1>1. content[i] \in Seq(Nat) /\ on_disk[i] \in Nat /\ Len(content[i]) \in Nat /\ Torn \in Nat
  BY SMTT(30) DEF TypeOK, Torn
<1>2. CASE s \in {SubSeq(content[i], 1, k) : k \in on_disk[i] .. Len(content[i])}
  <2>1. PICK k \in on_disk[i] .. Len(content[i]) : s = SubSeq(content[i], 1, k)
    BY Zenon, <1>2
  <2> QED
    BY SMTT(30), <1>1, <2>1
<1>3. CASE s \in {Append(SubSeq(content[i], 1, k), Torn) : k \in on_disk[i] .. Len(content[i]) - 1}
  <2>1. PICK k \in on_disk[i] .. Len(content[i]) - 1 : s = Append(SubSeq(content[i], 1, k), Torn)
    BY Zenon, <1>3
  <2>2. /\ SubSeq(content[i], 1, k) \in Seq(Nat) /\ Len(SubSeq(content[i], 1, k)) = k
        /\ \A j \in 1 .. k : SubSeq(content[i], 1, k)[j] = content[i][j] /\ j \in DOMAIN content[i]
    BY SMTT(30), <1>1, <2>1
  <2>3. s \in Seq(Nat) /\ DOMAIN s = 1 .. k + 1 /\ s[k + 1] = Torn /\ \A j \in 1 .. k : s[j] = content[i][j]
    BY SMTT(30), <1>1, <2>1, <2>2, SeqAppended
  <2> QED
    BY SMTT(30), <1>1, <2>1, <2>2, <2>3
<1> QED
  BY Zenon, <1>2, <1>3 DEF Survivors

\* A power failure, and the restart after it.
LEMMA FailureInv == WalInv /\ PowerFailure => WalInv'
<1> SUFFICES ASSUME WalInv, PowerFailure PROVE WalInv'
  OBVIOUS
<1>0. TypeOK /\ OrderPreserved /\ Numbered
  BY DEF WalInv
<1> DEFINE inodes == {dir[n] : n \in Linked}
<1>1. PICK left \in [inodes -> UNION {Survivors(i) : i \in inodes}] :
        /\ \A i \in inodes : left[i] \in Survivors(i)
        /\ LET files == [i \in DOMAIN content |-> IF i \in inodes THEN left[i] ELSE <<>>]
           IN  OpenPath(dir, files, [i \in DOMAIN files |-> Len(files[i])])
  BY Zenon DEF PowerFailure
<1> DEFINE files == [i \in DOMAIN content |-> IF i \in inodes THEN left[i] ELSE <<>>]
           disk  == [i \in DOMAIN files |-> Len(files[i])]
<1>2. /\ OpenPath(dir, files, disk) /\ thread' = [a \in Appenders |-> Idle]
      /\ appended' = appended /\ promised' = promised /\ retired' = retired
  BY Zenon, <1>1 DEF PowerFailure
<1>3. /\ content \in Seq(Seq(Nat)) /\ Len(content) \in Nat /\ DOMAIN content = 1 .. Len(content)
      /\ \A n \in Linked : dir[n] \in DOMAIN content /\ dir[n] \in inodes
      /\ appended \in Nat
  BY SMTT(30), <1>0, WalAssumption DEF TypeOK, Linked
<1>4. \A i \in DOMAIN content :
        /\ files[i] \in Seq(Nat)
        /\ \A j \in DOMAIN files[i] :
             files[i][j] = Torn \/ (j \in DOMAIN content[i] /\ files[i][j] = content[i][j])
  <2> TAKE i \in DOMAIN content
  <2>1. CASE i \in inodes
    <3>1. files[i] = left[i] /\ left[i] \in Survivors(i)
      BY Zenon, <1>1, <2>1
    <3> HIDE DEF files
    <3> QED
      BY Zenon, <1>0, <3>1, SurvivorPrefix
  <2>2. CASE i \notin inodes
    <3>1. files[i] = <<>>
      BY <2>2
    <3> HIDE DEF files
    <3> QED
      BY SMTT(30), <3>1
  <2> QED
    BY Zenon, <2>1, <2>2
<1>5. DOMAIN files = DOMAIN content
  BY Zenon
<1>6. \A i \in DOMAIN files : disk[i] = Len(files[i])
  BY Zenon
<1>7. files \in [1 .. Len(content) -> Seq(Nat)]
  BY <1>3, <1>4
<1>8. disk \in [1 .. Len(content) -> Nat]
  <2>1. \A i \in DOMAIN files : Len(files[i]) \in Nat
    BY <1>4, <1>5
  <2> HIDE DEF files
  <2> QED
    BY Zenon, <1>3, <1>5, <2>1
<1> HIDE DEF files, disk
<1>9. files \in Seq(Seq(Nat)) /\ Len(files) = Len(content) /\ disk \in Seq(Nat) /\ Len(disk) = Len(files)
  BY ZenonT(40), <1>3, <1>7, <1>8, SeqDefined
<1>10. \A i \in DOMAIN files : disk[i] \in 0 .. Len(files[i])
  BY SMTT(30), <1>4, <1>5, <1>6
<1>11. OrderedIn(files)
  <2> SUFFICES ASSUME NEW m \in Linked, NEW n \in Linked, m <= n,
                      NEW i \in DOMAIN files[dir[n]], NEW j \in DOMAIN files[dir[m]],
                      m < n \/ i < j, files[dir[n]][i] # Torn, files[dir[m]][j] # Torn
               PROVE  files[dir[n]][i] < files[dir[m]][j]
    BY Zenon DEF OrderedIn
  <2>1. /\ i \in DOMAIN content[dir[n]] /\ files[dir[n]][i] = content[dir[n]][i]
        /\ j \in DOMAIN content[dir[m]] /\ files[dir[m]][j] = content[dir[m]][j]
    BY Zenon, <1>3, <1>4
  <2> QED
    BY <1>0, <2>1 DEF OrderPreserved
<1>12. NumberedIn(files)
  <2> SUFFICES ASSUME NEW i \in DOMAIN files, NEW j \in DOMAIN files[i]
               PROVE  files[i][j] <= appended
    BY DEF NumberedIn
  <2>1. CASE files[i][j] = Torn
    BY SMTT(30), <1>3, <2>1 DEF Torn
  <2>2. CASE j \in DOMAIN content[i] /\ files[i][j] = content[i][j]
    BY <1>0, <1>5, <2>2 DEF Numbered
  <2> QED
    BY Zenon, <1>4, <1>5, <2>1, <2>2
<1> QED
  BY Zenon, <1>2, <1>9, <1>10, <1>11, <1>12, RestartInv

-----------------------------------------------------------------------------
\* Every step keeps the inductive invariant.
LEMMA NextInv == WalInv /\ [Next]_vars => WalInv'
<1> SUFFICES ASSUME WalInv, [Next]_vars PROVE WalInv'
  OBVIOUS
<1>1. CASE UNCHANGED vars
  <2>1. /\ dir' = dir /\ content' = content /\ on_disk' = on_disk /\ writer' = writer
        /\ thread' = thread /\ appended' = appended /\ promised' = promised /\ retired' = retired
    BY <1>1 DEF vars
  <2> QED
    BY Zenon, <2>1 DEF WalInv, TypeOK, OrderPreserved, OneOpener, Numbered, DistinctFiles, WriterNewest, Linked
<1>2. ASSUME NEW a \in Appenders, AppendEvent(a) \/ CheckRotate(a) \/ Sync(a) \/ Rotate(a)
      PROVE  WalInv'
  BY <1>2, AppendInv, QuietInv, RemoveInv, RenameInv, OpenInv DEF Rotate
<1>3. CASE BackgroundSync
  <2>0. TypeOK /\ OrderPreserved /\ OneOpener /\ Numbered /\ DistinctFiles /\ WriterNewest
    BY DEF WalInv
  <2>1. /\ Fsync /\ dir' = dir /\ content' = content /\ thread' = thread /\ appended' = appended
        /\ promised' = promised /\ retired' = retired
    BY <1>3 DEF BackgroundSync, history
  <2>2. (OrderPreserved /\ Numbered /\ DistinctFiles /\ WriterNewest)'
    BY Zenon, <2>0, <2>1, FsyncStep, OrderUnchanged DEF logVars
  <2>3. TypeOK' /\ OneOpener'
    BY Zenon, <2>0, <2>1, FsyncStep DEF TypeOK, OneOpener
  <2> QED
    BY <2>2, <2>3 DEF WalInv
<1>4. CASE PowerFailure
  BY <1>4, FailureInv
<1>5. CASE ProcessDeath
  BY <1>5, DeathInv
<1> QED
  BY <1>1, <1>2, <1>3, <1>4, <1>5 DEF Next

\* WalInv is an invariant of the write-ahead log.
THEOREM WalInvariant == Spec => []WalInv
BY InitInv, NextInv, PTL DEF Spec

\* Type correctness, for every number of appenders and every retain_count.
THEOREM TypeCorrect == Spec => []TypeOK
<1>1. WalInv => TypeOK
  BY DEF WalInv
<1> QED
  BY <1>1, WalInvariant, PTL

\* replay_all reads the records in the order of their append, whatever
\* rotations overlap, however many threads append and whatever fails.
THEOREM ReplayInOrder == Spec => []OrderPreserved
<1>1. WalInv => OrderPreserved
  BY DEF WalInv
<1> QED
  BY <1>1, WalInvariant, PTL

\* The path is missing only during the one rotation that moved it away.
THEOREM PathHasOneOpener == Spec => []OneOpener
<1>1. WalInv => OneOpener
  BY DEF WalInv
<1> QED
  BY <1>1, WalInvariant, PTL

-----------------------------------------------------------------------------
(* One thread that appends: nothing synced is lost *)

OneAppender == \A a, b \in Appenders : a = b

\* A rotation moves a file to a name that is free.
NextNameFree ==
  \A a \in Appenders :
    thread[a].at \in {"exists", "move"} /\ thread[a].i < Retain => dir[thread[a].i + 1] = None

RotationInv == WalInv /\ NextNameFree

\* A thread that is not in the loop over the rotated files.
LEMMA OutOfLoop ==
  ASSUME OneAppender, NEW a \in Appenders, NEW t, t.at \notin {"exists", "move"},
         thread \in [Appenders -> Pcs], thread' = [thread EXCEPT ![a] = t]
  PROVE  NextNameFree'
<1>1. \A b \in Appenders : thread'[b] = t
  BY Zenon DEF OneAppender
<1> QED
  BY Zenon, <1>1 DEF NextNameFree

\* A thread of which only one is there finds the next name free at every file
\* of the loop.
LEMMA NextNameFreeNext ==
  ASSUME OneAppender, RotationInv, [Next]_vars
  PROVE  NextNameFree'
<1> USE WalAssumption
<1>0. /\ thread \in [Appenders -> Pcs] /\ NextNameFree /\ Retain \in Nat /\ Retain # 0
      /\ dir \in [Names -> {None} \cup DOMAIN content]
  BY Zenon DEF RotationInv, WalInv, TypeOK, Pcs
<1>n. \A a \in Appenders : thread[a].i \in Names /\ thread[a].i \in Nat /\ thread[a].i \in 0 .. Retain
  <2>1. \A a \in Appenders : thread[a].i \in Names
    BY Zenon, <1>0 DEF Pcs
  <2> QED
    BY <2>1 DEF Names
<1>1. ASSUME NEW a \in Appenders, NEW i \in Int, NEW pc,
             thread' = [thread EXCEPT ![a] = At(pc, i)], i < Retain => dir'[i + 1] = None
      PROVE  NextNameFree'
  <2>1. \A b \in Appenders : thread'[b] = At(pc, i)
    BY Zenon, <1>0, <1>1 DEF OneAppender
  <2>2. At(pc, i).i = i
    BY DEF At
  <2> QED
    BY Zenon, <1>1, <2>1, <2>2 DEF NextNameFree
<1>2. CASE UNCHANGED <<dir, thread>>
  BY Zenon, <1>0, <1>2 DEF NextNameFree
<1>3. ASSUME NEW a \in Appenders, AppendEvent(a) \/ CheckRotate(a) PROVE NextNameFree'
  <2>1. Idle.at \notin {"exists", "move"} /\ At("rotate", 0).at \notin {"exists", "move"}
    BY DEF Idle, At
  <2>2. \E t \in {At("rotate", 0), Idle} : thread' = [thread EXCEPT ![a] = t]
    BY Zenon, <1>3 DEF AppendEvent, CheckRotate
  <2> QED
    BY Zenon, <1>0, <2>1, <2>2, OutOfLoop
<1>4. ASSUME NEW a \in Appenders, RotateFails(a) \/ RotateOpen(a) PROVE NextNameFree'
  <2>1. Idle.at \notin {"exists", "move"}
    BY DEF Idle
  <2>2. thread' = [thread EXCEPT ![a] = Idle]
    BY Zenon, <1>4 DEF RotateFails, RotateOpen, AfterError
  <2> QED
    BY Zenon, <1>0, <2>1, <2>2, OutOfLoop
<1>5. ASSUME NEW a \in Appenders, RotateSync(a) PROVE NextNameFree'
  <2>1. thread' = [thread EXCEPT ![a] = At("exists", Retain)]
    BY Zenon, <1>5 DEF RotateSync, FirstMove
  <2>2. Retain \in Int /\ ~(Retain < Retain)
    BY <1>0
  <2> QED
    BY Zenon, <1>1, <2>1, <2>2
<1>6. ASSUME NEW a \in Appenders, RotateExists(a) PROVE NextNameFree'
  <2> DEFINE i == thread[a].i
  <2>0. i \in Int /\ dir' = dir /\ thread[a].at = "exists"
    BY SMT, <1>6, <1>n DEF RotateExists
  <2>1. CASE thread' = [thread EXCEPT ![a] = At("move", i)]
    <3>1. i < Retain => dir'[i + 1] = None
      BY Zenon, <1>0, <2>0 DEF NextNameFree
    <3> QED
      BY Zenon, <1>1, <2>0, <2>1, <3>1
  <2>2. CASE dir[i] = None /\ thread' = [thread EXCEPT ![a] = At("exists", i - 1)]
    <3>1. i - 1 \in Int /\ (i - 1) + 1 = i
      BY <2>0
    <3> QED
      BY Zenon, <1>1, <2>0, <2>2, <3>1
  <2> QED
    BY Zenon, <1>6, <2>1, <2>2 DEF RotateExists
<1>7. ASSUME NEW a \in Appenders, RemoveOldest(a) PROVE NextNameFree'
  <2>1. thread' = [thread EXCEPT ![a] = At("exists", Retain - 1)] /\ dir' = [dir EXCEPT ![Retain] = None]
    BY Zenon, <1>7 DEF RemoveOldest
  <2>2. Retain - 1 \in Int /\ (Retain - 1) + 1 = Retain /\ Retain \in Names
    BY <1>0 DEF Names
  <2>3. dir'[Retain] = None
    BY Zenon, <1>0, <2>1, <2>2
  <2> QED
    BY Zenon, <1>1, <2>1, <2>2, <2>3
<1>8. ASSUME NEW a \in Appenders, RenameNext(a) PROVE NextNameFree'
  <2> DEFINE i == thread[a].i
  <2>1. /\ dir' = [dir EXCEPT ![i] = None, ![i + 1] = dir[i]] /\ i < Retain
        /\ thread' = [thread EXCEPT ![a] = IF i = 0 THEN At("open", 0) ELSE At("exists", i - 1)]
    BY Zenon, <1>8 DEF RenameNext, Renamed
  <2>2. CASE i = 0
    <3>1. At("open", 0).at \notin {"exists", "move"}
      BY DEF At
    <3> QED
      BY Zenon, <1>0, <2>1, <2>2, <3>1, OutOfLoop
  <2>3. CASE i # 0
    <3>1. i \in Names /\ i - 1 \in Int /\ (i - 1) + 1 = i /\ i # i + 1
      BY <1>n
    <3>2. dir'[i] = None
      BY Zenon, <1>0, <2>1, <3>1
    <3> QED
      BY Zenon, <1>1, <2>1, <2>3, <3>1, <3>2
  <2> QED
    BY Zenon, <2>2, <2>3
<1>9. CASE thread' = [a \in Appenders |-> Idle]
  <2>1. \A a \in Appenders : thread'[a].at \notin {"exists", "move"}
    BY <1>9 DEF Idle
  <2> QED
    BY Zenon, <2>1 DEF NextNameFree
<1> QED
  BY Zenon, <1>2, <1>3, <1>4, <1>5, <1>6, <1>7, <1>8, <1>9
    DEF Next, vars, Rotate, Sync, BackgroundSync, PowerFailure, ProcessDeath

\* Every file keeps a name, but for the one that remove_file deletes.
LEMMA FilesKept ==
  ASSUME OneAppender, RotationInv, [Next]_vars, NEW n \in Linked
  PROVE  \/ \E m \in Linked' : dir'[m] = dir[n]
         \/ n = Retain /\ \E a \in Appenders : RemoveOldest(a)
<1> USE WalAssumption
<1>0. /\ thread \in [Appenders -> Pcs] /\ NextNameFree
      /\ dir \in [Names -> {None} \cup DOMAIN content]
      /\ n \in Names /\ dir[n] # None /\ 0 \in Names
  <2>1. 0 \in Names
    BY DEF Names
  <2> QED
    BY Zenon, <2>1 DEF RotationInv, WalInv, TypeOK, Pcs, Linked
<1>1. ASSUME NEW m \in Names, dir'[m] = dir[n] PROVE \E k \in Linked' : dir'[k] = dir[n]
  BY Zenon, <1>0, <1>1 DEF Linked
<1>2. CASE dir' = dir
  BY Zenon, <1>0, <1>1, <1>2
<1>3. CASE \E files, disk : OpenPath(dir, files, disk)
  <2>1. /\ writer'.inode = dir[0] \/ dir[0] = None
        /\ dir' = [dir EXCEPT ![0] = writer'.inode]
    <3>1. PICK files, disk : OpenPath(dir, files, disk)
      BY Zenon, <1>3
    <3> QED
      BY <3>1 DEF OpenPath
  <2>2. dir'[n] = dir[n]
    BY Zenon, <1>0, <2>1
  <2> QED
    BY Zenon, <1>0, <1>1, <2>2
<1>4. ASSUME NEW a \in Appenders, RemoveOldest(a), n # Retain PROVE dir'[n] = dir[n]
  BY Zenon, <1>0, <1>4 DEF RemoveOldest
<1>5. ASSUME NEW a \in Appenders, RenameNext(a) PROVE \E m \in Names : dir'[m] = dir[n]
  <2> DEFINE i == thread[a].i
  <2>1. /\ dir' = [dir EXCEPT ![i] = None, ![i + 1] = dir[i]] /\ i < Retain
        /\ thread[a].at = "move" /\ i \in Names
    BY Zenon, <1>0, <1>5 DEF RenameNext, Renamed, Pcs
  <2>2. i + 1 \in Names
    BY <2>1 DEF Names
  <2>3. dir[i + 1] = None
    BY Zenon, <1>0, <2>1 DEF NextNameFree
  <2>4. dir'[i + 1] = dir[i] /\ \A k \in Names : k # i /\ k # i + 1 => dir'[k] = dir[k]
    BY Zenon, <1>0, <2>1, <2>2
  <2> QED
    BY Zenon, <1>0, <2>1, <2>2, <2>3, <2>4
<1> QED
  BY Zenon, <1>0, <1>1, <1>2, <1>3, <1>4, <1>5
    DEF Next, vars, Rotate, AppendEvent, CheckRotate, Sync, BackgroundSync, PowerFailure, ProcessDeath,
        RotateSync, RotateExists, RotateFails, RotateOpen

\* Init establishes the invariant of the rotation.
LEMMA RotationInit == Init => RotationInv
<1>1. Init => NextNameFree
  BY DEF Init, NextNameFree, Idle
<1> QED
  BY <1>1, InitInv DEF RotationInv

\* As long as one thread appends, rotation deletes no file but the oldest:
\* every rename finds its target free.
THEOREM OldestDeleted ==
  ASSUME OneAppender
  PROVE  Spec => OnlyOldestDeleted
<1>1. RotationInv /\ [Next]_vars => RotationInv'
  BY NextInv, NextNameFreeNext DEF RotationInv
<1>2. RotationInv /\ [Next]_vars
        => [\A n \in Linked \ {Retain} : \E m \in Names : dir'[m] = dir[n]]_vars
  <2> SUFFICES ASSUME RotationInv, [Next]_vars, NEW n \in Linked \ {Retain}
               PROVE  \E m \in Names : dir'[m] = dir[n]
    OBVIOUS
  <2>1. \E m \in Linked' : dir'[m] = dir[n]
    BY Zenon, FilesKept
  <2> QED
    BY Zenon, <2>1 DEF Linked
<1> QED
  BY <1>1, <1>2, RotationInit, PTL DEF Spec, OnlyOldestDeleted

-----------------------------------------------------------------------------
\* Files that are no longer written are on disk to the last record ...
RotatedOnDisk ==
  \A n \in Linked : dir[n] # writer.inode => on_disk[dir[n]] = Len(content[dir[n]])

InLoop(a) == thread[a].at \in {"exists", "move", "open"}

\* ... and so is the one being written, when the writer has nothing to sync and
\* from the rotation's fsync until it opens the next file.
WriterOnDisk ==
  writer.unsynced = 0 \/ (\E a \in Appenders : InLoop(a))
    => on_disk[writer.inode] = Len(content[writer.inode])

DiskInv == RotationInv /\ kills = 0 /\ RotatedOnDisk /\ WriterOnDisk

\* A step that neither changes a file nor gives a name to a new one.
LEMMA FilesUnchanged ==
  ASSUME RotatedOnDisk, WriterOnDisk, UNCHANGED <<content, on_disk, writer>>,
         \A m \in Linked' : \E n \in Linked : dir'[m] = dir[n],
         (\E a \in Appenders : InLoop(a))' => \E a \in Appenders : InLoop(a)
  PROVE  (RotatedOnDisk /\ WriterOnDisk)'
<1>1. RotatedOnDisk'
  BY Zenon DEF RotatedOnDisk
<1>2. WriterOnDisk'
  BY Zenon DEF WriterOnDisk
<1> QED
  BY <1>1, <1>2

\* After an fsync every file is on disk to its last record.
LEMMA FsyncAll ==
  ASSUME TypeOK, RotatedOnDisk, WriterOnDisk, Fsync, UNCHANGED <<dir, content>>
  PROVE  /\ \A n \in Linked' : on_disk'[dir'[n]] = Len(content'[dir'[n]])
         /\ (RotatedOnDisk /\ WriterOnDisk)'
<1> DEFINE w == writer.inode
<1>1. /\ w \in DOMAIN content /\ w \in DOMAIN on_disk /\ writer'.inode = w
      /\ on_disk \in [DOMAIN on_disk -> Nat] /\ writer.unsynced \in Nat
  <2>1. writer'.inode = w
    BY Zenon, FsyncStep
  <2> QED
    BY <2>1 DEF TypeOK
<1>2. on_disk'[w] = Len(content[w]) /\ \A i : i # w => on_disk'[i] = on_disk[i]
  <2>1. CASE writer.unsynced > 0
    <3>1. on_disk' = [on_disk EXCEPT ![w] = Len(content[w])]
      BY Zenon, <2>1 DEF Fsync
    <3> QED
      BY <1>1, <3>1
  <2>2. CASE ~(writer.unsynced > 0)
    <3>1. on_disk' = on_disk
      BY Zenon, <2>2 DEF Fsync
    <3>2. writer.unsynced = 0
      BY <1>1, <2>2
    <3> QED
      BY Zenon, <3>1, <3>2 DEF WriterOnDisk
  <2> QED
    BY Zenon, <2>1, <2>2
<1>3. Linked' = Linked
  BY DEF Linked
<1>4. \A n \in Linked : on_disk'[dir[n]] = Len(content[dir[n]])
  BY Zenon, <1>2 DEF RotatedOnDisk
<1>5. (RotatedOnDisk /\ WriterOnDisk)'
  BY Zenon, <1>1, <1>2, <1>3, <1>4 DEF RotatedOnDisk, WriterOnDisk
<1> QED
  BY Zenon, <1>3, <1>4, <1>5

\* append: the open file alone falls behind, and the writer knows.
LEMMA AppendOnDisk ==
  ASSUME OneAppender, WalInv, RotatedOnDisk, NEW a \in Appenders, AppendEvent(a)
  PROVE  (RotatedOnDisk /\ WriterOnDisk)'
<1> DEFINE w == writer.inode
<1>0. /\ thread \in [Appenders -> Pcs] /\ writer \in [inode : DOMAIN content, unsynced : Nat]
      /\ content \in Seq(Seq(Nat))
  BY Zenon DEF WalInv, TypeOK, Pcs
<1>1. /\ content' = [content EXCEPT ![w] = Written(content[w], appended')]
      /\ on_disk' = on_disk /\ dir' = dir /\ writer' = [writer EXCEPT !.unsynced = @ + 1]
      /\ \E t \in {At("rotate", 0), Idle} : thread' = [thread EXCEPT ![a] = t]
  BY Zenon DEF AppendEvent
<1>2. writer'.inode = w /\ writer'.unsynced # 0
  BY <1>0, <1>1
<1>3. \A i : i # w => content'[i] = content[i]
  BY <1>0, <1>1
<1>4. At("rotate", 0).at \notin {"exists", "move", "open"} /\ Idle.at \notin {"exists", "move", "open"}
  BY DEF At, Idle
<1>5. \A b \in Appenders : ~InLoop(b)'
  BY Zenon, <1>0, <1>1, <1>4 DEF OneAppender, InLoop
<1>6. RotatedOnDisk'
  BY ZenonT(40), <1>1, <1>2, <1>3 DEF RotatedOnDisk, Linked
<1>7. WriterOnDisk'
  BY Zenon, <1>2, <1>5 DEF WriterOnDisk
<1> QED
  BY <1>6, <1>7

\* rotate's last step: the old file is on disk, the new one is empty.
LEMMA OpenOnDisk ==
  ASSUME WalInv, RotatedOnDisk, WriterOnDisk, NEW a \in Appenders, RotateOpen(a)
  PROVE  /\ (RotatedOnDisk /\ WriterOnDisk)'
         /\ \A i \in DOMAIN content : content'[i] = content[i] /\ on_disk'[i] = on_disk[i]
         /\ dir[0] = None /\ dir' = [dir EXCEPT ![0] = writer'.inode]
         /\ content'[writer'.inode] = <<>> /\ on_disk'[writer'.inode] = 0
<1> USE WalAssumption
<1> DEFINE N == Len(content) + 1
<1>0. /\ dir \in [Names -> {None} \cup DOMAIN content] /\ 0 \in Names /\ thread[a].at = "open"
      /\ content \in Seq(Seq(Nat)) /\ on_disk \in Seq(Nat) /\ Len(on_disk) = Len(content)
  <2>1. 0 \in Names
    BY DEF Names
  <2> QED
    BY Zenon, <2>1 DEF WalInv, TypeOK, RotateOpen
<1>1. dir[0] = None
  BY Zenon, <1>0 DEF WalInv, OneOpener
<1>2. /\ content' = Append(content, <<>>) /\ on_disk' = Append(on_disk, 0)
      /\ writer' = [inode |-> N, unsynced |-> 0] /\ dir' = [dir EXCEPT ![0] = N]
  BY Zenon, <1>1 DEF RotateOpen, OpenPath
<1>3. /\ \A i \in DOMAIN content : content'[i] = content[i] /\ on_disk'[i] = on_disk[i]
      /\ content'[N] = <<>> /\ on_disk'[N] = 0 /\ Len(<<>>) = 0
  BY <1>0, <1>2
<1>4. dir'[0] = N /\ \A n \in Linked' : n # 0 => n \in Linked /\ dir'[n] = dir[n] /\ dir[n] \in DOMAIN content
  BY Zenon, <1>0, <1>2 DEF Linked
<1>5. on_disk[writer.inode] = Len(content[writer.inode])
  BY Zenon, <1>0 DEF WriterOnDisk, InLoop
<1>6. \A n \in Linked : on_disk[dir[n]] = Len(content[dir[n]])
  BY Zenon, <1>5 DEF RotatedOnDisk
<1>7. writer'.inode = N
  BY <1>2
<1> HIDE DEF N
<1>8. RotatedOnDisk'
  <2> SUFFICES ASSUME NEW n \in Linked', dir'[n] # writer'.inode
               PROVE  on_disk'[dir'[n]] = Len(content'[dir'[n]])
    BY Zenon DEF RotatedOnDisk
  <2>1. n \in Linked /\ dir'[n] = dir[n] /\ dir[n] \in DOMAIN content
    BY Zenon, <1>4, <1>7
  <2> QED
    BY Zenon, <1>3, <1>6, <2>1
<1>9. WriterOnDisk'
  BY Zenon, <1>3, <1>7 DEF WriterOnDisk
<1> QED
  BY Zenon, <1>1, <1>2, <1>3, <1>7, <1>8, <1>9

\* What Append adds, and that it keeps the rest.
LEMMA AppendKeeps ==
  ASSUME NEW S, NEW s \in Seq(S), NEW x
  PROVE  Append(s, x)[Len(s) + 1] = x /\ \A i \in 1 .. Len(s) : Append(s, x)[i] = s[i]
OBVIOUS

\* A power failure leaves of a file all that was on disk, and the restart
\* opens files that are.
LEMMA FailureOnDisk ==
  ASSUME WalInv, PowerFailure
  PROVE  /\ (RotatedOnDisk /\ WriterOnDisk)'
         /\ \A n \in Linked : /\ content'[dir[n]] \in Survivors(dir[n])
                              /\ on_disk'[dir[n]] = Len(content'[dir[n]])
         /\ dir' = [dir EXCEPT ![0] = writer'.inode]
         /\ IF dir[0] = None THEN content'[writer'.inode] = <<>> ELSE writer'.inode = dir[0]
         /\ on_disk'[writer'.inode] = Len(content'[writer'.inode])
<1> USE WalAssumption
<1> DEFINE inodes == {dir[n] : n \in Linked}
<1>1. PICK left \in [inodes -> UNION {Survivors(i) : i \in inodes}] :
        /\ \A i \in inodes : left[i] \in Survivors(i)
        /\ LET files == [i \in DOMAIN content |-> IF i \in inodes THEN left[i] ELSE <<>>]
           IN  OpenPath(dir, files, [i \in DOMAIN files |-> Len(files[i])])
  BY Zenon DEF PowerFailure
<1> DEFINE files == [i \in DOMAIN content |-> IF i \in inodes THEN left[i] ELSE <<>>]
           disk  == [i \in DOMAIN files |-> Len(files[i])]
           N     == Len(files) + 1
<1>2. OpenPath(dir, files, disk)
  BY Zenon, <1>1
<1>3. /\ content \in Seq(Seq(Nat)) /\ DOMAIN content = 1 .. Len(content) /\ Len(content) \in Nat
      /\ dir \in [Names -> {None} \cup DOMAIN content] /\ 0 \in Names
  <2>1. content \in Seq(Seq(Nat)) /\ dir \in [Names -> {None} \cup DOMAIN content]
    BY Zenon DEF WalInv, TypeOK
  <2> QED
    BY <2>1 DEF Names
<1>4. \A n \in Linked : dir[n] \in DOMAIN content /\ dir[n] \in inodes
  BY Zenon, <1>3 DEF Linked
<1>5. /\ DOMAIN files = DOMAIN content /\ DOMAIN disk = DOMAIN content
      /\ \A i \in DOMAIN content : disk[i] = Len(files[i])
      /\ \A n \in Linked : files[dir[n]] \in Survivors(dir[n])
  BY Zenon, <1>1, <1>4
<1>6. /\ Len(files) = Len(content) /\ Len(disk) = Len(content)
      /\ files \in Seq({files[i] : i \in DOMAIN content}) /\ disk \in Seq({disk[i] : i \in DOMAIN content})
  <2>1. /\ files \in [1 .. Len(content) -> {files[i] : i \in DOMAIN content}]
        /\ disk \in [1 .. Len(content) -> {disk[i] : i \in DOMAIN content}]
    BY Zenon, <1>3, <1>5
  <2> HIDE DEF files, disk
  <2> QED
    BY Zenon, <1>3, <2>1, SeqDefined
<1> HIDE DEF inodes, files, disk
<1>7. /\ \A i \in DOMAIN content : content'[i] = files[i] /\ on_disk'[i] = disk[i]
      /\ dir[0] = None => content'[N] = <<>> /\ on_disk'[N] = 0
      /\ writer'.inode = IF dir[0] = None THEN N ELSE dir[0]
      /\ dir' = [dir EXCEPT ![0] = writer'.inode]
  <2>1. CASE dir[0] = None
    <3>1. /\ content' = Append(files, <<>>) /\ on_disk' = Append(disk, 0)
          /\ writer' = [inode |-> N, unsynced |-> 0]
          /\ dir' = [dir EXCEPT ![0] = writer'.inode]
      BY Zenon, <1>2, <2>1 DEF OpenPath
    <3>2. writer'.inode = N
      BY <3>1
    <3>3. /\ \A i \in DOMAIN content : content'[i] = files[i] /\ on_disk'[i] = disk[i]
          /\ content'[N] = <<>> /\ on_disk'[N] = 0
      <4>1. files \in Seq({files[i] : i \in DOMAIN content}) /\ Len(files) = Len(content)
        BY Zenon, <1>6
      <4>2. content'[N] = <<>> /\ \A i \in DOMAIN content : content'[i] = files[i]
        <5>1. content' = Append(files, <<>>) /\ DOMAIN content = 1 .. Len(files)
          BY Zenon, <1>3, <3>1, <4>1
        <5>2. /\ Append(files, <<>>)[Len(files) + 1] = <<>>
              /\ \A i \in 1 .. Len(files) : Append(files, <<>>)[i] = files[i]
          <6>1. \A x : /\ Append(files, x)[Len(files) + 1] = x
                       /\ \A i \in 1 .. Len(files) : Append(files, x)[i] = files[i]
            BY Zenon, <4>1, AppendKeeps
          <6> QED
            BY Zenon, <6>1
        <5> QED
          BY Zenon, <5>1, <5>2
      <4>3. disk \in Seq({disk[i] : i \in DOMAIN content}) /\ Len(disk) = Len(content)
        BY Zenon, <1>6
      <4>4. on_disk'[N] = 0 /\ \A i \in DOMAIN content : on_disk'[i] = disk[i]
        BY <1>3, <3>1, <4>1, <4>3
      <4> QED
        BY Zenon, <4>2, <4>4
    <3> QED
      BY Zenon, <2>1, <3>1, <3>2, <3>3
  <2>2. CASE dir[0] # None
    <3>1. /\ content' = files /\ on_disk' = disk
          /\ writer' = [inode |-> dir[0], unsynced |-> 0]
          /\ dir' = [dir EXCEPT ![0] = writer'.inode]
      BY Zenon, <1>2, <2>2 DEF OpenPath
    <3>2. writer'.inode = dir[0]
      BY <3>1
    <3> QED
      BY Zenon, <2>2, <3>1, <3>2
  <2> QED
    BY Zenon, <2>1, <2>2
<1>8. \A i \in DOMAIN content : on_disk'[i] = Len(content'[i])
  BY Zenon, <1>5, <1>7
<1>9. Len(<<>>) = 0
  OBVIOUS
<1>10. on_disk'[writer'.inode] = Len(content'[writer'.inode])
  BY Zenon, <1>3, <1>7, <1>8, <1>9
<1>11. \A n \in Linked' : n # 0 => dir'[n] \in DOMAIN content
  BY Zenon, <1>3, <1>7 DEF Linked
<1>12. dir'[0] = writer'.inode
  BY Zenon, <1>3, <1>7
<1>13. RotatedOnDisk' /\ WriterOnDisk'
  BY Zenon, <1>8, <1>10, <1>11, <1>12 DEF RotatedOnDisk, WriterOnDisk
<1> QED
  BY Zenon, <1>4, <1>5, <1>7, <1>8, <1>10, <1>13

\* With one appender and no death of the process, every step leaves the files
\* that are not written, and after an fsync all of them, on disk.
LEMMA DiskNext ==
  ASSUME OneAppender, MaxKills = 0, DiskInv, [Next]_vars
  PROVE  kills' = 0 /\ (RotatedOnDisk /\ WriterOnDisk)'
<1>0. /\ RotationInv /\ WalInv /\ TypeOK /\ kills = 0 /\ RotatedOnDisk /\ WriterOnDisk
      /\ thread \in [Appenders -> Pcs]
  BY Zenon DEF DiskInv, RotationInv, WalInv, TypeOK, Pcs
<1>1. ~ProcessDeath
  <2>1. ~(kills < MaxKills)
    BY <1>0
  <2> QED
    BY Zenon, <2>1 DEF ProcessDeath
<1>2. kills' = 0
  BY Zenon, <1>0, <1>1
    DEF Next, vars, Rotate, AppendEvent, CheckRotate, Sync, BackgroundSync, PowerFailure,
        RotateSync, RotateExists, RotateFails, RotateOpen, RemoveOldest, RenameNext, history
<1>3. CASE UNCHANGED vars
  <2>1. UNCHANGED <<content, on_disk, writer, dir, thread>>
    BY Zenon, <1>3 DEF vars
  <2> QED
    BY Zenon, <1>0, <1>2, <2>1, FilesUnchanged DEF Linked, InLoop
<1>4. ASSUME NEW a \in Appenders, Sync(a) \/ RotateSync(a) \/ BackgroundSync
      PROVE  (RotatedOnDisk /\ WriterOnDisk)'
  BY Zenon, <1>0, <1>4, FsyncAll DEF Sync, RotateSync, SyncBeforeRotation, BackgroundSync
<1>5. CASE BackgroundSync
  BY Zenon, <1>0, <1>2, <1>5, FsyncAll DEF BackgroundSync
<1>6. ASSUME NEW a \in Appenders, CheckRotate(a) \/ RotateFails(a)
      PROVE  (RotatedOnDisk /\ WriterOnDisk)'
  <2>1. UNCHANGED <<content, on_disk, writer, dir>>
        /\ \E t \in {At("rotate", 0), Idle} : thread' = [thread EXCEPT ![a] = t]
    BY Zenon, <1>6 DEF CheckRotate, RotateFails, AfterError
  <2>2. At("rotate", 0).at \notin {"exists", "move", "open"} /\ Idle.at \notin {"exists", "move", "open"}
    BY DEF At, Idle
  <2>3. \A b \in Appenders : ~InLoop(b)'
    BY Zenon, <1>0, <2>1, <2>2 DEF OneAppender, InLoop
  <2>4. Linked' = Linked
    BY Zenon, <2>1 DEF Linked
  <2> QED
    BY Zenon, <1>0, <2>1, <2>3, <2>4, FilesUnchanged
<1>7. ASSUME NEW a \in Appenders, RotateExists(a) \/ RemoveOldest(a) \/ RenameNext(a)
      PROVE  (RotatedOnDisk /\ WriterOnDisk)'
  <2>1. UNCHANGED <<content, on_disk, writer>>
    BY Zenon, <1>7 DEF RotateExists, RemoveOldest, RenameNext
  <2>2. InLoop(a)
    <3>1. thread[a] = At("move", Retain) => thread[a].at = "move"
      BY DEF At
    <3> QED
      BY Zenon, <1>7, <3>1 DEF RotateExists, RemoveOldest, RenameNext, InLoop
  <2>3. \A m \in Linked' : \E n \in Linked : dir'[m] = dir[n]
    <3>1. dir \in [Names -> {None} \cup DOMAIN content] /\ thread[a].i \in Names
      BY Zenon, <1>0 DEF TypeOK, Pcs
    <3>2. ASSUME RenameNext(a) PROVE \A m \in Linked' : \E n \in Linked : dir'[m] = dir[n]
      <4>1. dir[thread[a].i] # None /\ dir' = Renamed(thread[a].i)
        BY Zenon, <3>2 DEF RenameNext
      <4>2. \A m \in Names : dir'[m] = None \/ dir'[m] = dir[m] \/ dir'[m] = dir[thread[a].i]
        BY Zenon, <3>1, <4>1 DEF Renamed
      <4> QED
        BY Zenon, <3>1, <4>1, <4>2 DEF Linked
    <3>3. ASSUME RemoveOldest(a) PROVE \A m \in Linked' : \E n \in Linked : dir'[m] = dir[n]
      <4>1. \A m \in Names : dir'[m] = None \/ dir'[m] = dir[m]
        BY Zenon, <3>1, <3>3 DEF RemoveOldest
      <4> QED
        BY Zenon, <4>1 DEF Linked
    <3>4. ASSUME RotateExists(a) PROVE \A m \in Linked' : \E n \in Linked : dir'[m] = dir[n]
      BY Zenon, <3>4 DEF RotateExists, Linked
    <3> QED
      BY Zenon, <1>7, <3>2, <3>3, <3>4
  <2> QED
    BY Zenon, <1>0, <2>1, <2>2, <2>3, FilesUnchanged
<1> QED
  BY Zenon, <1>0, <1>1, <1>2, <1>3, <1>4, <1>5, <1>6, <1>7, AppendOnDisk, OpenOnDisk, FailureOnDisk
    DEF Next, Rotate

\* A new log has nothing to sync.
LEMMA DiskInit == Init => DiskInv
<1> SUFFICES ASSUME Init PROVE DiskInv
  OBVIOUS
<1>1. RotationInv /\ kills = 0
  BY RotationInit DEF Init
<1>2. Linked = {0} /\ dir[0] = 1 /\ writer.inode = 1 /\ on_disk[1] = Len(content[1])
  BY WalAssumption DEF Init, Linked, Names, None
<1>3. RotatedOnDisk /\ WriterOnDisk
  BY <1>2 DEF RotatedOnDisk, WriterOnDisk
<1> QED
  BY Zenon, <1>1, <1>3 DEF DiskInv

-----------------------------------------------------------------------------
\* The records of the first part of a file.
LEMMA PrefixRecords ==
  ASSUME NEW s \in Seq(Nat), NEW k \in 0 .. Len(s), NEW r
  PROVE  r \in RecordsOf(SubSeq(s, 1, k)) <=> r # Torn /\ \E j \in 1 .. k : r = s[j]
<1>1. /\ DOMAIN SubSeq(s, 1, k) = 1 .. k
      /\ \A j \in 1 .. k : SubSeq(s, 1, k)[j] = s[j]
  OBVIOUS
<1> QED
  BY Zenon, <1>1 DEF RecordsOf

\* The files of a state are sequences, of which a part is on disk.
LEMMA LinkedTypes ==
  ASSUME TypeOK, NEW n \in Names, dir[n] # None
  PROVE  content[dir[n]] \in Seq(Nat) /\ on_disk[dir[n]] \in 0 .. Len(content[dir[n]])
<1>1. dir[n] \in DOMAIN content
  BY Zenon DEF TypeOK
<1> QED
  BY <1>1 DEF TypeOK

\* A record that was on disk in a file that keeps a name and what was on disk of
\* it is still on disk; other records on disk are retired.
LEMMA DurableKept ==
  ASSUME TypeOK, TypeOK', SyncedIsDurable, promised' = promised, retired \subseteq retired',
         \A n \in Linked :
           \/ /\ \E m \in Linked' : dir'[m] = dir[n]
              /\ on_disk[dir[n]] <= on_disk'[dir[n]]
              /\ \A j \in 1 .. on_disk[dir[n]] : content'[dir[n]][j] = content[dir[n]][j]
           \/ RecordsOf(content[dir[n]]) \subseteq retired'
  PROVE  SyncedIsDurable'
<1> SUFFICES ASSUME NEW r \in promised, r \notin retired' PROVE r \in OnDisk'
  BY Zenon DEF SyncedIsDurable
<1>1. PICK n \in Linked : r \in RecordsOf(SubSeq(content[dir[n]], 1, on_disk[dir[n]]))
  BY ZenonT(40) DEF SyncedIsDurable, OnDisk
<1>4. content[dir[n]] \in Seq(Nat) /\ on_disk[dir[n]] \in 0 .. Len(content[dir[n]])
  BY Zenon, LinkedTypes DEF Linked
<1>3. r # Torn /\ \E j \in 1 .. on_disk[dir[n]] : r = content[dir[n]][j]
  <2>1. \A x : x \in RecordsOf(SubSeq(content[dir[n]], 1, on_disk[dir[n]]))
                => x # Torn /\ \E j \in 1 .. on_disk[dir[n]] : x = content[dir[n]][j]
    BY <1>4, PrefixRecords
  <2> QED
    BY Zenon, <1>1, <2>1
<1>2. PICK j \in 1 .. on_disk[dir[n]] : r = content[dir[n]][j]
  BY Zenon, <1>3
<1>5. j \in DOMAIN content[dir[n]]
  BY SMTT(30), <1>2, <1>4
<1>6. r \in RecordsOf(content[dir[n]])
  BY Zenon, <1>2, <1>3, <1>5 DEF RecordsOf
<1>7. PICK m \in Linked' : dir'[m] = dir[n]
  BY ZenonT(40), <1>6
<1>8. \A l \in Names : dir'[l] # None =>
        content'[dir'[l]] \in Seq(Nat) /\ on_disk'[dir'[l]] \in 0 .. Len(content'[dir'[l]])
  <2> SUFFICES ASSUME NEW l \in Names, dir'[l] # None
               PROVE  content'[dir'[l]] \in Seq(Nat) /\ on_disk'[dir'[l]] \in 0 .. Len(content'[dir'[l]])
    OBVIOUS
  <2>1. dir'[l] \in DOMAIN content'
    BY Zenon DEF TypeOK
  <2> QED
    BY SMTT(30), <2>1 DEF TypeOK
<1>9. m \in Names /\ dir'[m] # None
  BY Zenon DEF Linked
<1>10. /\ on_disk[dir[n]] <= on_disk'[dir[n]]
       /\ \A k \in 1 .. on_disk[dir[n]] : content'[dir[n]][k] = content[dir[n]][k]
  BY Zenon, <1>6
<1>11. j \in 1 .. on_disk'[dir'[m]] /\ r = content'[dir'[m]][j]
  <2>1. on_disk'[dir[n]] \in 0 .. Len(content'[dir[n]]) /\ Len(content'[dir[n]]) \in Nat
    BY SMTT(30), <1>7, <1>8, <1>9
  <2>2. j \in 1 .. on_disk'[dir[n]]
    BY <1>4, <1>10, <2>1
  <2> QED
    BY ZenonT(40), <1>2, <1>7, <1>10, <2>2
<1>12. r \in RecordsOf(SubSeq(content'[dir'[m]], 1, on_disk'[dir'[m]]))
  BY Zenon, <1>3, <1>8, <1>9, <1>11, PrefixRecords
<1> QED
  BY Zenon, <1>12 DEF OnDisk

\* A power failure keeps what was on disk of a file.
LEMMA SurvivorKeeps ==
  ASSUME TypeOK, NEW i \in DOMAIN content, NEW s \in Survivors(i)
  PROVE  on_disk[i] <= Len(s) /\ \A j \in 1 .. on_disk[i] : s[j] = content[i][j]
<1>1. content[i] \in Seq(Nat) /\ on_disk[i] \in Nat /\ Len(content[i]) \in Nat /\ Torn \in Nat
  BY SMTT(30) DEF TypeOK, Torn
<1>2. CASE s \in {SubSeq(content[i], 1, k) : k \in on_disk[i] .. Len(content[i])}
  <2>1. PICK k \in on_disk[i] .. Len(content[i]) : s = SubSeq(content[i], 1, k)
    BY Zenon, <1>2
  <2> QED
    BY SMTT(30), <1>1, <2>1
<1>3. CASE s \in {Append(SubSeq(content[i], 1, k), Torn) : k \in on_disk[i] .. Len(content[i]) - 1}
  <2>1. PICK k \in on_disk[i] .. Len(content[i]) - 1 : s = Append(SubSeq(content[i], 1, k), Torn)
    BY Zenon, <1>3
  <2>2. /\ SubSeq(content[i], 1, k) \in Seq(Nat) /\ Len(SubSeq(content[i], 1, k)) = k
        /\ \A j \in 1 .. k : SubSeq(content[i], 1, k)[j] = content[i][j]
    BY SMTT(30), <1>1, <2>1
  <2>3. Len(s) = k + 1 /\ \A j \in 1 .. k : s[j] = content[i][j]
    BY SMTT(30), <1>1, <2>1, <2>2, SeqAppended
  <2> QED
    BY SMTT(30), <1>1, <2>1, <2>3
<1> QED
  BY ZenonT(40), <1>2, <1>3 DEF Survivors

\* sync() returns when every record of every file is on disk.
LEMMA SyncKeepsPromise ==
  ASSUME WalInv, WalInv', RotatedOnDisk, WriterOnDisk, SyncedIsDurable, NEW a \in Appenders, Sync(a)
  PROVE  SyncedIsDurable'
<1>0. TypeOK /\ TypeOK'
  BY Zenon DEF WalInv
<1>1. /\ Fsync /\ UNCHANGED <<dir, content>> /\ retired' = retired
      /\ promised' = promised \cup Replayable
  BY Zenon DEF Sync
<1>2. \A n \in Linked : on_disk'[dir[n]] = Len(content[dir[n]])
  BY Zenon, <1>0, <1>1, FsyncAll DEF Linked
<1>3. \A n \in Linked : RecordsOf(content[dir[n]]) \subseteq OnDisk'
  <2> TAKE n \in Linked
  <2>1. content[dir[n]] \in Seq(Nat)
    BY Zenon, <1>0, LinkedTypes DEF Linked
  <2>2. SubSeq(content[dir[n]], 1, Len(content[dir[n]])) = content[dir[n]]
    BY <2>1
  <2>3. n \in Linked' /\ SubSeq(content'[dir'[n]], 1, on_disk'[dir'[n]]) = content[dir[n]]
    BY Zenon, <1>1, <1>2, <2>2 DEF Linked
  <2> QED
    BY Zenon, <2>3 DEF OnDisk
<1>4. OnDisk \subseteq Replayable
  <2> SUFFICES ASSUME NEW n \in Linked
               PROVE  RecordsOf(SubSeq(content[dir[n]], 1, on_disk[dir[n]])) \subseteq RecordsOf(content[dir[n]])
    BY Zenon DEF OnDisk, Replayable
  <2>1. content[dir[n]] \in Seq(Nat) /\ on_disk[dir[n]] \in 0 .. Len(content[dir[n]])
    BY Zenon, <1>0, LinkedTypes DEF Linked
  <2>2. \A x : x \in RecordsOf(SubSeq(content[dir[n]], 1, on_disk[dir[n]]))
                => x # Torn /\ \E j \in 1 .. on_disk[dir[n]] : x = content[dir[n]][j]
    BY <2>1, PrefixRecords
  <2>3. 1 .. on_disk[dir[n]] \subseteq DOMAIN content[dir[n]]
    BY <2>1
  <2> QED
    BY Zenon, <2>2, <2>3 DEF RecordsOf
<1>5. Replayable \subseteq OnDisk'
  BY Zenon, <1>3 DEF Replayable
<1> QED
  BY Zenon, <1>1, <1>4, <1>5 DEF SyncedIsDurable

\* No step takes a record that sync() has returned for off the disk, but for
\* those it retires.
LEMMA SyncedNext ==
  ASSUME OneAppender, MaxKills = 0, DiskInv, WalInv', SyncedIsDurable, [Next]_vars
  PROVE  SyncedIsDurable'
<1>0. /\ RotationInv /\ WalInv /\ TypeOK /\ TypeOK' /\ kills = 0 /\ RotatedOnDisk /\ WriterOnDisk
      /\ dir \in [Names -> {None} \cup DOMAIN content]
      /\ \A i \in DOMAIN content : content[i] \in Seq(Nat) /\ on_disk[i] \in 0 .. Len(content[i])
      /\ \A n \in Linked : dir[n] \in DOMAIN content
  <2>1. TypeOK
    BY Zenon DEF DiskInv, RotationInv, WalInv
  <2>2. \A i \in DOMAIN content : content[i] \in Seq(Nat) /\ on_disk[i] \in 0 .. Len(content[i])
    BY <2>1 DEF TypeOK
  <2>3. dir \in [Names -> {None} \cup DOMAIN content] /\ \A n \in Linked : dir[n] \in DOMAIN content
    BY Zenon, <2>1 DEF TypeOK, Linked
  <2> QED
    BY Zenon, <2>1, <2>2, <2>3 DEF DiskInv, RotationInv, WalInv
<1>1. ~ProcessDeath
  <2>1. ~(kills < MaxKills)
    BY <1>0
  <2> QED
    BY Zenon, <2>1 DEF ProcessDeath
<1>2. ASSUME NEW a \in Appenders, RemoveOldest(a) PROVE SyncedIsDurable'
  <2>1. /\ promised' = promised /\ content' = content /\ on_disk' = on_disk
        /\ retired' = retired \cup RecordsOf(content[dir[Retain]])
    BY Zenon, <1>2 DEF RemoveOldest
  <2>2. \A n \in Linked : n # Retain => \E m \in Linked' : dir'[m] = dir[n]
    <3>1. \A m \in Names : m # Retain => dir'[m] = dir[m]
      BY Zenon, <1>0, <1>2 DEF RemoveOldest
    <3> QED
      BY Zenon, <3>1 DEF Linked
  <2>3. \A n \in Linked : on_disk[dir[n]] <= on_disk[dir[n]]
    BY <1>0
  <2> QED
    BY Zenon, <1>0, <2>1, <2>2, <2>3, DurableKept
<1>4. ASSUME promised' = promised, retired' = retired, \A a \in Appenders : ~RemoveOldest(a),
             \A n \in Linked :
               /\ on_disk[dir[n]] <= on_disk'[dir[n]]
               /\ \A j \in 1 .. on_disk[dir[n]] : content'[dir[n]][j] = content[dir[n]][j]
      PROVE  SyncedIsDurable'
  <2>1. \A n \in Linked : \E m \in Linked' : dir'[m] = dir[n]
    BY Zenon, <1>0, <1>4, FilesKept
  <2> QED
    BY Zenon, <1>0, <1>4, <2>1, DurableKept
<1>5. SUFFICES ASSUME \A a \in Appenders : ~RemoveOldest(a) PROVE SyncedIsDurable'
  BY Zenon, <1>2
<1>6. ASSUME promised' = promised, retired' = retired, content' = content, on_disk' = on_disk
      PROVE  SyncedIsDurable'
  <2>1. \A n \in Linked : on_disk[dir[n]] <= on_disk[dir[n]]
    BY <1>0
  <2> QED
    BY Zenon, <1>4, <1>5, <1>6, <2>1
<1>7. CASE UNCHANGED vars
  BY Zenon, <1>6, <1>7 DEF vars
<1>8. ASSUME NEW a \in Appenders, CheckRotate(a) \/ RotateExists(a) \/ RotateFails(a) \/ RenameNext(a)
      PROVE  SyncedIsDurable'
  BY Zenon, <1>6, <1>8 DEF CheckRotate, RotateExists, RotateFails, RenameNext, history
<1>9. ASSUME NEW a \in Appenders, AppendEvent(a) PROVE SyncedIsDurable'
  <2> DEFINE w == writer.inode
  <2>1. /\ promised' = promised /\ retired' = retired /\ on_disk' = on_disk
        /\ content' = [content EXCEPT ![w] = Append(content[w], appended')]
    BY ZenonT(40), <1>9 DEF AppendEvent, Written, history
  <2>2. w \in DOMAIN content /\ content \in Seq(Seq(Nat))
    BY <1>0 DEF TypeOK
  <2> HIDE DEF w
  <2>3. ASSUME NEW i \in DOMAIN content, NEW j \in 1 .. on_disk[i]
        PROVE  content'[i][j] = content[i][j]
    <3>1. CASE i # w
      BY <2>1, <2>2, <3>1
    <3>2. CASE i = w
      <4>1. content'[w] = Append(content[w], appended')
        BY <2>1, <2>2
      <4>2. content[w] \in Seq(Nat) /\ j \in 1 .. Len(content[w])
        BY <1>0, <2>2, <3>2
      <4>3. Append(content[w], appended')[j] = content[w][j]
        BY <4>2
      <4> QED
        BY Zenon, <3>2, <4>1, <4>3
    <3> QED
      BY Zenon, <3>1, <3>2
  <2>4. \A n \in Linked : on_disk[dir[n]] <= on_disk[dir[n]]
    BY <1>0
  <2> QED
    BY Zenon, <1>0, <1>4, <1>5, <2>1, <2>3, <2>4
<1>10. ASSUME Fsync, promised' = promised, retired' = retired, UNCHANGED <<dir, content>>
       PROVE  SyncedIsDurable'
  <2>1. \A n \in Linked : on_disk'[dir[n]] = Len(content[dir[n]])
    BY ZenonT(40), <1>0, <1>10, FsyncAll DEF Linked
  <2>2. \A n \in Linked : on_disk[dir[n]] <= on_disk'[dir[n]]
    BY <1>0, <2>1
  <2> QED
    BY Zenon, <1>4, <1>5, <1>10, <2>2
<1>11. ASSUME NEW a \in Appenders, RotateSync(a) \/ BackgroundSync PROVE SyncedIsDurable'
  BY Zenon, <1>10, <1>11 DEF RotateSync, SyncBeforeRotation, BackgroundSync, history
<1>12. CASE BackgroundSync
  BY Zenon, <1>10, <1>12 DEF BackgroundSync, history
<1>13. ASSUME NEW a \in Appenders, RotateOpen(a) PROVE SyncedIsDurable'
  <2>1. \A i \in DOMAIN content : content'[i] = content[i] /\ on_disk'[i] = on_disk[i]
    BY Zenon, <1>0, <1>13, OpenOnDisk
  <2>2. \A n \in Linked : on_disk[dir[n]] <= on_disk'[dir[n]]
    BY <1>0, <2>1
  <2>3. promised' = promised /\ retired' = retired
    BY Zenon, <1>13 DEF RotateOpen, history
  <2> QED
    BY Zenon, <1>0, <1>4, <1>5, <2>1, <2>2, <2>3
<1>14. CASE PowerFailure
  <2>1. \A n \in Linked : content'[dir[n]] \in Survivors(dir[n]) /\ on_disk'[dir[n]] = Len(content'[dir[n]])
    BY Zenon, <1>0, <1>14, FailureOnDisk
  <2>2. \A n \in Linked : /\ on_disk[dir[n]] <= on_disk'[dir[n]]
                          /\ \A j \in 1 .. on_disk[dir[n]] : content'[dir[n]][j] = content[dir[n]][j]
    BY Zenon, <1>0, <2>1, SurvivorKeeps
  <2>3. promised' = promised /\ retired' = retired
    BY Zenon, <1>14 DEF PowerFailure
  <2> QED
    BY Zenon, <1>4, <1>5, <2>2, <2>3
<1> QED
  BY Zenon, <1>0, <1>1, <1>5, <1>7, <1>8, <1>9, <1>11, <1>12, <1>13, <1>14, SyncKeepsPromise
    DEF Next, Rotate

\* As long as one thread appends and the process does not die, records that
\* sync() has returned for are on disk until their file is retired, whatever
\* power failures there are, during a rotation or not.
THEOREM SyncedStaysDurable ==
  ASSUME OneAppender, MaxKills = 0
  PROVE  Spec => []SyncedIsDurable
<1> DEFINE Inv == DiskInv /\ SyncedIsDurable
<1>1. Init => Inv
  BY DiskInit DEF Init, SyncedIsDurable
<1>2. Inv /\ [Next]_vars => Inv'
  BY Zenon, NextInv, NextNameFreeNext, DiskNext, SyncedNext DEF DiskInv, RotationInv
<1> QED
  BY <1>1, <1>2, PTL DEF Spec

-----------------------------------------------------------------------------
(* One thread that appends: the files are one log *)

\* A set of naturals has a least element.  The library establishes this at the
\* end of the module.
LeastElements == \A S \in SUBSET Nat : S # {} => \E m \in S : \A k \in S : m <= k

\* Induction between two bounds.
LEMMA InductionUpTo ==
  ASSUME LeastElements, NEW j \in Nat, NEW L \in Nat, NEW P,
         j \in P, \A n \in j .. L - 1 : n \in P => n + 1 \in P
  PROVE  \A n \in j .. L : n \in P
<1> SUFFICES ASSUME NEW n \in j .. L, n \notin P PROVE FALSE
  OBVIOUS
<1> DEFINE S == {k \in j .. L : k \notin P}
<1>1. S \in SUBSET Nat /\ S # {}
  OBVIOUS
<1>2. PICK m \in S : \A k \in S : m <= k
  BY Zenon, <1>1 DEF LeastElements
<1>3. m # j /\ m \in j .. L /\ m \notin P
  BY Zenon, <1>2
<1>4. m - 1 \in j .. L - 1 /\ m - 1 \in j .. L /\ (m - 1) + 1 = m /\ ~(m <= m - 1)
  BY <1>3
<1>5. m - 1 \in P
  BY Zenon, <1>2, <1>4
<1> QED
  BY Zenon, <1>3, <1>4, <1>5

\* Sequences of numbers, put end to end.
LEMMA Joining ==
  ASSUME NEW a \in Seq(Nat), NEW b \in Seq(Nat)
  PROVE  /\ a \o b \in Seq(Nat) /\ Len(a \o b) = Len(a) + Len(b)
         /\ a \o <<>> = a /\ <<>> \o a = a
         /\ SubSeq(a \o b, Len(a) + 1, Len(a \o b)) = b
         /\ <<>> \in Seq(Nat)
OBVIOUS

\* Where the parts are joined first makes no difference.
LEMMA JoiningThree ==
  ASSUME NEW a \in Seq(Nat), NEW b \in Seq(Nat), NEW c \in Seq(Nat)
  PROVE  (a \o b) \o c = a \o (b \o c)
OBVIOUS

\* What is done to the last part is done to the whole.
LEMMA JoiningLast ==
  ASSUME NEW S, NEW a \in Seq(S), NEW b \in Seq(S), NEW k \in 0 .. Len(b)
  PROVE  SubSeq(a \o b, 1, Len(a) + k) = a \o SubSeq(b, 1, k)
BY SMTT(30)

\* g[n] is what the vector holds after the n-th file.
Reads(g, files) ==
  /\ g \in [0 .. Len(files) -> Seq(Nat)]
  /\ g[0] = <<>>
  /\ \A n \in 1 .. Len(files) : g[n] = g[n - 1] \o files[n]
  /\ Extended(files) = g[Len(files)]

\* replay_all's loop runs to its end: its recursive definition has a solution.
LEMMA ReplayRuns ==
  ASSUME LeastElements, NEW files \in Seq(Seq(Nat))
  PROVE  \E g : Reads(g, files)
<1> DEFINE L == Len(files)
           Runs(g, n) == g[0] = <<>> /\ \A i \in 1 .. n : g[i] = g[i - 1] \o files[i]
           Solved(n) == \E g \in [0 .. n -> Seq(Nat)] : Runs(g, n)
           P == {n \in 0 .. L : Solved(n)}
<1>0. /\ L \in Nat /\ 0 \in Nat /\ \A n \in 1 .. L : files[n] \in Seq(Nat)
      /\ <<>> \in Seq(Nat)
  OBVIOUS
<1>1. Solved(0)
  <2>1. [i \in 0 .. 0 |-> <<>>] \in [0 .. 0 -> Seq(Nat)] /\ Runs([i \in 0 .. 0 |-> <<>>], 0)
    OBVIOUS
  <2> QED
    BY Zenon, <2>1
<1>2. ASSUME NEW n \in 0 .. L - 1, Solved(n) PROVE Solved(n + 1)
  <2>1. PICK h \in [0 .. n -> Seq(Nat)] : Runs(h, n)
    BY Zenon, <1>2
  <2>2. /\ n \in Nat /\ n + 1 \in 1 .. L /\ n \in 0 .. n
    BY <1>0
  <2>3. h[n] \o files[n + 1] \in Seq(Nat)
    BY Zenon, <1>0, <2>2, Joining
  <2> DEFINE g == [i \in 0 .. n + 1 |-> IF i = n + 1 THEN h[n] \o files[n + 1] ELSE h[i]]
  <2>4. \A i \in 0 .. n + 1 : i = n + 1 \/ i \in 0 .. n
    BY <2>2
  <2>5. g \in [0 .. n + 1 -> Seq(Nat)]
    BY Zenon, <2>3, <2>4
  <2>6. n + 1 \in 0 .. n + 1 /\ \A i \in 0 .. n : i \in 0 .. n + 1 /\ i # n + 1
    BY <2>2
  <2>7. g[n + 1] = h[n] \o files[n + 1] /\ \A i \in 0 .. n : g[i] = h[i]
    BY Zenon, <2>6
  <2> HIDE DEF g
  <2>8. ASSUME NEW i \in 1 .. n + 1 PROVE g[i] = g[i - 1] \o files[i]
    <3>1. CASE i = n + 1
      <4>1. i - 1 = n /\ g[n] = h[n]
        BY <2>2, <2>7, <3>1
      <4> QED
        BY Zenon, <2>7, <3>1, <4>1
    <3>2. CASE i # n + 1
      <4>1. i \in 1 .. n /\ i \in 0 .. n /\ i - 1 \in 0 .. n
        BY <2>2, <3>2
      <4> QED
        BY Zenon, <2>1, <2>7, <4>1
    <3> QED
      BY Zenon, <3>1, <3>2
  <2>9. g[0] = <<>>
    <3>1. 0 \in 0 .. n
      BY <2>2
    <3> QED
      BY Zenon, <2>1, <2>7, <3>1
  <2> QED
    BY Zenon, <2>5, <2>8, <2>9
<1>3. Solved(L)
  <2> HIDE DEF Solved
  <2>1. 0 \in P /\ \A n \in 0 .. L - 1 : n \in P => n + 1 \in P
    BY <1>0, <1>1, <1>2
  <2> HIDE DEF P
  <2>2. \A n \in 0 .. L : n \in P
    BY Zenon, <1>0, <2>1, InductionUpTo
  <2>3. L \in 0 .. L
    BY <1>0
  <2> QED
    BY Zenon, <2>2, <2>3 DEF P
<1>4. PICK h \in [0 .. L -> Seq(Nat)] : Runs(h, L)
  BY Zenon, <1>3
<1> DEFINE Sol(g) == g = [k \in 0 .. Len(files) |-> IF k = 0 THEN <<>> ELSE g[k - 1] \o files[k]]
           u == CHOOSE g : Sol(g)
<1>5. Sol(h)
  <2>1. h = [n \in 0 .. L |-> h[n]]
    BY Zenon
  <2>2. \A n \in 0 .. L : n = 0 \/ n \in 1 .. L
    BY <1>0
  <2> QED
    BY Zenon, <1>4, <2>1, <2>2
<1>6. Sol(u)
  BY Zenon, <1>5
<1>7. Extended(files) = u[L]
  BY Zenon DEF Extended
<1> HIDE DEF u
<1>8. u[0] = <<>> /\ \A i \in 1 .. L : u[i] = u[i - 1] \o files[i]
  <2>1. 0 \in 0 .. L /\ \A i \in 1 .. L : i \in 0 .. L /\ i # 0
    BY <1>0
  <2> QED
    BY Zenon, <1>6, <2>1
<1>9. u = [n \in 0 .. L |-> u[n]]
  BY Zenon, <1>6
<1> HIDE DEF Sol, L
<1>10. \A n \in 0 .. L : u[n] \in Seq(Nat)
  <2> DEFINE Q == {i \in 0 .. L : u[i] \in Seq(Nat)}
  <2>1. 0 \in Q
    <3>1. 0 \in 0 .. L
      BY <1>0
    <3> QED
      BY Zenon, <1>0, <1>8, <3>1
  <2>2. ASSUME NEW n \in 0 .. L - 1, n \in Q PROVE n + 1 \in Q
    <3>1. n + 1 \in 1 .. L /\ n + 1 \in 0 .. L /\ (n + 1) - 1 = n
      BY <1>0
    <3>2. u[n + 1] = u[n] \o files[n + 1]
      BY Zenon, <1>8, <3>1
    <3> QED
      BY Zenon, <1>0, <2>2, <3>1, <3>2, Joining
  <2> HIDE DEF Q
  <2>3. \A n \in 0 .. L : n \in Q
    BY Zenon, <1>0, <2>1, <2>2, InductionUpTo
  <2> QED
    BY Zenon, <2>3 DEF Q
<1>11. u \in [0 .. L -> Seq(Nat)]
  BY Zenon, <1>9, <1>10
<1> QED
  BY Zenon, <1>7, <1>8, <1>11 DEF L, Reads

\* How two replays compare: up to where the files are the same, so is what was
\* read; and replays that differ by a prefix after some file, and read the same
\* files from there on, differ by that prefix to the end.
Compared(d, f, e, h) ==
  /\ \A j \in 0 .. Len(f) :
       (\A k \in 1 .. j : f[k] = h[k]) => d[j] = e[j] /\ d[j] \in Seq(Nat)
  /\ \A j \in 0 .. Len(f) : \A p \in Seq(Nat) :
       d[j] = p \o e[j] /\ (\A k \in j + 1 .. Len(f) : f[k] = h[k])
         => \A k \in j .. Len(f) : d[k] = p \o e[k]

\* Any two replays of equally many files compare that way.
LEMMA TwoReplays ==
  ASSUME LeastElements, NEW f \in Seq(Seq(Nat)), NEW h \in Seq(Seq(Nat)), Len(h) = Len(f)
  PROVE  \E d, e : Reads(d, f) /\ Reads(e, h) /\ Compared(d, f, e, h)
<1>d. PICK d : Reads(d, f)
  BY Zenon, ReplayRuns
<1>e. PICK e : Reads(e, h)
  BY Zenon, ReplayRuns
<1>1. ASSUME NEW j \in 0 .. Len(f), \A k \in 1 .. j : f[k] = h[k]
      PROVE  d[j] = e[j] /\ d[j] \in Seq(Nat)
  <2> USE <1>d, <1>e, <1>1
  <2> DEFINE P == {k \in Nat : d[k] = e[k]}
  <2>0. Len(f) \in Nat /\ 0 \in Nat /\ j \in Nat /\ j \in 0 .. j
    OBVIOUS
  <2>1. 0 \in P
    BY Zenon, <2>0 DEF Reads
  <2>2. ASSUME NEW n \in 0 .. j - 1, n \in P PROVE n + 1 \in P
    <3>1. n + 1 \in Nat /\ n + 1 \in 1 .. Len(f) /\ n + 1 \in 1 .. j /\ (n + 1) - 1 = n
      BY <2>0
    <3>2. d[n + 1] = d[n] \o f[n + 1] /\ e[n + 1] = e[n] \o h[n + 1]
      BY Zenon, <3>1 DEF Reads
    <3> QED
      BY Zenon, <2>2, <3>1, <3>2
  <2> HIDE DEF P
  <2>3. \A k \in 0 .. j : k \in P
    BY Zenon, <2>0, <2>1, <2>2, InductionUpTo
  <2> QED
    BY Zenon, <2>0, <2>3 DEF P, Reads
<1>2. ASSUME NEW j \in 0 .. Len(f), NEW p \in Seq(Nat), d[j] = p \o e[j],
             \A k \in j + 1 .. Len(f) : f[k] = h[k]
      PROVE  \A k \in j .. Len(f) : d[k] = p \o e[k]
  <2> USE <1>d, <1>e, <1>2
  <2> DEFINE L == Len(f)
             P == {k \in Nat : d[k] = p \o e[k]}
  <2>0. /\ L \in Nat /\ j \in Nat /\ j \in 0 .. L
        /\ \A n \in 1 .. L : h[n] \in Seq(Nat)
        /\ \A n \in 0 .. L : e[n] \in Seq(Nat)
    <3>1. L \in Nat /\ j \in Nat /\ j \in 0 .. L
      OBVIOUS
    <3>2. \A n \in 1 .. L : h[n] \in Seq(Nat)
      OBVIOUS
    <3>3. \A n \in 0 .. L : e[n] \in Seq(Nat)
      BY Zenon DEF Reads
    <3> QED
      BY Zenon, <3>1, <3>2, <3>3
  <2>1. j \in P
    BY Zenon, <2>0
  <2>2. ASSUME NEW n \in j .. L - 1, n \in P PROVE n + 1 \in P
    <3>1. n + 1 \in Nat /\ n + 1 \in 1 .. L /\ n \in 0 .. L /\ n + 1 \in j + 1 .. L /\ (n + 1) - 1 = n
      BY <2>0
    <3>2. d[n + 1] = d[n] \o f[n + 1] /\ e[n + 1] = e[n] \o h[n + 1] /\ f[n + 1] = h[n + 1]
      BY Zenon, <3>1 DEF Reads
    <3>3. (p \o e[n]) \o h[n + 1] = p \o (e[n] \o h[n + 1])
      BY Zenon, <2>0, <3>1, JoiningThree
    <3> QED
      BY Zenon, <2>2, <3>1, <3>2, <3>3
  <2> HIDE DEF P
  <2>3. \A k \in j .. L : k \in P
    BY Zenon, <2>0, <2>1, <2>2, InductionUpTo
  <2> QED
    BY Zenon, <2>3 DEF P
<1>3. Compared(d, f, e, h)
  BY Zenon, <1>1, <1>2 DEF Compared
<1> QED
  BY Zenon, <1>d, <1>e, <1>3

\* The last file is the end of the log.
LEMMA ReplayLast ==
  ASSUME LeastElements, NEW f \in Seq(Seq(Nat)), NEW h \in Seq(Seq(Nat)), Len(h) = Len(f), Len(f) > 0,
         \A k \in 1 .. Len(f) - 1 : f[k] = h[k]
  PROVE  \E p \in Seq(Nat) : Extended(f) = p \o f[Len(f)] /\ Extended(h) = p \o h[Len(f)]
<1>1. PICK d, e : Reads(d, f) /\ Reads(e, h) /\ Compared(d, f, e, h)
  BY Zenon, TwoReplays
<1>3. /\ Len(f) \in Nat /\ Len(f) \in 1 .. Len(f) /\ Len(f) - 1 \in 0 .. Len(f)
      /\ f[Len(f)] \in Seq(Nat) /\ h[Len(f)] \in Seq(Nat)
  OBVIOUS
<1>4. /\ Extended(f) = d[Len(f)] /\ d[Len(f)] = d[Len(f) - 1] \o f[Len(f)] /\ d[Len(f) - 1] \in Seq(Nat)
      /\ Extended(h) = e[Len(f)] /\ e[Len(f)] = e[Len(f) - 1] \o h[Len(f)] /\ e[Len(f) - 1] \in Seq(Nat)
  BY Zenon, <1>1, <1>3 DEF Reads
<1>5. d[Len(f) - 1] = e[Len(f) - 1]
  BY Zenon, <1>1, <1>3 DEF Compared
<1> QED
  BY Zenon, <1>4, <1>5

\* A file that takes the place of an empty one before it is read all the same.
LEMMA ReplayShift ==
  ASSUME LeastElements, NEW f \in Seq(Seq(Nat)), NEW h \in Seq(Seq(Nat)), Len(h) = Len(f),
         NEW i \in 2 .. Len(f)
  PROVE  /\ f[i - 1] = <<>> /\ h[i - 1] = f[i] /\ h[i] = <<>>
         /\ \A k \in 1 .. Len(f) : k # i /\ k # i - 1 => h[k] = f[k]
         => Extended(h) = Extended(f)
<1>h. SUFFICES ASSUME f[i - 1] = <<>>, h[i - 1] = f[i], h[i] = <<>>,
                      \A k \in 1 .. Len(f) : k # i /\ k # i - 1 => h[k] = f[k]
               PROVE  Extended(h) = Extended(f)
  OBVIOUS
<1>1. PICK d, e : Reads(d, f) /\ Reads(e, h) /\ Compared(d, f, e, h)
  BY Zenon, TwoReplays
<1>3. /\ Len(f) \in Nat /\ Len(f) \in 0 .. Len(f) /\ i \in 1 .. Len(f) /\ i \in 0 .. Len(f) /\ i - 1 \in 1 .. Len(f) /\ i - 2 \in 0 .. Len(f)
      /\ i - 2 \in Nat /\ i - 1 - 1 = i - 2 /\ 0 \in Nat /\ i - 2 \in 0 .. i - 2
      /\ f[i] \in Seq(Nat) /\ Len(f) \in i .. Len(f)
  <2>1. Len(f) \in Nat
    OBVIOUS
  <2>2. f[i] \in Seq(Nat)
    OBVIOUS
  <2> QED
    BY <2>1, <2>2
<1>4. \A k \in 1 .. i - 2 : f[k] = h[k]
  <2>1. \A k \in 1 .. i - 2 : k \in 1 .. Len(f) /\ k # i /\ k # i - 1
    BY SMTT(30), <1>3
  <2> QED
    BY Zenon, <1>h, <2>1
<1>6. d[i - 2] = e[i - 2] /\ d[i - 2] \in Seq(Nat)
  BY Zenon, <1>1, <1>3, <1>4 DEF Compared
<1> DEFINE c == d[i - 2]
<1>7. c \in Seq(Nat) /\ e[i - 2] = c
  BY Zenon, <1>6
<1>8. /\ d[i - 1] = c \o <<>> /\ d[i] = d[i - 1] \o f[i]
      /\ e[i - 1] = c \o f[i] /\ e[i] = e[i - 1] \o <<>>
  <2>1. /\ d[i - 1] = d[i - 2] \o f[i - 1] /\ d[i] = d[i - 1] \o f[i]
        /\ e[i - 1] = e[i - 2] \o h[i - 1] /\ e[i] = e[i - 1] \o h[i]
    BY Zenon, <1>1, <1>3 DEF Reads
  <2> QED
    BY <1>h, <1>7, <2>1
<1>9. c \o <<>> = c /\ c \o f[i] \in Seq(Nat) /\ (c \o f[i]) \o <<>> = c \o f[i]
      /\ <<>> \o (c \o f[i]) = c \o f[i] /\ <<>> \in Seq(Nat)
  <2>1. c \o <<>> = c /\ c \o f[i] \in Seq(Nat) /\ <<>> \in Seq(Nat)
    BY Zenon, <1>3, <1>7, Joining
  <2> QED
    BY Zenon, <2>1, Joining
<1>10. d[i] = <<>> \o e[i]
  BY Zenon, <1>8, <1>9
<1>11. \A k \in i + 1 .. Len(f) : f[k] = h[k]
  <2>1. \A k \in i + 1 .. Len(f) : k \in 1 .. Len(f) /\ k # i /\ k # i - 1
    OBVIOUS
  <2> QED
    BY Zenon, <1>h, <2>1
<1>12. \A k \in i .. Len(f) : d[k] = <<>> \o e[k]
  BY Zenon, <1>1, <1>3, <1>9, <1>10, <1>11 DEF Compared
<1>13. Extended(f) = d[Len(f)] /\ Extended(h) = e[Len(f)] /\ e[Len(f)] \in Seq(Nat)
  BY Zenon, <1>1, <1>3 DEF Reads
<1>14. <<>> \o e[Len(f)] = e[Len(f)]
  BY Zenon, <1>13, Joining
<1> QED
  BY Zenon, <1>3, <1>12, <1>13, <1>14

\* Without the oldest file, its records are missing from the front.
LEMMA ReplayDrop ==
  ASSUME LeastElements, NEW f \in Seq(Seq(Nat)), NEW h \in Seq(Seq(Nat)), Len(h) = Len(f), Len(f) > 0
  PROVE  h[1] = <<>> /\ (\A k \in 2 .. Len(f) : h[k] = f[k])
           => Extended(f) = f[1] \o Extended(h)
<1>h. SUFFICES ASSUME h[1] = <<>>, \A k \in 2 .. Len(f) : h[k] = f[k]
               PROVE  Extended(f) = f[1] \o Extended(h)
  OBVIOUS
<1>1. PICK d, e : Reads(d, f) /\ Reads(e, h) /\ Compared(d, f, e, h)
  BY Zenon, TwoReplays
<1>3. /\ Len(f) \in Nat /\ 1 \in 1 .. Len(f) /\ 1 \in 0 .. Len(f) /\ 1 - 1 = 0 /\ 1 + 1 = 2 /\ Len(f) \in 1 .. Len(f)
      /\ f[1] \in Seq(Nat) /\ <<>> \in Seq(Nat)
  OBVIOUS
<1>4. d[1] = <<>> \o f[1] /\ e[1] = <<>> \o <<>>
  <2>1. d[1] = d[0] \o f[1] /\ e[1] = e[0] \o h[1] /\ d[0] = <<>> /\ e[0] = <<>>
    BY Zenon, <1>1, <1>3 DEF Reads
  <2> QED
    BY <1>h, <2>1
<1>5. <<>> \o f[1] = f[1] /\ <<>> \o <<>> = <<>> /\ f[1] \o <<>> = f[1]
  BY Zenon, <1>3, Joining
<1>6. d[1] = f[1] \o e[1]
  BY Zenon, <1>4, <1>5
<1>7. \A k \in 1 + 1 .. Len(f) : f[k] = h[k]
  BY Zenon, <1>h, <1>3
<1>8. \A k \in 1 .. Len(f) : d[k] = f[1] \o e[k]
  BY Zenon, <1>1, <1>3, <1>6, <1>7 DEF Compared
<1> QED
  BY Zenon, <1>1, <1>3, <1>8 DEF Reads

\* Empty files hold no records.
LEMMA ReplayEmpty ==
  ASSUME LeastElements, NEW f \in Seq(Seq(Nat))
  PROVE  (\A k \in 1 .. Len(f) : f[k] = <<>>) => Extended(f) = <<>>
<1>h. SUFFICES ASSUME \A k \in 1 .. Len(f) : f[k] = <<>>
               PROVE  Extended(f) = <<>>
  OBVIOUS
<1>1. PICK g : Reads(g, f)
  BY Zenon, ReplayRuns
<1>2. Len(f) \in Nat /\ Len(f) \in 0 .. Len(f) /\ 0 \in Nat
  OBVIOUS
<1> DEFINE P == {n \in 0 .. Len(f) : g[n] = <<>>}
<1>3. 0 \in P
  BY SMT, <1>1, <1>2 DEF Reads
<1>4. ASSUME NEW n \in 0 .. Len(f) - 1
      PROVE  n + 1 \in 0 .. Len(f) /\ (g[n] = <<>> => g[n + 1] = <<>>)
  <2>1. n + 1 \in 1 .. Len(f) /\ n + 1 \in 0 .. Len(f) /\ (n + 1) - 1 = n
    BY <1>2
  <2>2. g[n + 1] = g[n] \o f[n + 1]
    BY Zenon, <1>1, <2>1 DEF Reads
  <2>3. f[n + 1] = <<>>
    BY SMT, <1>h, <2>1
  <2> QED
    BY SMT, <2>1, <2>2, <2>3
<1>5. \A n \in 0 .. Len(f) - 1 : n \in P => n + 1 \in P
  BY SMT, <1>4
<1> HIDE DEF P
<1>6. \A n \in 0 .. Len(f) : n \in P
  BY Zenon, <1>2, <1>3, <1>5, InductionUpTo
<1>7. g[Len(f)] = <<>>
  BY SMT, <1>2, <1>6 DEF P
<1>8. Extended(f) = g[Len(f)]
  BY Zenon, <1>1 DEF Reads
<1> QED
  BY SMT, <1>7, <1>8

-----------------------------------------------------------------------------
\* The files that names lead to, oldest first.
FileIn(d, files, n) == IF d[n] = None THEN <<>> ELSE files[d[n]]
FilesIn(d, files) == [k \in 1 .. Retain + 1 |-> FileIn(d, files, Retain + 1 - k)]

\* The path, if it is there, is the file being written.
PathIsWritten == dir[0] # None => dir[0] = writer.inode

LogInv == DiskInv /\ PathIsWritten

\* The files that replay_all reads are sequences of records.
LEMMA FilesTyped ==
  ASSUME NEW files \in Seq(Seq(Nat)), NEW d \in [Names -> {None} \cup DOMAIN files]
  PROVE  /\ FilesIn(d, files) \in Seq(Seq(Nat)) /\ Len(FilesIn(d, files)) = Retain + 1
         /\ Retain + 1 > 0 /\ Retain + 1 \in 1 .. Retain + 1
         /\ FilesIn(d, files)[Retain + 1] = FileIn(d, files, 0)
         /\ \A n \in Names : FileIn(d, files, n) \in Seq(Nat)
         /\ \A k \in 1 .. Retain + 1 : /\ FilesIn(d, files)[k] = FileIn(d, files, Retain + 1 - k)
                                       /\ Retain + 1 - k \in Names
<1>0. Retain \in Nat
  BY Zenon, WalAssumption
<1>1. \A k \in 1 .. Retain + 1 : Retain + 1 - k \in Names
  BY <1>0 DEF Names
<1>2. Retain + 1 > 0 /\ Retain + 1 \in Nat /\ Retain + 1 \in 1 .. Retain + 1 /\ Retain + 1 - (Retain + 1) = 0
  BY <1>0
<1>3. <<>> \in Seq(Nat) /\ \A i \in DOMAIN files : files[i] \in Seq(Nat)
  OBVIOUS
<1>4. \A n \in Names : FileIn(d, files, n) \in Seq(Nat)
  BY Zenon, <1>3 DEF FileIn
<1>5. FilesIn(d, files) \in [1 .. Retain + 1 -> Seq(Nat)]
  BY Zenon, <1>1, <1>4 DEF FilesIn
<1>6. \A k \in 1 .. Retain + 1 : FilesIn(d, files)[k] = FileIn(d, files, Retain + 1 - k)
  BY Zenon DEF FilesIn
<1>7. FilesIn(d, files) \in Seq(Seq(Nat)) /\ Len(FilesIn(d, files)) = Retain + 1
  BY ZenonT(40), <1>2, <1>5, SeqDefined
<1>8. FilesIn(d, files)[Retain + 1] = FileIn(d, files, 0)
  BY <1>2, <1>6
<1> QED
  BY Zenon, <1>1, <1>2, <1>4, <1>6, <1>7, <1>8

\* ReplayAll reads them one after the other.
LEMMA ReplayIs ==
  /\ ReplayAll = Extended(FilesIn(dir, content))
  /\ ReplayAll' = Extended(FilesIn(dir', content'))
<1>1. OldestFirst = FilesIn(dir, content) /\ OldestFirst' = FilesIn(dir', content')
  BY Zenon DEF OldestFirst, FilesIn, FileAt, FileIn
<1>2. Extended(OldestFirst)' = Extended(OldestFirst')
  BY Zenon DEF Extended
<1> QED
  BY Zenon, <1>1, <1>2 DEF ReplayAll

\* Two states whose files are the same but for the path's: what replay_all reads
\* differs in its last part.
LEMMA PathLast ==
  ASSUME LeastElements, TypeOK, TypeOK',
         \A n \in Names \ {0} : FileIn(dir', content', n) = FileIn(dir, content, n)
  PROVE  \E p \in Seq(Nat) : /\ ReplayAll = p \o FileIn(dir, content, 0)
                             /\ ReplayAll' = p \o FileIn(dir', content', 0)
<1> DEFINE f == FilesIn(dir, content)
           h == FilesIn(dir', content')
<1>1. /\ content \in Seq(Seq(Nat)) /\ dir \in [Names -> {None} \cup DOMAIN content]
      /\ content' \in Seq(Seq(Nat)) /\ dir' \in [Names -> {None} \cup DOMAIN content']
  BY Zenon DEF TypeOK
<1>2. /\ f \in Seq(Seq(Nat)) /\ Len(f) = Retain + 1 /\ Len(f) > 0
      /\ f[Len(f)] = FileIn(dir, content, 0)
      /\ \A k \in 1 .. Retain + 1 : f[k] = FileIn(dir, content, Retain + 1 - k) /\ Retain + 1 - k \in Names
  BY Zenon, <1>1, FilesTyped
<1>3. /\ h \in Seq(Seq(Nat)) /\ Len(h) = Len(f) /\ h[Len(f)] = FileIn(dir', content', 0)
      /\ \A k \in 1 .. Retain + 1 : h[k] = FileIn(dir', content', Retain + 1 - k)
  BY Zenon, <1>1, <1>2, FilesTyped
<1>4. \A k \in 1 .. Len(f) - 1 : f[k] = h[k]
  <2>1. \A k \in 1 .. Retain : k \in 1 .. Retain + 1 /\ Retain + 1 - k # 0
    BY WalAssumption
  <2>2. Len(f) - 1 = Retain
    BY <1>2, WalAssumption
  <2>3. \A k \in 1 .. Retain : f[k] = h[k]
    BY Zenon, <1>2, <1>3, <2>1
  <2> QED
    BY Zenon, <2>2, <2>3
<1> HIDE DEF f, h
<1>5. \E p \in Seq(Nat) : Extended(f) = p \o f[Len(f)] /\ Extended(h) = p \o h[Len(f)]
  BY Zenon, <1>2, <1>3, <1>4, ReplayLast
<1> QED
  BY Zenon, <1>2, <1>3, <1>5, ReplayIs DEF f, h

\* What replay_all reads is a sequence of records.
LEMMA ReplayTyped ==
  ASSUME LeastElements, TypeOK
  PROVE  ReplayAll \in Seq(Nat)
<1>1. content \in Seq(Seq(Nat)) /\ dir \in [Names -> {None} \cup DOMAIN content]
  BY Zenon DEF TypeOK
<1>2. FilesIn(dir, content) \in Seq(Seq(Nat))
  BY Zenon, <1>1, FilesTyped
<1>3. PICK g : Reads(g, FilesIn(dir, content))
  BY Zenon, <1>2, ReplayRuns
<1>4. Len(FilesIn(dir, content)) \in 0 .. Len(FilesIn(dir, content))
  BY <1>2
<1> QED
  BY Zenon, <1>3, <1>4, ReplayIs DEF Reads

\* Appending to the last of two sequences.
LEMMA JoiningAppend ==
  ASSUME NEW S, NEW a \in Seq(S), NEW b \in Seq(S), NEW x \in S
  PROVE  a \o Append(b, x) = Append(a \o b, x)
OBVIOUS

\* append: a record more at the end of the log.
LEMMA AppendLogged ==
  ASSUME LeastElements, LogInv, WalInv', OneAppender, NEW a \in Appenders, AppendEvent(a)
  PROVE  Log!AppendRecord
<1> DEFINE w == writer.inode
<1>0. /\ TypeOK /\ TypeOK' /\ DistinctFiles /\ OneOpener /\ PathIsWritten
      /\ thread[a] = Idle /\ appended' \in Nat
  <2>1. TypeOK /\ TypeOK' /\ DistinctFiles /\ OneOpener /\ PathIsWritten /\ thread[a] = Idle
    BY Zenon DEF LogInv, DiskInv, RotationInv, WalInv, AppendEvent
  <2>2. appended' \in Nat
    <3>1. (appended \in 0 .. MaxRecords)'
      BY Zenon, <2>1 DEF TypeOK
    <3> QED
      BY <3>1
  <2> QED
    BY Zenon, <2>1, <2>2
<1>1. /\ content' = [content EXCEPT ![w] = Append(content[w], appended')]
      /\ appended' = appended + 1 /\ on_disk' = on_disk /\ dir' = dir
      /\ writer' = [writer EXCEPT !.unsynced = @ + 1]
  BY Zenon DEF AppendEvent, Written
<1>2. /\ content \in Seq(Seq(Nat)) /\ w \in DOMAIN content /\ content[w] \in Seq(Nat)
      /\ dir \in [Names -> {None} \cup DOMAIN content] /\ writer'.inode = w /\ 0 \in Names
      /\ on_disk[w] \in Nat
  BY <1>0, <1>1, WalAssumption DEF TypeOK, Names
<1>3. dir[0] = w /\ dir[0] # None
  <2>1. \A b \in Appenders : thread[b].at # "open"
    <3>1. Idle.at # "open"
      BY DEF Idle
    <3> QED
      BY Zenon, <1>0, <3>1 DEF OneAppender
  <2> QED
    BY Zenon, <1>0, <2>1 DEF OneOpener, PathIsWritten
<1>4. \A n \in Names \ {0} : FileIn(dir', content', n) = FileIn(dir, content, n)
  <2>1. \A i \in DOMAIN content : i # w => content'[i] = content[i]
    BY Zenon, <1>1, <1>2
  <2>2. \A n \in Names \ {0} : dir[n] # None => dir[n] # w
    BY Zenon, <1>0, <1>2, <1>3 DEF DistinctFiles, Linked
  <2> QED
    BY Zenon, <1>1, <1>2, <2>1, <2>2 DEF FileIn
<1>5. content'[w] = Append(content[w], appended')
  BY Zenon, <1>1, <1>2
<1>6. FileIn(dir, content, 0) = content[w] /\ FileIn(dir', content', 0) = Append(content[w], appended')
  BY Zenon, <1>1, <1>3, <1>5 DEF FileIn
<1>7. PICK p \in Seq(Nat) : ReplayAll = p \o content[w] /\ ReplayAll' = p \o Append(content[w], appended')
  BY Zenon, <1>0, <1>4, <1>6, PathLast
<1>8. p \o Append(content[w], appended') = Append(p \o content[w], appended')
  <2>1. \A b \in Seq(Nat), x \in Nat : p \o Append(b, x) = Append(p \o b, x)
    BY SMTT(30), JoiningAppend
  <2> QED
    BY Zenon, <1>0, <1>2, <2>1
<1>9. ReplayAll' = Append(ReplayAll, appended')
  BY Zenon, <1>7, <1>8
<1>10. Len(ReplayAll') = Len(ReplayAll) + 1 /\ Len(ReplayAll) \in Nat
  BY <1>0, <1>9, ReplayTyped
<1>11. Len(content'[w]) = Len(content[w]) + 1 /\ Len(content[w]) \in Nat
  BY <1>0, <1>2, <1>5
<1>12. Pending' = Pending + 1 /\ Pending \in Int
  <2>1. Pending = Len(content[w]) - on_disk[w] /\ Pending' = Len(content'[w]) - on_disk[w]
    BY Zenon, <1>1, <1>2 DEF Pending
  <2>2. on_disk[w] \in Nat
    BY Zenon, <1>2
  <2> QED
    BY <1>11, <2>1, <2>2
<1>13. Len(ReplayAll') - Pending' = Len(ReplayAll) - Pending
  BY <1>10, <1>12
<1> QED
  BY Zenon, <1>1, <1>9, <1>13 DEF Log!AppendRecord

\* An fsync makes the whole log durable.
LEMMA SyncLogged ==
  ASSUME LogInv, Fsync, UNCHANGED <<dir, content, appended>>, LeastElements
  PROVE  Log!Sync
<1>1. TypeOK /\ RotatedOnDisk /\ WriterOnDisk
  BY Zenon DEF LogInv, DiskInv, RotationInv, WalInv
<1>2. WriterOnDisk' /\ dir' = dir /\ content' = content /\ appended' = appended
  BY Zenon, <1>1, FsyncAll
<1>3. writer'.unsynced = 0 /\ writer'.inode \in DOMAIN content'
  BY <1>1, <1>2 DEF TypeOK, Fsync
<1>4. on_disk'[writer'.inode] = Len(content'[writer'.inode])
  BY ZenonT(40), <1>2, <1>3 DEF WriterOnDisk
<1>5. Len(content'[writer'.inode]) \in Nat
  BY <1>1, <1>2, <1>3 DEF TypeOK
<1>6. Pending' = 0
  BY <1>4, <1>5 DEF Pending
<1>7. ReplayAll' = ReplayAll
  BY Zenon, <1>2, ReplayIs
<1>8. ReplayAll \in Seq(Nat)
  BY Zenon, <1>1, ReplayTyped
<1>9. Len(ReplayAll') - Pending' = Len(ReplayAll)
  BY <1>6, <1>7, <1>8
<1> QED
  BY Zenon, <1>2, <1>7, <1>9 DEF Log!Sync

\* In the loop over the rotated files the whole log is durable.
LEMMA NonePending ==
  ASSUME LogInv, LeastElements, NEW a \in Appenders, InLoop(a)
  PROVE  Pending = 0 /\ Len(ReplayAll) - Pending = Len(ReplayAll) /\ ReplayAll \in Seq(Nat)
<1>1. TypeOK /\ WriterOnDisk
  BY Zenon DEF LogInv, DiskInv, RotationInv, WalInv
<1>2. on_disk[writer.inode] = Len(content[writer.inode])
  BY Zenon, <1>1 DEF WriterOnDisk
<1>3. Len(content[writer.inode]) \in Nat
  BY <1>1 DEF TypeOK
<1>4. Pending = 0
  BY <1>2, <1>3 DEF Pending
<1>5. ReplayAll \in Seq(Nat)
  BY Zenon, <1>1, ReplayTyped
<1> QED
  BY <1>4, <1>5

\* rotate's remove_file: the oldest records go, whole and durable.
LEMMA DropLogged ==
  ASSUME LogInv, WalInv', LeastElements, NEW a \in Appenders, RemoveOldest(a)
  PROVE  Log!Trim \/ UNCHANGED Log!vars
<1> DEFINE f == FilesIn(dir, content)
           h == FilesIn(dir', content')
           x == FileIn(dir, content, Retain)
<1>0. TypeOK /\ TypeOK' /\ Retain \in Names /\ Retain \in Nat /\ Retain # 0
  <2>1. Retain \in Names /\ Retain \in Nat /\ Retain # 0
    BY WalAssumption DEF Names
  <2> QED
    BY Zenon, <2>1 DEF LogInv, DiskInv, RotationInv, WalInv
<1>1. /\ content' = content /\ on_disk' = on_disk /\ writer' = writer /\ appended' = appended
      /\ dir' = [dir EXCEPT ![Retain] = None]
  BY Zenon DEF RemoveOldest
<1>2. /\ content \in Seq(Seq(Nat)) /\ dir \in [Names -> {None} \cup DOMAIN content]
      /\ dir' \in [Names -> {None} \cup DOMAIN content'] /\ content' \in Seq(Seq(Nat))
  BY Zenon, <1>0 DEF TypeOK
<1>3. /\ f \in Seq(Seq(Nat)) /\ Len(f) = Retain + 1 /\ Len(f) > 0 /\ x \in Seq(Nat)
      /\ \A k \in 1 .. Retain + 1 : f[k] = FileIn(dir, content, Retain + 1 - k) /\ Retain + 1 - k \in Names
  BY Zenon, <1>0, <1>2, FilesTyped
<1>4. /\ h \in Seq(Seq(Nat)) /\ Len(h) = Len(f)
      /\ \A k \in 1 .. Retain + 1 : h[k] = FileIn(dir', content', Retain + 1 - k)
  BY Zenon, <1>2, <1>3, FilesTyped
<1>5. /\ FileIn(dir', content', Retain) = <<>>
      /\ \A n \in Names \ {Retain} : FileIn(dir', content', n) = FileIn(dir, content, n)
  <2>1. dir'[Retain] = None /\ \A n \in Names \ {Retain} : dir'[n] = dir[n]
    BY ZenonT(40), <1>0, <1>1, <1>2
  <2>2. FileIn(dir', content', Retain) = <<>>
    BY SMT, <2>1 DEF FileIn
  <2>3. \A n \in Names \ {Retain} : FileIn(dir', content', n) = FileIn(dir, content, n)
    <3>1. content' = content
      BY Zenon, <1>1
    <3> QED
      BY Zenon, <2>1, <3>1 DEF FileIn
  <2> QED
    BY SMT, <2>2, <2>3
<1>6. /\ 1 \in 1 .. Retain + 1 /\ Retain + 1 - 1 = Retain
      /\ \A k \in 2 .. Retain + 1 : k \in 1 .. Retain + 1 /\ Retain + 1 - k # Retain
  BY SMTT(30), <1>0
<1>7. f[1] = x /\ h[1] = <<>> /\ \A k \in 2 .. Retain + 1 : h[k] = f[k]
  <2>1. f[1] = x /\ h[1] = <<>>
    BY <1>3, <1>4, <1>5, <1>6
  <2>2. \A k \in 2 .. Retain + 1 : h[k] = f[k]
    BY Zenon, <1>3, <1>4, <1>5, <1>6
  <2> QED
    BY SMTT(30), <2>1, <2>2
<1> HIDE DEF f, h, x
<1>8. Extended(f) = x \o Extended(h)
  <2>1. \A k \in 2 .. Len(f) : h[k] = f[k]
    BY Zenon, <1>3, <1>7
  <2>2. h[1] = <<>> /\ f[1] = x
    BY Zenon, <1>7
  <2>3. h[1] = <<>> /\ (\A k \in 2 .. Len(f) : h[k] = f[k])
          => Extended(f) = f[1] \o Extended(h)
    BY Zenon, <1>3, <1>4, ReplayDrop
  <2> QED
    BY SMT, <2>1, <2>2, <2>3
<1>9. ReplayAll = x \o ReplayAll'
  BY Zenon, <1>8, ReplayIs DEF f, h
<1>10. ReplayAll' \in Seq(Nat)
  <2>1. PICK g : Reads(g, h)
    BY Zenon, <1>4, ReplayRuns
  <2>2. Len(h) \in 0 .. Len(h)
    BY <1>4
  <2> QED
    BY Zenon, <2>1, <2>2, ReplayIs DEF Reads, h
<1>11. Pending = 0 /\ Len(ReplayAll) - Pending = Len(ReplayAll) /\ ReplayAll \in Seq(Nat)
  <2>1. InLoop(a)
    <3>1. At("move", Retain).at = "move"
      BY DEF At
    <3> QED
      BY Zenon, <3>1 DEF RemoveOldest, InLoop
  <2> QED
    BY Zenon, <2>1, NonePending
<1>12. Pending' = 0
  BY Zenon, <1>1, <1>11 DEF Pending
<1>13. Len(ReplayAll') - Pending' = Len(ReplayAll')
  BY <1>10, <1>12
<1>14. CASE x = <<>>
  <2>1. ReplayAll' = ReplayAll
    BY <1>9, <1>10, <1>14
  <2> QED
    BY Zenon, <1>1, <1>11, <1>13, <2>1 DEF Log!vars
<1>15. CASE x # <<>>
  <2>1. /\ Len(ReplayAll) = Len(x) + Len(ReplayAll')
        /\ SubSeq(ReplayAll, Len(x) + 1, Len(ReplayAll)) = ReplayAll'
    BY Zenon, <1>3, <1>9, <1>10, Joining
  <2>2. Len(x) \in Nat /\ Len(x) # 0 /\ Len(ReplayAll') \in Nat
    BY <1>3, <1>10, <1>15
  <2>3. Len(x) \in 1 .. Len(ReplayAll) /\ Len(ReplayAll') = Len(ReplayAll) - Len(x)
    BY <2>1, <2>2
  <2> QED
    BY Zenon, <1>1, <1>11, <1>13, <2>1, <2>3 DEF Log!Trim
<1> QED
  BY Zenon, <1>14, <1>15

\* rotate's rename: the log reads the same.
LEMMA RenameLogged ==
  ASSUME LogInv, WalInv', LeastElements, NEW a \in Appenders, RenameNext(a)
  PROVE  UNCHANGED Log!vars
<1> DEFINE f == FilesIn(dir, content)
           h == FilesIn(dir', content')
           i == thread[a].i
           P == Retain + 1 - i
<1>0. TypeOK /\ TypeOK' /\ NextNameFree /\ Retain \in Nat
  BY Zenon, WalAssumption DEF LogInv, DiskInv, RotationInv, WalInv
<1>1. /\ content' = content /\ on_disk' = on_disk /\ writer' = writer /\ appended' = appended
      /\ dir' = Renamed(i) /\ i < Retain /\ thread[a].at = "move"
  BY Zenon DEF RenameNext
<1>2. /\ content \in Seq(Seq(Nat)) /\ dir \in [Names -> {None} \cup DOMAIN content]
      /\ dir' \in [Names -> {None} \cup DOMAIN content'] /\ content' \in Seq(Seq(Nat))
      /\ i \in Names
  <2>1. thread \in [Appenders -> Pcs]
    BY Zenon, <1>0 DEF TypeOK, Pcs
  <2>2. i \in Names
    BY <2>1 DEF Pcs
  <2> QED
    BY Zenon, <1>0, <2>2 DEF TypeOK
<1>3. /\ f \in Seq(Seq(Nat)) /\ Len(f) = Retain + 1
      /\ \A k \in 1 .. Retain + 1 : f[k] = FileIn(dir, content, Retain + 1 - k) /\ Retain + 1 - k \in Names
  BY Zenon, <1>0, <1>2, FilesTyped
<1>4. /\ h \in Seq(Seq(Nat)) /\ Len(h) = Len(f)
      /\ \A k \in 1 .. Retain + 1 : h[k] = FileIn(dir', content', Retain + 1 - k)
  BY Zenon, <1>2, <1>3, FilesTyped
<1>5. /\ i \in Nat /\ i + 1 \in Names /\ i + 1 # i /\ P \in 2 .. Retain + 1 /\ P \in 1 .. Retain + 1
      /\ P - 1 \in 1 .. Retain + 1
      /\ Retain + 1 - P = i /\ Retain + 1 - (P - 1) = i + 1
      /\ \A k \in 1 .. Retain + 1 : k # P /\ k # P - 1 => Retain + 1 - k # i /\ Retain + 1 - k # i + 1
  <2>1. Retain \in Nat /\ i \in 0 .. Retain /\ i < Retain
    BY Zenon, <1>0, <1>1, <1>2 DEF Names
  <2> HIDE DEF i
  <2> QED
    BY <2>1 DEF Names
<1>6. dir[i + 1] = None
  BY ZenonT(40), <1>0, <1>1 DEF NextNameFree
<1> HIDE DEF P
<1>7. /\ dir'[i] = None /\ dir'[i + 1] = dir[i]
      /\ \A n \in Names : n # i /\ n # i + 1 => dir'[n] = dir[n]
  <2>1. dir' = [[dir EXCEPT ![i] = None] EXCEPT ![i + 1] = dir[i]]
    BY SMTT(30), <1>1 DEF Renamed
  <2> QED
    BY <1>2, <1>5, <2>1
<1>8. /\ FileIn(dir, content, i + 1) = <<>> /\ FileIn(dir', content', i) = <<>>
      /\ FileIn(dir', content', i + 1) = FileIn(dir, content, i)
      /\ \A n \in Names : n # i /\ n # i + 1 => FileIn(dir', content', n) = FileIn(dir, content, n)
  <2>1. FileIn(dir, content, i + 1) = <<>>
    BY SMTT(30), <1>6 DEF FileIn
  <2>2. FileIn(dir', content', i) = <<>>
    BY SMT, <1>7 DEF FileIn
  <2>3. FileIn(dir', content', i + 1) = FileIn(dir, content, i)
    BY Zenon, <1>1, <1>7 DEF FileIn
  <2>4. \A n \in Names : n # i /\ n # i + 1 => FileIn(dir', content', n) = FileIn(dir, content, n)
    BY Zenon, <1>1, <1>7 DEF FileIn
  <2> QED
    BY SMT, <2>1, <2>2, <2>3, <2>4
<1>9. /\ f[P - 1] = FileIn(dir, content, i + 1) /\ f[P] = FileIn(dir, content, i)
      /\ h[P - 1] = FileIn(dir', content', i + 1) /\ h[P] = FileIn(dir', content', i)
  <2>1. f[P - 1] = FileIn(dir, content, Retain + 1 - (P - 1)) /\ f[P] = FileIn(dir, content, Retain + 1 - P)
    BY Zenon, <1>3, <1>5
  <2>2. h[P - 1] = FileIn(dir', content', Retain + 1 - (P - 1)) /\ h[P] = FileIn(dir', content', Retain + 1 - P)
    BY Zenon, <1>4, <1>5
  <2>3. Retain + 1 - P = i /\ Retain + 1 - (P - 1) = i + 1
    BY Zenon, <1>5
  <2> HIDE DEF f, h, i
  <2> QED
    BY Zenon, <2>1, <2>2, <2>3
<1>10. \A k \in 1 .. Len(f) : k # P /\ k # P - 1 => h[k] = f[k]
  BY Zenon, <1>3, <1>4, <1>5, <1>8
<1> HIDE DEF f, h, i
<1>11. f[P - 1] = <<>> /\ h[P - 1] = f[P] /\ h[P] = <<>>
  BY SMTT(30), <1>8, <1>9
<1>12. Extended(h) = Extended(f)
  <2>1. P \in 2 .. Len(f)
    BY Zenon, <1>3, <1>5
  <2>2. /\ f[P - 1] = <<>> /\ h[P - 1] = f[P] /\ h[P] = <<>>
        /\ \A k \in 1 .. Len(f) : k # P /\ k # P - 1 => h[k] = f[k]
        => Extended(h) = Extended(f)
    BY Zenon, <1>3, <1>4, <2>1, ReplayShift
  <2> QED
    BY SMTT(30), <1>10, <1>11, <2>2
<1>13. ReplayAll' = ReplayAll
  BY Zenon, <1>12, ReplayIs DEF f, h
<1>14. Pending' = Pending
  BY Zenon, <1>1 DEF Pending
<1> QED
  BY Zenon, <1>1, <1>13, <1>14 DEF Log!vars

\* rotate's last step: an empty file at the end of a durable log.
LEMMA OpenLogged ==
  ASSUME LogInv, WalInv', LeastElements, NEW a \in Appenders, RotateOpen(a)
  PROVE  UNCHANGED Log!vars
<1>0. /\ TypeOK /\ TypeOK' /\ WalInv /\ RotatedOnDisk /\ WriterOnDisk /\ 0 \in Names
      /\ dir \in [Names -> {None} \cup DOMAIN content]
  <2>1. 0 \in Names
    BY WalAssumption DEF Names
  <2> QED
    BY Zenon, <2>1 DEF LogInv, DiskInv, RotationInv, WalInv, TypeOK
<1>1. /\ \A i \in DOMAIN content : content'[i] = content[i]
      /\ dir[0] = None /\ dir' = [dir EXCEPT ![0] = writer'.inode]
      /\ content'[writer'.inode] = <<>> /\ on_disk'[writer'.inode] = 0
  BY Zenon, <1>0, OpenOnDisk
<1>2. dir'[0] = writer'.inode /\ \A n \in Names \ {0} : dir'[n] = dir[n]
  BY Zenon, <1>0, <1>1
<1>3. \A n \in Names \ {0} : FileIn(dir', content', n) = FileIn(dir, content, n)
  BY Zenon, <1>0, <1>1, <1>2 DEF FileIn
<1>4. FileIn(dir, content, 0) = <<>> /\ FileIn(dir', content', 0) = <<>>
  BY SMT, <1>1, <1>2 DEF FileIn
<1>5. \E p \in Seq(Nat) : /\ ReplayAll = p \o FileIn(dir, content, 0)
                          /\ ReplayAll' = p \o FileIn(dir', content', 0)
  BY Zenon, <1>0, <1>3, PathLast
<1>6. ReplayAll' = ReplayAll
  BY SMT, <1>4, <1>5
<1>7. Pending = 0
  BY Zenon, NonePending DEF RotateOpen, InLoop
<1>8. Pending' = 0
  BY SMT, <1>1 DEF Pending
<1>9. appended' = appended
  BY Zenon DEF RotateOpen
<1> QED
  BY Zenon, <1>6, <1>7, <1>8, <1>9 DEF Log!vars

\* A power failure leaves a file whole that was on disk to the last record.
LEMMA WholeSurvives ==
  ASSUME NEW i, content[i] \in Seq(Nat), on_disk[i] = Len(content[i]), NEW s \in Survivors(i)
  PROVE  s = content[i]
<1>1. Len(content[i]) \in Nat /\ SubSeq(content[i], 1, Len(content[i])) = content[i]
  OBVIOUS
<1>2. \A k \in Len(content[i]) .. Len(content[i]) : k = Len(content[i])
  BY <1>1
<1>3. Len(content[i]) .. Len(content[i]) - 1 = {}
  BY <1>1
<1> QED
  BY Zenon, <1>1, <1>2, <1>3 DEF Survivors

\* What a power failure leaves of the last part is what it leaves of the whole.
LEMMA FailureLast ==
  ASSUME NEW p \in Seq(Nat), NEW X \in Seq(Nat), NEW d \in 0 .. Len(X), NEW k \in d .. Len(X)
  PROVE  /\ Len(p) + k \in Len(p) + d .. Len(p \o X)
         /\ p \o SubSeq(X, 1, k) = SubSeq(p \o X, 1, Len(p) + k)
         /\ k < Len(X) => /\ Len(p) + k < Len(p \o X)
                          /\ p \o Append(SubSeq(X, 1, k), Torn)
                               = Append(SubSeq(p \o X, 1, Len(p) + k), Torn)
<1>1. /\ Len(p) \in Nat /\ Len(X) \in Nat /\ Len(p \o X) = Len(p) + Len(X) /\ k \in 0 .. Len(X)
      /\ SubSeq(X, 1, k) \in Seq(Nat) /\ Torn \in Nat
  BY SMTT(30) DEF Torn
<1>2. p \o SubSeq(X, 1, k) = SubSeq(p \o X, 1, Len(p) + k)
  BY SMT, <1>1, JoiningLast
<1>3. \A b \in Seq(Nat), x \in Nat : p \o Append(b, x) = Append(p \o b, x)
  BY SMT, JoiningAppend
<1>4. p \o Append(SubSeq(X, 1, k), Torn) = Append(p \o SubSeq(X, 1, k), Torn)
  BY Zenon, <1>1, <1>3
<1>5. Len(p) + k \in Len(p) + d .. Len(p \o X) /\ (k < Len(X) => Len(p) + k < Len(p \o X))
  BY SMT, <1>1
<1> QED
  BY Zenon, <1>2, <1>4, <1>5

\* A power failure cuts the log somewhere after what is durable.
LEMMA FailureLogged ==
  ASSUME LogInv, WalInv', LeastElements, PowerFailure
  PROVE  Log!PowerFailure
<1> DEFINE w == writer.inode
           X == FileIn(dir, content, 0)
           Y == FileIn(dir', content', 0)
<1>0. /\ TypeOK /\ TypeOK' /\ WalInv /\ DistinctFiles /\ OneOpener /\ PathIsWritten
      /\ RotatedOnDisk /\ WriterOnDisk /\ 0 \in Names
      /\ dir \in [Names -> {None} \cup DOMAIN content]
  <2>1. 0 \in Names
    BY WalAssumption DEF Names
  <2> QED
    BY Zenon, <2>1 DEF LogInv, DiskInv, RotationInv, WalInv, TypeOK
<1>1. /\ \A n \in Linked : content'[dir[n]] \in Survivors(dir[n])
      /\ dir' = [dir EXCEPT ![0] = writer'.inode]
      /\ IF dir[0] = None THEN content'[writer'.inode] = <<>> ELSE writer'.inode = dir[0]
      /\ on_disk'[writer'.inode] = Len(content'[writer'.inode])
  BY Zenon, <1>0, FailureOnDisk
<1>2. dir'[0] = writer'.inode /\ \A n \in Names \ {0} : dir'[n] = dir[n]
  BY ZenonT(40), <1>0, <1>1
<1>3. /\ writer'.inode \in DOMAIN content' /\ dir'[0] # None /\ content'[writer'.inode] \in Seq(Nat)
      /\ content[w] \in Seq(Nat) /\ on_disk[w] \in 0 .. Len(content[w])
  BY <1>0, <1>2 DEF TypeOK, None
<1>4. dir[0] = None => on_disk[w] = Len(content[w])
  BY Zenon, <1>0 DEF OneOpener, WriterOnDisk, InLoop
<1>5. \A n \in Names \ {0} : FileIn(dir', content', n) = FileIn(dir, content, n)
  <2> SUFFICES ASSUME NEW n \in Names \ {0} PROVE FileIn(dir', content', n) = FileIn(dir, content, n)
    OBVIOUS
  <2>1. CASE dir[n] = None
    BY Zenon, <1>2, <2>1 DEF FileIn
  <2>2. CASE dir[n] # None
    <3>1. on_disk[dir[n]] = Len(content[dir[n]])
      <4>1. CASE dir[n] # w
        BY Zenon, <1>0, <2>2, <4>1 DEF RotatedOnDisk, Linked
      <4>2. CASE dir[n] = w
        <5>1. dir[0] = None
          BY Zenon, <1>0, <2>2, <4>2 DEF DistinctFiles, Linked, PathIsWritten
        <5> QED
          BY Zenon, <1>4, <4>2, <5>1
      <4> QED
        BY Zenon, <4>1, <4>2
    <3>2. content[dir[n]] \in Seq(Nat)
      BY Zenon, <1>0, <2>2, LinkedTypes
    <3>3. content'[dir[n]] = content[dir[n]]
      <4>1. content'[dir[n]] \in Survivors(dir[n])
        BY Zenon, <1>1, <2>2 DEF Linked
      <4> QED
        BY Zenon, <3>1, <3>2, <4>1, WholeSurvives
    <3> QED
      BY Zenon, <1>2, <2>2, <3>3 DEF FileIn
  <2> QED
    BY Zenon, <2>1, <2>2
<1>6. PICK p \in Seq(Nat) : ReplayAll = p \o X /\ ReplayAll' = p \o Y
  BY Zenon, <1>0, <1>5, PathLast
<1>7. Y = content'[writer'.inode]
  BY Zenon, <1>2, <1>3 DEF FileIn
<1>8. Pending' = 0 /\ Len(ReplayAll') \in Nat
  <2>1. Pending' = 0
    BY SMT, <1>1, <1>3 DEF Pending
  <2>2. Y \in Seq(Nat)
    BY Zenon, <1>3, <1>7
  <2> HIDE DEF Y
  <2>3. ReplayAll' \in Seq(Nat)
    BY Zenon, <1>6, <2>2, Joining
  <2> QED
    BY <2>1, <2>3
<1>9. Len(ReplayAll') - Pending' = Len(ReplayAll')
  BY <1>8
<1>10. appended' = appended
  BY Zenon DEF PowerFailure
<1>11. \E k \in Len(ReplayAll) - Pending .. Len(ReplayAll) :
         \/ ReplayAll' = SubSeq(ReplayAll, 1, k)
         \/ k < Len(ReplayAll) /\ ReplayAll' = Append(SubSeq(ReplayAll, 1, k), Torn)
  <2>1. CASE dir[0] = None
    <3>1. X = <<>> /\ Y = <<>>
      <4>1. X = <<>>
        BY SMT, <2>1 DEF FileIn
      <4>2. content'[writer'.inode] = <<>>
        BY Zenon, <1>1, <2>1
      <4> QED
        BY SMT, <1>7, <4>1, <4>2
    <3>2. ReplayAll' = p /\ ReplayAll = p
      BY SMT, <1>6, <3>1
    <3>3. Pending = 0
      BY SMT, <1>3, <1>4, <2>1 DEF Pending
    <3>4. p = SubSeq(p, 1, Len(p)) /\ Len(p) \in Len(p) - 0 .. Len(p)
      BY SMT
    <3> QED
      BY Zenon, <3>2, <3>3, <3>4
  <2>2. CASE dir[0] # None
    <3>1. /\ dir[0] = w /\ X = content[w] /\ writer'.inode = w
      BY Zenon, <1>0, <1>1, <2>2 DEF FileIn, PathIsWritten
    <3>2. Y \in Survivors(w)
      BY Zenon, <1>0, <1>1, <1>7, <2>2, <3>1 DEF Linked
    <3> DEFINE d == on_disk[w]
    <3>3. X \in Seq(Nat) /\ d \in 0 .. Len(X) /\ Pending = Len(X) - d
      BY Zenon, <1>3, <3>1 DEF Pending
    <3>4. \/ \E k \in d .. Len(X) : Y = SubSeq(X, 1, k)
          \/ \E k \in d .. Len(X) - 1 : Y = Append(SubSeq(X, 1, k), Torn)
      BY Zenon, <3>1, <3>2 DEF Survivors
    <3> HIDE DEF X, Y, d, w
    <3>5. Len(ReplayAll) - Pending = Len(p) + d
      BY SMT, <1>6, <3>3
    <3>6. ASSUME NEW k \in d .. Len(X), Y = SubSeq(X, 1, k)
          PROVE  \E j \in Len(p) + d .. Len(ReplayAll) : ReplayAll' = SubSeq(ReplayAll, 1, j)
      BY Zenon, <1>6, <3>3, <3>6, FailureLast
    <3>7. ASSUME NEW k \in d .. Len(X) - 1, Y = Append(SubSeq(X, 1, k), Torn)
          PROVE  \E j \in Len(p) + d .. Len(ReplayAll) :
                   j < Len(ReplayAll) /\ ReplayAll' = Append(SubSeq(ReplayAll, 1, j), Torn)
      <4>1. k \in d .. Len(X) /\ k < Len(X)
        BY SMT, <3>3
      <4> QED
        BY Zenon, <1>6, <3>3, <3>7, <4>1, FailureLast
    <3> QED
      BY Zenon, <3>4, <3>5, <3>6, <3>7
  <2> QED
    BY Zenon, <2>1, <2>2
<1>12. Log!Torn = Torn
  BY DEF Log!Torn, Torn
<1> QED
  BY Zenon, <1>9, <1>10, <1>11, <1>12 DEF Log!PowerFailure

-----------------------------------------------------------------------------
\* Whoever gives the path to a file has that file open for writing.
LEMMA PathIsWrittenNext ==
  ASSUME WalInv, PathIsWritten, [Next]_vars
  PROVE  PathIsWritten'
<1>0. dir \in [Names -> {None} \cup DOMAIN content] /\ thread \in [Appenders -> Pcs] /\ 0 \in Names
  <2>1. 0 \in Names
    BY WalAssumption DEF Names
  <2> QED
    BY Zenon, <2>1 DEF WalInv, TypeOK, Pcs
<1>1. ASSUME dir' = dir, writer'.inode = writer.inode
      PROVE  PathIsWritten'
  BY Zenon, <1>1 DEF PathIsWritten
<1>2. ASSUME NEW d, dir' = [d EXCEPT ![0] = writer'.inode], d = dir
      PROVE  PathIsWritten'
  BY Zenon, <1>0, <1>2 DEF PathIsWritten
<1>3. ASSUME NEW a \in Appenders, RemoveOldest(a) PROVE PathIsWritten'
  <2>1. dir'[0] = dir[0] /\ writer' = writer
    <3>1. Retain # 0
      BY WalAssumption
    <3> QED
      BY Zenon, <1>0, <1>3, <3>1 DEF RemoveOldest
  <2> QED
    BY Zenon, <2>1 DEF PathIsWritten
<1>4. ASSUME NEW a \in Appenders, RenameNext(a) PROVE PathIsWritten'
  <2>1. thread[a].i \in Names /\ dir' = Renamed(thread[a].i) /\ writer' = writer
    <3>1. thread[a].i \in Names
      BY <1>0 DEF Pcs
    <3> QED
      BY Zenon, <1>4, <3>1 DEF RenameNext
  <2>2. thread[a].i + 1 # 0
    BY <2>1, WalAssumption DEF Names
  <2>3. dir'[0] = None \/ dir'[0] = dir[0]
    BY Zenon, <1>0, <2>1, <2>2 DEF Renamed
  <2> QED
    BY Zenon, <2>1, <2>3 DEF PathIsWritten
<1>5. ASSUME NEW a \in Appenders, AppendEvent(a) PROVE PathIsWritten'
  <2>1. dir' = dir /\ writer' = [writer EXCEPT !.unsynced = @ + 1] /\ writer \in [inode : DOMAIN content, unsynced : Nat]
    BY Zenon, <1>5 DEF AppendEvent, WalInv, TypeOK
  <2>2. writer'.inode = writer.inode
    BY <2>1
  <2> QED
    BY Zenon, <1>1, <2>1, <2>2
<1>6. ASSUME Fsync, dir' = dir PROVE PathIsWritten'
  <2>1. writer' = [writer EXCEPT !.unsynced = 0] /\ writer \in [inode : DOMAIN content, unsynced : Nat]
    BY Zenon, <1>6 DEF Fsync, WalInv, TypeOK
  <2>2. writer'.inode = writer.inode
    BY <2>1
  <2> QED
    BY Zenon, <1>1, <1>6, <2>2
<1>7. CASE PowerFailure
  BY Zenon, <1>2, <1>7, FailureOnDisk
<1>8. CASE ProcessDeath
  BY Zenon, <1>2, <1>8 DEF ProcessDeath, OpenPath
<1>9. ASSUME NEW a \in Appenders, Rotate(a) PROVE PathIsWritten'
  BY Zenon, <1>1, <1>2, <1>3, <1>4, <1>6, <1>9
    DEF Rotate, RotateSync, SyncBeforeRotation, RotateExists, RotateFails, RotateOpen, OpenPath
<1>10. ASSUME NEW a \in Appenders, CheckRotate(a) \/ Sync(a) PROVE PathIsWritten'
  BY Zenon, <1>1, <1>6, <1>10 DEF CheckRotate, Sync
<1>11. CASE BackgroundSync
  BY Zenon, <1>6, <1>11 DEF BackgroundSync
<1>12. CASE UNCHANGED vars
  BY Zenon, <1>1, <1>12 DEF vars
<1> QED
  BY Zenon, <1>5, <1>7, <1>8, <1>9, <1>10, <1>11, <1>12 DEF Next

\* A new log is empty.
LEMMA LogInit ==
  ASSUME LeastElements
  PROVE  Init => LogInv /\ Log!Init
<1> SUFFICES ASSUME Init PROVE LogInv /\ Log!Init
  OBVIOUS
<1>1. /\ DiskInv /\ TypeOK /\ dir[0] = 1 /\ writer.inode = 1 /\ content[1] = <<>> /\ on_disk[1] = 0
      /\ \A n \in Names : FileIn(dir, content, n) = <<>>
  <2>1. DiskInv /\ TypeOK
    BY ZenonT(40), DiskInit DEF DiskInv, RotationInv, WalInv
  <2>2. /\ dir[0] = 1 /\ writer.inode = 1 /\ content[1] = <<>> /\ on_disk[1] = 0
        /\ \A n \in Names : dir[n] = None \/ dir[n] = 1
    BY WalAssumption DEF Init, Names
  <2>3. \A n \in Names : FileIn(dir, content, n) = <<>>
    BY SMT, <2>2 DEF FileIn
  <2> QED
    BY SMT, <2>1, <2>2, <2>3
<1>2. LogInv
  BY <1>1 DEF LogInv, PathIsWritten
<1> DEFINE f == FilesIn(dir, content)
<1>3. /\ f \in Seq(Seq(Nat)) /\ Len(f) = Retain + 1
      /\ \A k \in 1 .. Retain + 1 : f[k] = FileIn(dir, content, Retain + 1 - k) /\ Retain + 1 - k \in Names
  <2>1. content \in Seq(Seq(Nat)) /\ dir \in [Names -> {None} \cup DOMAIN content]
    BY ZenonT(40), <1>1 DEF TypeOK
  <2> QED
    BY Zenon, <2>1, FilesTyped
<1> HIDE DEF f
<1>4. \A k \in 1 .. Len(f) : f[k] = <<>>
  BY SMT, <1>1, <1>3
<1>8. ReplayAll = <<>>
  <2>1. (\A k \in 1 .. Len(f) : f[k] = <<>>) => Extended(f) = <<>>
    BY Zenon, <1>3, ReplayEmpty
  <2>2. ReplayAll = Extended(f)
    BY Zenon, ReplayIs DEF f
  <2> QED
    BY SMT, <1>4, <2>1, <2>2
<1>9. Pending = 0
  BY SMT, <1>1 DEF Pending
<1>10. Len(ReplayAll) - Pending = 0
  BY SMTT(30), <1>8, <1>9
<1>11. appended = 0
  BY DEF Init
<1> QED
  BY SMT, <1>2, <1>8, <1>10, <1>11 DEF Log!Init

\* A step of the files is a step of the log, or none.
LEMMA LogNext ==
  ASSUME LeastElements, OneAppender, MaxKills = 0, LogInv, WalInv', [Next]_vars
  PROVE  [Log!Next]_(Log!vars)
<1>1. ~ProcessDeath
  <2>1. ~(kills < MaxKills)
    BY SMT DEF LogInv, DiskInv
  <2> QED
    BY Zenon, <2>1 DEF ProcessDeath
<1>2. ASSUME UNCHANGED <<dir, content, on_disk, writer, appended>>
      PROVE  UNCHANGED Log!vars
  <2>1. ReplayAll' = ReplayAll
    BY Zenon, <1>2, ReplayIs
  <2>2. Pending' = Pending
    BY Zenon, <1>2 DEF Pending
  <2> QED
    BY Zenon, <1>2, <2>1, <2>2 DEF Log!vars
<1>3. ASSUME NEW a \in Appenders, CheckRotate(a) \/ RotateExists(a) \/ RotateFails(a)
      PROVE  UNCHANGED Log!vars
  BY Zenon, <1>2, <1>3 DEF CheckRotate, RotateExists, RotateFails
<1>4. CASE UNCHANGED vars
  BY Zenon, <1>2, <1>4 DEF vars
<1>5. ASSUME NEW a \in Appenders, Sync(a) \/ RotateSync(a) PROVE Log!Sync
  BY Zenon, <1>5, SyncLogged DEF Sync, RotateSync, SyncBeforeRotation
<1>6. CASE BackgroundSync
  BY Zenon, <1>6, SyncLogged DEF BackgroundSync, Log!Next
<1>7. CASE PowerFailure
  BY Zenon, <1>7, FailureLogged DEF Log!Next
<1>8. ASSUME NEW a \in Appenders, AppendEvent(a) \/ CheckRotate(a) \/ Sync(a) \/ Rotate(a)
      PROVE  [Log!Next]_(Log!vars)
  BY Zenon, <1>3, <1>5, <1>8, AppendLogged, DropLogged, RenameLogged, OpenLogged DEF Rotate, Log!Next
<1> QED
  BY Zenon, <1>1, <1>4, <1>6, <1>7, <1>8 DEF Next

-----------------------------------------------------------------------------
(* The least element of a set of numbers, from the library *)

INSTANCE WellFoundedInduction

\* Every nonempty set of numbers has a least element.
LEMMA LeastElementsExist == LeastElements
<1> SUFFICES ASSUME NEW S \in SUBSET Nat, S # {} PROVE \E m \in S : \A k \in S : m <= k
  BY Zenon DEF LeastElements
<1> DEFINE R == {p \in Nat \X Nat : p[1] < p[2]}
<1>1. IsWellFoundedOn(R, Nat)
  BY Zenon, NatLessThanWellFounded DEF OpToRel
<1> HIDE DEF R
<1>2. PICK m \in S : \A k \in S : ~(<<k, m>> \in R)
  BY Zenon, <1>1, WFMin
<1>3. \A k \in S : ~(k < m)
  BY Zenon, <1>2 DEF R
<1>4. \A k \in S : m <= k
  BY <1>3
<1> QED
  BY Zenon, <1>4

\* With one appending thread, the files of the log together are one append-only
\* log with a durable prefix, as DurableLog promises it to the engine: rotation
\* is invisible but for the records retention drops.
THEOREM FilesAreOneLog ==
  ASSUME OneAppender, MaxKills = 0
  PROVE  Spec => ImplementsLog
<1>1. Init => LogInv /\ Log!Init
  BY Zenon, LogInit, LeastElementsExist
<1>2. LogInv /\ [Next]_vars => LogInv'
  BY Zenon, NextInv, NextNameFreeNext, DiskNext, PathIsWrittenNext DEF LogInv, DiskInv, RotationInv
<1>3. LogInv /\ LogInv' /\ [Next]_vars => [Log!Next]_(Log!vars)
  BY Zenon, LogNext, LeastElementsExist DEF LogInv, DiskInv, RotationInv
<1> QED
  BY <1>1, <1>2, <1>3, PTL DEF Spec, ImplementsLog, Log!Spec
=============================================================================
