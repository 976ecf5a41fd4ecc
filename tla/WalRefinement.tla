--------------------------- MODULE WalRefinement ---------------------------
(***************************************************************************)
(* What a full replay of the files reads, and the abstract log they        *)
(* implement when one thread appends.                                      *)
(***************************************************************************)
EXTENDS Wal

\* What read_wal_records returns for the file of a name, nothing if none exists.
FileAt(n) == IF dir[n] = None THEN <<>> ELSE content[dir[n]]

\* The files in the order of replay_old's loop, the path last.
OldestFirst == [k \in 1 .. Retain + 1 |-> FileAt(Retain + 1 - k)]

\* The vector after it was extended by one file after the other.
Extended(files) ==
  LET records[k \in 0 .. Len(files)] ==
        IF k = 0 THEN <<>> ELSE records[k - 1] \o files[k]
  IN  records[Len(files)]

ReplayAll == Extended(OldestFirst)

Pending == Len(content[writer.inode]) - on_disk[writer.inode]

Log == INSTANCE DurableLog WITH
  log <- ReplayAll, durable <- Len(ReplayAll) - Pending, appended <- appended

\* The files together are one durable log: no step of a rotation, and no
\* failure between two of its steps, shows through.
ImplementsLog == Log!Spec
=============================================================================
