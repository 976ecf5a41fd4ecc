----------------------------- MODULE DurableLog -----------------------------
(***************************************************************************)
(* What the engine relies on the write-ahead log for: an append-only       *)
(* sequence of records of which a prefix is on disk.  A power failure may  *)
(* cut off any part that is not, and may leave a torn record at the cut;   *)
(* retention drops whole records from the front, durable ones only.        *)
(***************************************************************************)
EXTENDS Integers, Sequences

VARIABLES
  log,        \* the records a full replay reads, oldest first
  durable,    \* how many of them are on disk
  appended    \* records are numbered by the order of their append

vars == <<log, durable, appended>>

\* A record cut short by a power failure.
Torn == 0

Init ==
  /\ log = <<>>
  /\ durable = 0
  /\ appended = 0

AppendRecord ==
  /\ appended' = appended + 1
  /\ log' = Append(log, appended')
  /\ UNCHANGED durable

Sync ==
  /\ durable' = Len(log)
  /\ UNCHANGED <<log, appended>>

PowerFailure ==
  /\ \E k \in durable .. Len(log) :
       \/ log' = SubSeq(log, 1, k)
       \/ k < Len(log) /\ log' = Append(SubSeq(log, 1, k), Torn)
  /\ durable' = Len(log')
  /\ UNCHANGED appended

Trim ==
  /\ \E k \in 1 .. durable :
       /\ log' = SubSeq(log, k + 1, Len(log))
       /\ durable' = durable - k
  /\ UNCHANGED appended

Next == AppendRecord \/ Sync \/ PowerFailure \/ Trim

Spec == Init /\ [][Next]_vars
=============================================================================
