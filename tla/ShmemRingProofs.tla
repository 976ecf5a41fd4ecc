-------------------------- MODULE ShmemRingProofs --------------------------
(***************************************************************************)
(* Proofs about the ring of ShmemRing: a run of the server executes no     *)
(* request twice, and an undisturbed call gets the answer to its own       *)
(* request, for every number of slots, of faults and of names.             *)
(*                                                                         *)
(* Neither is inductive.  The invariant RingInv adds where the frames of a *)
(* call can be (TraceInv), that a request still in the file has not been   *)
(* executed (ExecInv), how far write_idx is ahead of a server whose slot   *)
(* was freed under its hands (LateInv, IdxInv), and what the slot of an    *)
(* undisturbed call holds at each of its accesses (OwnInv).                *)
(***************************************************************************)
EXTENDS ShmemRing, TLAPS

\* The type of a slot.
States == {"EMPTY", "REQ_READY", "PROCESSING", "RES_READY", "ERROR"}
SlotTypes == [state : States, len : Frames, payload : Frames]

\* The server is on the call's slot.
Here == Engaged /\ read_idx = cslot

\* The call's slot, its request and its answer.
Own == slot[cslot]
Req == Frame("request", call)
Ans == Frame("answer", call)

\* The frames of a call.
Of(c) == {Frame("request", c), Frame("answer", c)}

\* The next slot of the ring, and how many slots w is ahead of the one after r.
After(i) == (i + 1) % RING_SLOTS
Ahead(r, w) == IF w > r THEN w - r - 1 ELSE w + RING_SLOTS - r - 1

\* A request in the file was not executed yet, but for the one the server is
\* answering; a call that has not written its request yet has none in the file.
ExecInv ==
  /\ \A c \in Calls : executed[c] <= 1
  /\ \A i \in Slots, c \in Calls : slot[i].payload = Frame("request", c) =>
        executed[c] = 0 \/ (spc \in {"len", "payload"} /\ read_idx = i)
  /\ cpc \in {"free", "payload"} => executed[call] = 0 /\ \A i \in Slots : slot[i].payload # Req

\* Frames of a call are in its slot, or in the server's memory while it is there.
TraceInv ==
  /\ \A i \in Slots, c \in Calls : slot[i].payload \in Of(c) \/ slot[i].len \in Of(c) => c[1] = i
  /\ cpc # "idle" => call[1] = cslot
  /\ cpc # "readpayload" => clen = Zeros
  /\ spc # "readpayload" => slen = Zeros
  /\ spc \notin {"len", "payload"} => frame = Zeros
  /\ \A c \in Calls : slen \in Of(c) => c[1] = read_idx
  /\ \A c \in Calls : frame \in Of(c) => frame = Frame("answer", c) /\ c[1] = read_idx

\* Where a slot was freed under the server's hands, write_idx is ahead of the
\* server by no more calls than late has counted, and a call that has not moved
\* it yet uses the slot it names.
LateInv ==
  Engaged /\ slot[read_idx].state = "EMPTY" =>
    /\ Ahead(read_idx, write_idx) <= late
    /\ cpc \in {"free", "payload", "len", "ready", "index"} => write_idx = cslot

\* write_idx is the call's successor, unless a restart set it back.
IdxInv ==
  /\ spc = "down" => read_idx = 0
  /\ cpc \in {"reply", "readlen", "readpayload", "consume"} =>
       \/ write_idx = After(cslot)
       \/ spc = "down"
       \/ spc = "slots" /\ read_idx <= cslot
       \/ Own.state # "REQ_READY" /\ ~Here

\* The way of an undisturbed call's request through the server.
InService ==
  \/ (~Here \/ spc = "claim") /\ Own.state = "REQ_READY" /\ Own.payload = Req /\ Own.len = Req
  \/ /\ Here /\ spc \in {"readlen", "readpayload"} /\ Own.state = "PROCESSING"
     /\ Own.payload = Req /\ Own.len = Req /\ (spc = "readpayload" => slen = Req)
  \/ /\ Here /\ spc \in {"len", "payload"} /\ Own.state = "PROCESSING"
     /\ frame \in {Ans, Cut} /\ (spc = "payload" => Own.len = frame)
  \/ /\ Here /\ spc \in {"ready", "consumed"}
     /\ Own.state = (IF spc = "ready" THEN "PROCESSING" ELSE "RES_READY")
     /\ Own.len = Own.payload /\ Own.payload \in {Ans, Cut}

\* While the call writes: the slot is its own, or the server is late by a round.
Writing ==
  cpc \in {"payload", "len", "ready"} =>
    /\ IF Here THEN late >= RING_SLOTS - 1 ELSE Own.state \in {"EMPTY", "ERROR"}
    /\ \/ (cpc # "payload" => Own.payload = Req) /\ (cpc = "ready" => Own.len = Req)
       \/ Here /\ (spc \in {"payload", "ready"} \/ (spc = "consumed" /\ Own.state # "EMPTY"))

\* While it waits.
Waiting ==
  cpc \in {"index", "reply"} =>
    \/ /\ Here /\ late >= (IF cpc = "index" THEN RING_SLOTS - 1 ELSE RING_SLOTS)
       /\ Own.state # "EMPTY" /\ (Own.state = "RES_READY" => spc = "consumed")
    \/ ~Here /\ Own.state \in {"EMPTY", "ERROR"}
    \/ InService

\* While it reads.
Reading ==
  cpc \in {"readlen", "readpayload", "consume"} =>
    /\ Here /\ spc = "consumed" /\ Own.state = "RES_READY"
    /\ \/ late >= RING_SLOTS
       \/ /\ Own.len = Own.payload /\ Own.payload \in {Ans, Cut}
          /\ (cpc = "readpayload" => clen = Own.len) /\ (cpc = "consume" => Answered)

\* All three, for a call no wait of which ran out and that saw no stop.
OwnInv == ~disturbed => Writing /\ Waiting /\ Reading

\* The inductive invariant.
RingInv == TypeOK /\ ExecInv /\ TraceInv /\ LateInv /\ IdxInv /\ OwnInv

-----------------------------------------------------------------------------
\* What tells frames apart.
LEMMA FrameFacts ==
  /\ \A c, d \in Calls : /\ Frame("request", c) = Frame("request", d) => c = d
                         /\ Frame("answer", c) = Frame("answer", d) => c = d
                         /\ Frame("request", c) # Frame("answer", d)
  /\ \A c \in Calls : /\ Frame("request", c) \in Frames \ {Zeros, Cut, Refusal, Invalid}
                      /\ Frame("answer", c) \in Frames \ {Zeros, Cut, Refusal, Invalid}
  /\ Zeros \in Frames /\ Cut \in Frames /\ Refusal \in Frames
  /\ Zeros # Cut /\ Zeros # Refusal /\ Refusal # Cut /\ Invalid \notin {Zeros, Cut, Refusal}
BY DEF Frame, Frames, Zeros, Cut, Refusal, Invalid

\* Parsing gives the payload or an error ...
LEMMA ParsedFrom ==
  ASSUME NEW len \in Frames, NEW p \in Frames
  PROVE  \A f \in Parsed(len, p) : f = Invalid \/ f = p
BY DEF Parsed

\* ... an error where the payload was cut ...
LEMMA ParsedCut ==
  ASSUME NEW len \in Frames
  PROVE  \A f \in Parsed(len, Cut) : f = Invalid
BY DEF Parsed

\* ... and the payload where the length is the payload's own.
LEMMA ParsedWhole ==
  ASSUME NEW p \in Frames \ {Zeros, Cut}
  PROVE  \A f \in Parsed(p, p) : f = p
BY DEF Parsed

\* What the router answers.
LEMMA AnswerFacts ==
  ASSUME NEW f \in Frames \cup {Invalid}, NEW a \in Answers(f)
  PROVE  \/ a = Refusal /\ \A c \in Calls : f # Frame("request", c)
         \/ \E c \in Calls : f = Frame("request", c) /\ a \in {Frame("answer", c), Cut}
<1>1. \A c \in Calls : Frame("request", c).kind = "request"
  BY DEF Frame
<1>2. f.kind = "request" => f.call \in Calls /\ f = Frame("request", f.call)
  BY DEF Frames, Frame, Zeros, Cut, Refusal, Invalid
<1>3. IF f.kind = "request" THEN a \in {Frame("answer", f.call), Cut} ELSE a = Refusal
  BY DEF Answers
<1> QED
  BY Zenon, <1>1, <1>2, <1>3

\* A fault is counted.
LEMMA FaultCounted ==
  ASSUME TypeOK, Fault
  PROVE  faults' \in 0 .. MaxFaults
BY RingAssumption DEF TypeOK, Fault

\* The ring's arithmetic.
LEMMA RingFacts ==
  /\ RING_SLOTS \in Nat /\ RING_SLOTS > 0 /\ 0 \in Slots
  /\ \A i \in Slots : After(i) \in Slots /\ i \in Nat /\ i < RING_SLOTS /\ i >= 0
                      /\ After(i) = (IF i = RING_SLOTS - 1 THEN 0 ELSE i + 1)
  /\ \A r \in Slots : \A w \in Slots : Ahead(r, w) \in 0 .. RING_SLOTS - 1
  /\ \A r \in Slots : Ahead(r, After(r)) = 0 /\ Ahead(r, r) = RING_SLOTS - 1
  /\ \A r \in Slots : \A w \in Slots : Ahead(r, After(w)) <= Ahead(r, w) + 1
<1>1. RING_SLOTS \in Nat /\ RING_SLOTS > 0 /\ 0 \in Slots
  BY RingAssumption DEF Slots
<1>2. \A i \in Slots : (i + 1) % RING_SLOTS = (IF i = RING_SLOTS - 1 THEN 0 ELSE i + 1)
  BY RingAssumption DEF Slots
<1>3. \A i \in Slots : After(i) \in Slots /\ i \in Nat /\ i < RING_SLOTS /\ i >= 0
                      /\ After(i) = (IF i = RING_SLOTS - 1 THEN 0 ELSE i + 1)
  BY RingAssumption, <1>2 DEF Slots, After
<1>4. \A r \in Slots : \A w \in Slots : Ahead(r, w) \in 0 .. RING_SLOTS - 1
  BY RingAssumption DEF Slots, Ahead
<1>5. \A r \in Slots : Ahead(r, After(r)) = 0 /\ Ahead(r, r) = RING_SLOTS - 1
  BY RingAssumption, <1>3 DEF Slots, Ahead
<1>6. \A r \in Slots : \A w \in Slots : Ahead(r, After(w)) <= Ahead(r, w) + 1
  BY RingAssumption, <1>3 DEF Slots, Ahead
<1> QED
  BY Zenon, <1>1, <1>3, <1>4, <1>5, <1>6

\* A write of the state byte.
LEMMA PutState ==
  ASSUME slot \in [Slots -> SlotTypes], NEW i \in Slots, NEW v \in States, Put(i, "state", v)
  PROVE  /\ slot' \in [Slots -> SlotTypes]
         /\ slot'[i].state = v
         /\ \A j \in Slots : j # i => slot'[j].state = slot[j].state
         /\ \A j \in Slots : slot'[j].len = slot[j].len /\ slot'[j].payload = slot[j].payload
BY DEF Put, SlotTypes

\* A write of the length.
LEMMA PutLen ==
  ASSUME slot \in [Slots -> SlotTypes], NEW i \in Slots, NEW v \in Frames, Put(i, "len", v)
  PROVE  /\ slot' \in [Slots -> SlotTypes]
         /\ slot'[i].len = v
         /\ \A j \in Slots : j # i => slot'[j].len = slot[j].len
         /\ \A j \in Slots : slot'[j].state = slot[j].state /\ slot'[j].payload = slot[j].payload
BY DEF Put, SlotTypes

\* A write of the payload.
LEMMA PutPayload ==
  ASSUME slot \in [Slots -> SlotTypes], NEW i \in Slots, NEW v \in Frames, Put(i, "payload", v)
  PROVE  /\ slot' \in [Slots -> SlotTypes]
         /\ slot'[i].payload = v
         /\ \A j \in Slots : j # i => slot'[j].payload = slot[j].payload
         /\ \A j \in Slots : slot'[j].state = slot[j].state /\ slot'[j].len = slot[j].len
BY DEF Put, SlotTypes

\* NoCall names a call.
LEMMA NoCallFact == NoCall \in Calls
BY NamesAssumption, RingFacts DEF NoCall, Calls

\* A frame is of one call at a slot at most.
LEMMA OneName ==
  ASSUME NEW f \in Frames, NEW w \in Slots
  PROVE  \E x \in Names : \A n \in Names : f \in Of(<<w, n>>) => n = x
<1>1. \A n \in Names : <<w, n>> \in Calls
  BY DEF Calls
<1>2. \A n, m \in Names : f \in Of(<<w, n>>) /\ f \in Of(<<w, m>>) => n = m
  BY <1>1, FrameFacts DEF Of
<1>3. PICK o \in Names : TRUE
  BY NamesAssumption
<1> QED
  BY Zenon, <1>2, <1>3

\* There is a name for the next call.
LEMMA FreshName ==
  ASSUME TypeOK, TraceInv, cpc = "idle"
  PROVE  \E c \in Calls \ Traces : c[1] = write_idx
<1> DEFINE w == write_idx
           held == IF spc = "readpayload" THEN slen ELSE frame
<1>1. w \in Slots /\ held \in Frames /\ slot[w].len \in Frames /\ slot[w].payload \in Frames
  BY DEF TypeOK
<1>2. PICK x \in Names : \A n \in Names : slot[w].len \in Of(<<w, n>>) => n = x
  BY Zenon, <1>1, OneName
<1>3. PICK y \in Names : \A n \in Names : slot[w].payload \in Of(<<w, n>>) => n = y
  BY Zenon, <1>1, OneName
<1>4. PICK z \in Names : \A n \in Names : held \in Of(<<w, n>>) => n = z
  BY Zenon, <1>1, OneName
<1>5. PICK n \in Names : n \notin {x, y, z}
  BY Zenon, NamesAssumption
<1> DEFINE c == <<w, n>>
<1>6. c \in Calls /\ c[1] = w
  BY <1>1 DEF Calls
<1>7. Zeros \notin Of(c)
  BY Zenon, <1>6, FrameFacts DEF Of
<1>8. frame \notin Of(c) /\ slen \notin Of(c) /\ clen \notin Of(c)
  BY Zenon, <1>4, <1>5, <1>7 DEF TraceInv
<1>9. \A i \in Slots : slot[i].len \notin Of(c) /\ slot[i].payload \notin Of(c)
  BY Zenon, <1>2, <1>3, <1>5, <1>6 DEF TraceInv
<1>10. c \notin Traces
  BY Zenon, <1>8, <1>9 DEF Traces, Of
<1> QED
  BY Zenon, <1>6, <1>10

\* BeginCall keeps RingInv: no frame is of the new call, so it was not executed and is in no slot.
LEMMA BeginCallStep == RingInv /\ BeginCall => RingInv'
<1> SUFFICES ASSUME RingInv, BeginCall PROVE RingInv'
  OBVIOUS
<1>f. call' \in Calls \ Traces /\ call'[1] = write_idx
  BY Zenon, FreshName DEF BeginCall, Goto, RingInv
<1>t. \A c \in Calls, i \in Slots : slot[i].payload = Frame("request", c) => c \in Traces
  BY Zenon DEF Traces
<1>e. /\ cpc = "idle" /\ cpc' = "free" /\ cslot' = write_idx /\ executed' \in [Calls -> Nat]
      /\ \A c \in Calls : executed'[c] = IF c \in Traces THEN executed[c] ELSE 0
      /\ write_idx' = write_idx /\ slot' = slot /\ clen' = clen /\ got' = got
      /\ disturbed' = disturbed /\ late' = late
      /\ spc' = spc /\ read_idx' = read_idx /\ slen' = slen /\ frame' = frame /\ faults' = faults
  BY Zenon DEF RingInv, TypeOK, BeginCall, Goto, Client, serverVars
<1>1. TypeOK'
  BY Zenon, <1>f, <1>e DEF RingInv, TypeOK
<1>2. ExecInv'
  <2>1. \A c \in Calls : executed'[c] <= 1
    BY <1>e DEF RingInv, ExecInv
  <2>2. \A i \in Slots, c \in Calls : slot'[i].payload = Frame("request", c) =>
           executed'[c] = 0 \/ (spc' \in {"len", "payload"} /\ read_idx' = i)
    BY Zenon, <1>e DEF RingInv, ExecInv
  <2>3. executed'[call'] = 0 /\ \A i \in Slots : slot'[i].payload # Frame("request", call')
    BY Zenon, <1>f, <1>t, <1>e
  <2> QED
    BY Zenon, <2>1, <2>2, <2>3 DEF ExecInv, Req
<1>3. TraceInv'
  BY Zenon, <1>f, <1>e DEF RingInv, TraceInv
<1>4. LateInv'
  BY Zenon DEF RingInv, LateInv, Engaged, BeginCall, Client, serverVars
<1>5. IdxInv'
  BY Zenon DEF RingInv, IdxInv, BeginCall, Goto, Client, serverVars
<1>6. OwnInv'
  BY Zenon DEF OwnInv, Writing, Waiting, Reading, BeginCall, Goto
<1> QED
  BY Zenon, <1>1, <1>2, <1>3, <1>4, <1>5, <1>6 DEF RingInv

\* SlotIsFree keeps RingInv: a slot found EMPTY under the server's hands is a full round late,
\* as write_idx still names it.
LEMMA SlotIsFreeStep == RingInv /\ SlotIsFree => RingInv'
<1> SUFFICES ASSUME RingInv, SlotIsFree PROVE RingInv'
  OBVIOUS
<1>1. TypeOK'
  BY Zenon DEF RingInv, TypeOK, SlotIsFree, Goto, Client, history, serverVars
<1>2. ExecInv'
  BY Zenon DEF RingInv, ExecInv, Req, SlotIsFree, Goto, Client, history, serverVars
<1>3. TraceInv'
  BY Zenon DEF RingInv, TraceInv, SlotIsFree, Goto, Client, serverVars
<1>4. LateInv'
  BY Zenon DEF RingInv, LateInv, Engaged, SlotIsFree, Goto, Client, history, serverVars
<1>5. IdxInv'
  BY Zenon DEF RingInv, IdxInv, SlotIsFree, Goto, Client, serverVars
<1>6. OwnInv'
  BY RingFacts DEF RingInv, TypeOK, LateInv, OwnInv, Writing, Waiting, Reading, Engaged, Own, Here,
    SlotIsFree, Goto, Client, history, serverVars
<1> QED
  BY Zenon, <1>1, <1>2, <1>3, <1>4, <1>5, <1>6 DEF RingInv

\* SlotWaitEnds keeps RingInv: the call is disturbed from here on.
LEMMA SlotWaitEndsStep == RingInv /\ SlotWaitEnds => RingInv'
<1> SUFFICES ASSUME RingInv, SlotWaitEnds PROVE RingInv'
  OBVIOUS
<1>1. TypeOK'
  BY Zenon DEF RingInv, TypeOK, SlotWaitEnds, Goto, Client, serverVars
<1>2. ExecInv'
  BY Zenon DEF RingInv, ExecInv, Req, SlotWaitEnds, Goto, Client, serverVars
<1>3. TraceInv'
  BY Zenon DEF RingInv, TraceInv, SlotWaitEnds, Goto, Client, serverVars
<1>4. LateInv'
  BY Zenon DEF RingInv, LateInv, Engaged, SlotWaitEnds, Goto, Client, serverVars
<1>5. IdxInv'
  BY Zenon DEF RingInv, IdxInv, SlotWaitEnds, Goto, Client, serverVars
<1>6. OwnInv'
  BY Zenon DEF OwnInv, SlotWaitEnds
<1> QED
  BY Zenon, <1>1, <1>2, <1>3, <1>4, <1>5, <1>6 DEF RingInv

\* WritePayload keeps RingInv: the request appears for the first time, in the call's slot.
LEMMA WritePayloadStep == RingInv /\ WritePayload => RingInv'
<1> SUFFICES ASSUME RingInv, WritePayload PROVE RingInv'
  OBVIOUS
<1>s. /\ slot' \in [Slots -> SlotTypes]
      /\ slot'[cslot].payload = Frame("request", call)
      /\ \A j \in Slots : j # cslot => slot'[j].payload = slot[j].payload
      /\ \A j \in Slots : slot'[j].state = slot[j].state /\ slot'[j].len = slot[j].len
  <2>1. cslot \in Slots /\ Frame("request", call) \in Frames /\ slot \in [Slots -> SlotTypes]
    BY Zenon, FrameFacts DEF RingInv, TypeOK, SlotTypes, States
  <2> QED
    BY Zenon, <2>1, PutPayload DEF WritePayload
<1>1. TypeOK'
  BY Zenon, <1>s DEF RingInv, TypeOK, SlotTypes, States, WritePayload, Goto, Client, history,
    serverVars
<1>2. ExecInv'
  BY <1>s, FrameFacts DEF RingInv, TypeOK, ExecInv, WritePayload, Goto, Client, history, serverVars
<1>3. TraceInv'
  BY <1>s, FrameFacts DEF RingInv, TypeOK, TraceInv, Of, WritePayload, Goto, Client, serverVars
<1>4. LateInv'
  BY Zenon, <1>s DEF RingInv, TypeOK, LateInv, Engaged, WritePayload, Goto, Client, history,
    serverVars
<1>5. IdxInv'
  BY Zenon DEF RingInv, IdxInv, WritePayload, Goto, Client, serverVars
<1>6. OwnInv'
  BY Zenon, <1>s DEF RingInv, TypeOK, OwnInv, Writing, Waiting, Reading, Engaged, Own, Here, Req,
    WritePayload, Goto, Client, history, serverVars
<1> QED
  BY Zenon, <1>1, <1>2, <1>3, <1>4, <1>5, <1>6 DEF RingInv

\* WriteLen keeps RingInv: the length is put in front of the request, or into an answer.
LEMMA WriteLenStep == RingInv /\ WriteLen => RingInv'
<1> SUFFICES ASSUME RingInv, WriteLen PROVE RingInv'
  OBVIOUS
<1>s. /\ slot' \in [Slots -> SlotTypes]
      /\ slot'[cslot].len = Frame("request", call)
      /\ \A j \in Slots : j # cslot => slot'[j].len = slot[j].len
      /\ \A j \in Slots : slot'[j].state = slot[j].state /\ slot'[j].payload = slot[j].payload
  <2>1. cslot \in Slots /\ Frame("request", call) \in Frames /\ slot \in [Slots -> SlotTypes]
    BY Zenon, FrameFacts DEF RingInv, TypeOK, SlotTypes, States
  <2> QED
    BY Zenon, <2>1, PutLen DEF WriteLen
<1>1. TypeOK'
  BY Zenon, <1>s DEF RingInv, TypeOK, SlotTypes, States, WriteLen, Goto, Client, history, serverVars
<1>2. ExecInv'
  BY Zenon, <1>s DEF RingInv, ExecInv, WriteLen, Goto, Client, history, serverVars
<1>3. TraceInv'
  BY <1>s, FrameFacts DEF RingInv, TypeOK, TraceInv, Of, WriteLen, Goto, Client, serverVars
<1>4. LateInv'
  BY Zenon, <1>s DEF RingInv, TypeOK, LateInv, Engaged, WriteLen, Goto, Client, history, serverVars
<1>5. IdxInv'
  BY Zenon DEF RingInv, IdxInv, WriteLen, Goto, Client, serverVars
<1>6. OwnInv'
  BY Zenon, <1>s DEF RingInv, TypeOK, OwnInv, Writing, Waiting, Reading, Engaged, Own, Here, Req,
    WriteLen, Goto, Client, history, serverVars
<1> QED
  BY Zenon, <1>1, <1>2, <1>3, <1>4, <1>5, <1>6 DEF RingInv

\* WriteReady keeps RingInv: a slot the server is not on becomes a request in service.
LEMMA WriteReadyStep == RingInv /\ WriteReady => RingInv'
<1> SUFFICES ASSUME RingInv, WriteReady PROVE RingInv'
  OBVIOUS
<1>s. /\ slot' \in [Slots -> SlotTypes]
      /\ slot'[cslot].state = "REQ_READY"
      /\ \A j \in Slots : j # cslot => slot'[j].state = slot[j].state
      /\ \A j \in Slots : slot'[j].len = slot[j].len /\ slot'[j].payload = slot[j].payload
  <2>1. cslot \in Slots /\ "REQ_READY" \in States /\ slot \in [Slots -> SlotTypes]
    BY Zenon DEF RingInv, TypeOK, SlotTypes, States
  <2> QED
    BY Zenon, <2>1, PutState DEF WriteReady
<1>1. TypeOK'
  BY Zenon, <1>s DEF RingInv, TypeOK, SlotTypes, States, WriteReady, Goto, Client, history,
    serverVars
<1>2. ExecInv'
  BY Zenon, <1>s DEF RingInv, ExecInv, WriteReady, Goto, Client, history, serverVars
<1>3. TraceInv'
  BY Zenon, <1>s DEF RingInv, TraceInv, WriteReady, Goto, Client, serverVars
<1>4. LateInv'
  BY Zenon, <1>s DEF RingInv, TypeOK, LateInv, Engaged, WriteReady, Goto, Client, history,
    serverVars
<1>5. IdxInv'
  BY Zenon DEF RingInv, IdxInv, WriteReady, Goto, Client, serverVars
<1>6. OwnInv'
  BY Zenon, <1>s DEF RingInv, TypeOK, OwnInv, Writing, Waiting, Reading, InService, Engaged, Own,
    Here, Req, WriteReady, Goto, Client, history, serverVars
<1> QED
  BY Zenon, <1>1, <1>2, <1>3, <1>4, <1>5, <1>6 DEF RingInv

\* AdvanceWriteIdx keeps RingInv: write_idx moves one slot ahead of the server, and late counts it.
LEMMA AdvanceWriteIdxStep == RingInv /\ AdvanceWriteIdx => RingInv'
<1> SUFFICES ASSUME RingInv, AdvanceWriteIdx PROVE RingInv'
  OBVIOUS
<1>1. TypeOK'
  BY RingFacts DEF RingInv, TypeOK, After, AdvanceWriteIdx, Goto, Client, serverVars
<1>2. ExecInv'
  BY Zenon DEF RingInv, ExecInv, AdvanceWriteIdx, Goto, Client, serverVars
<1>3. TraceInv'
  BY Zenon DEF RingInv, TraceInv, AdvanceWriteIdx, Goto, Client, serverVars
<1>4. LateInv'
  BY RingFacts DEF RingInv, TypeOK, LateInv, Engaged, After, AdvanceWriteIdx, Goto, Client,
    serverVars
<1>5. IdxInv'
  BY Zenon DEF RingInv, IdxInv, After, AdvanceWriteIdx, Client, serverVars
<1>6. OwnInv'
  BY RingFacts DEF RingInv, TypeOK, OwnInv, Writing, Waiting, Reading, InService, Engaged, Own,
    Here, Req, Ans, AdvanceWriteIdx, Goto, Client, serverVars
<1> QED
  BY Zenon, <1>1, <1>2, <1>3, <1>4, <1>5, <1>6 DEF RingInv

\* ReplyIsReady keeps RingInv: RES_READY is the server's own writing, which it waits on.
LEMMA ReplyIsReadyStep == RingInv /\ ReplyIsReady => RingInv'
<1> SUFFICES ASSUME RingInv, ReplyIsReady PROVE RingInv'
  OBVIOUS
<1>1. TypeOK'
  BY Zenon DEF RingInv, TypeOK, ReplyIsReady, Goto, Client, history, serverVars
<1>2. ExecInv'
  BY Zenon DEF RingInv, ExecInv, ReplyIsReady, Goto, Client, history, serverVars
<1>3. TraceInv'
  BY Zenon DEF RingInv, TraceInv, ReplyIsReady, Goto, Client, serverVars
<1>4. LateInv'
  BY Zenon DEF RingInv, LateInv, Engaged, ReplyIsReady, Goto, Client, history, serverVars
<1>5. IdxInv'
  BY Zenon DEF RingInv, IdxInv, Engaged, Own, Here, ReplyIsReady, Goto, Client, serverVars
<1>6. OwnInv'
  BY Zenon DEF RingInv, OwnInv, Writing, Waiting, Reading, InService, Engaged, Own, Here, Ans,
    ReplyIsReady, Goto, Client, history, serverVars
<1> QED
  BY Zenon, <1>1, <1>2, <1>3, <1>4, <1>5, <1>6 DEF RingInv

\* ReplyIsError keeps RingInv: the call is over.
LEMMA ReplyIsErrorStep == RingInv /\ ReplyIsError => RingInv'
<1> SUFFICES ASSUME RingInv, ReplyIsError PROVE RingInv'
  OBVIOUS
<1>1. TypeOK'
  BY Zenon, FrameFacts, RingFacts, NoCallFact DEF RingInv, TypeOK, ReplyIsError, Client, Return,
    serverVars
<1>2. ExecInv'
  BY Zenon DEF RingInv, ExecInv, ReplyIsError, Client, Return, serverVars
<1>3. TraceInv'
  BY Zenon DEF RingInv, TraceInv, ReplyIsError, Client, Return, serverVars
<1>4. LateInv'
  BY Zenon DEF RingInv, LateInv, Engaged, ReplyIsError, Client, Return, serverVars
<1>5. IdxInv'
  BY Zenon DEF RingInv, IdxInv, ReplyIsError, Client, Return, serverVars
<1>6. OwnInv'
  BY Zenon DEF OwnInv, Writing, Waiting, Reading, ReplyIsError, Return
<1> QED
  BY Zenon, <1>1, <1>2, <1>3, <1>4, <1>5, <1>6 DEF RingInv

\* ReplyWaitEnds keeps RingInv: the call is disturbed from here on.
LEMMA ReplyWaitEndsStep == RingInv /\ ReplyWaitEnds => RingInv'
<1> SUFFICES ASSUME RingInv, ReplyWaitEnds PROVE RingInv'
  OBVIOUS
<1>1. TypeOK'
  BY Zenon DEF RingInv, TypeOK, ReplyWaitEnds, Goto, Client, serverVars
<1>2. ExecInv'
  BY Zenon DEF RingInv, ExecInv, ReplyWaitEnds, Goto, Client, serverVars
<1>3. TraceInv'
  BY Zenon DEF RingInv, TraceInv, ReplyWaitEnds, Goto, Client, serverVars
<1>4. LateInv'
  BY Zenon DEF RingInv, LateInv, Engaged, ReplyWaitEnds, Goto, Client, serverVars
<1>5. IdxInv'
  BY Zenon DEF RingInv, IdxInv, Engaged, Own, Here, ReplyWaitEnds, Goto, Client, serverVars
<1>6. OwnInv'
  BY Zenon DEF OwnInv, ReplyWaitEnds
<1> QED
  BY Zenon, <1>1, <1>2, <1>3, <1>4, <1>5, <1>6 DEF RingInv

\* ReadLen keeps RingInv: the length read is the answer's, as the server waits for the slot.
LEMMA ReadLenStep == RingInv /\ ReadLen => RingInv'
<1> SUFFICES ASSUME RingInv, ReadLen PROVE RingInv'
  OBVIOUS
<1>1. TypeOK'
  BY Zenon DEF RingInv, TypeOK, ReadLen, Goto, Client, history, serverVars
<1>2. ExecInv'
  BY Zenon DEF RingInv, ExecInv, ReadLen, Goto, Client, history, serverVars
<1>3. TraceInv'
  BY Zenon DEF RingInv, TraceInv, ReadLen, Goto, Client, serverVars
<1>4. LateInv'
  BY Zenon DEF RingInv, LateInv, Engaged, ReadLen, Goto, Client, history, serverVars
<1>5. IdxInv'
  BY Zenon DEF RingInv, IdxInv, Engaged, Own, Here, ReadLen, Goto, Client, serverVars
<1>6. OwnInv'
  BY Zenon DEF RingInv, OwnInv, Writing, Waiting, Reading, Engaged, Own, Here, Ans, ReadLen, Goto,
    Client, history, serverVars
<1> QED
  BY Zenon, <1>1, <1>2, <1>3, <1>4, <1>5, <1>6 DEF RingInv

\* ReadPayload keeps RingInv: the frame parsed is the call's answer, or the error of one cut short.
LEMMA ReadPayloadStep == RingInv /\ ReadPayload => RingInv'
<1> SUFFICES ASSUME RingInv, ReadPayload PROVE RingInv'
  OBVIOUS
<1>g. /\ clen \in Frames /\ slot[cslot].payload \in Frames
      /\ got' \in Parsed(clen, slot[cslot].payload)
  BY Zenon DEF RingInv, TypeOK, ReadPayload
<1>h. got' = Invalid \/ got' = slot[cslot].payload
  BY Zenon, <1>g, ParsedFrom
<1>1. TypeOK'
  BY Zenon, <1>g, <1>h, FrameFacts DEF RingInv, TypeOK, ReadPayload, Goto, Client, serverVars,
    history
<1>2. ExecInv'
  BY Zenon DEF RingInv, ExecInv, ReadPayload, Goto, Client, history, serverVars
<1>3. TraceInv'
  BY Zenon DEF RingInv, TraceInv, ReadPayload, Goto, Client, serverVars
<1>4. LateInv'
  BY Zenon DEF RingInv, LateInv, Engaged, ReadPayload, Goto, Client, history, serverVars
<1>5. IdxInv'
  BY Zenon DEF RingInv, IdxInv, Engaged, Own, Here, ReadPayload, Goto, Client, serverVars
<1>6. OwnInv'
  <2>1. clen = slot[cslot].payload /\ slot[cslot].payload \in {Ans, Cut} => Answered'
    <3>1. call' = call /\ cslot' = cslot /\ slot' = slot /\ call \in Calls
      BY Zenon DEF RingInv, TypeOK, ReadPayload
    <3>2. slot[cslot].payload = Cut => got' = Invalid
      BY Zenon, <1>g, ParsedCut
    <3>3. clen = slot[cslot].payload /\ slot[cslot].payload = Ans => got' = Ans
      BY Zenon, <1>g, <3>1, ParsedWhole, FrameFacts DEF Ans
    <3> QED
      BY Zenon, <3>1, <3>2, <3>3 DEF Answered, Ans
  <2> QED
    BY Zenon, <2>1 DEF RingInv, OwnInv, Writing, Waiting, Reading, Own, Here, Engaged, Ans,
      ReadPayload, Goto, Client, serverVars, history
<1> QED
  BY Zenon, <1>1, <1>2, <1>3, <1>4, <1>5, <1>6 DEF RingInv

\* Consume keeps RingInv: the slot becomes EMPTY; where the server is on it, write_idx is the next.
LEMMA ConsumeStep == RingInv /\ Consume => RingInv'
<1> SUFFICES ASSUME RingInv, Consume PROVE RingInv'
  OBVIOUS
<1>s. /\ slot' \in [Slots -> SlotTypes]
      /\ slot'[cslot].state = "EMPTY"
      /\ \A j \in Slots : j # cslot => slot'[j].state = slot[j].state
      /\ \A j \in Slots : slot'[j].len = slot[j].len /\ slot'[j].payload = slot[j].payload
  <2>1. cslot \in Slots /\ "EMPTY" \in States /\ slot \in [Slots -> SlotTypes]
    BY Zenon DEF RingInv, TypeOK, SlotTypes, States
  <2> QED
    BY Zenon, <2>1, PutState DEF Consume
<1>1. TypeOK'
  BY Zenon, <1>s, FrameFacts, RingFacts, NoCallFact DEF RingInv, TypeOK, SlotTypes, States,
    Consume, Client, Return, serverVars
<1>2. ExecInv'
  BY Zenon, <1>s DEF RingInv, ExecInv, Consume, Client, Return, serverVars
<1>3. TraceInv'
  BY Zenon, <1>s DEF RingInv, TraceInv, Consume, Client, Return, serverVars
<1>4. LateInv'
  <2>1. CASE Here
    <3>1. write_idx = After(cslot) /\ read_idx = cslot
      BY Zenon, <2>1 DEF RingInv, IdxInv, Consume, Here, Engaged
    <3>2. Ahead(read_idx, write_idx) = 0 /\ late >= 0
      BY <3>1, RingFacts DEF RingInv, TypeOK
    <3> QED
      BY Zenon, <3>2 DEF LateInv, Consume, Return, Client, serverVars
  <2>2. CASE ~Here
    BY Zenon, <1>s, <2>2 DEF RingInv, TypeOK, LateInv, Here, Engaged, Consume, Return, Client,
      serverVars
  <2> QED
    BY Zenon, <2>1, <2>2
<1>5. IdxInv'
  BY Zenon DEF RingInv, IdxInv, Consume, Client, Return, serverVars
<1>6. OwnInv'
  BY Zenon DEF OwnInv, Writing, Waiting, Reading, Consume, Return
<1> QED
  BY Zenon, <1>1, <1>2, <1>3, <1>4, <1>5, <1>6 DEF RingInv

\* CallFails keeps RingInv: the call is over and the slot stays as it is.
LEMMA CallFailsStep == RingInv /\ CallFails => RingInv'
<1> SUFFICES ASSUME RingInv, CallFails PROVE RingInv'
  OBVIOUS
<1>1. TypeOK'
  <2>1. faults' \in 0 .. MaxFaults
    BY Zenon, FaultCounted DEF RingInv, CallFails
  <2> QED
    BY Zenon, <2>1, FrameFacts, RingFacts, NoCallFact DEF RingInv, TypeOK, CallFails, Return,
      serverVars
<1>2. ExecInv'
  BY Zenon DEF RingInv, ExecInv, CallFails, Return, serverVars
<1>3. TraceInv'
  BY Zenon DEF RingInv, TraceInv, CallFails, Return, serverVars
<1>4. LateInv'
  BY Zenon DEF RingInv, LateInv, Engaged, CallFails, Return, serverVars
<1>5. IdxInv'
  BY Zenon DEF RingInv, IdxInv, CallFails, Return, serverVars
<1>6. OwnInv'
  BY Zenon DEF OwnInv, Writing, Waiting, Reading, CallFails, Return
<1> QED
  BY Zenon, <1>1, <1>2, <1>3, <1>4, <1>5, <1>6 DEF RingInv

\* ServerStart keeps RingInv: write_idx goes back to 0, and the server begins to clear the slots.
LEMMA ServerStartStep == RingInv /\ ServerStart => RingInv'
<1> SUFFICES ASSUME RingInv, ServerStart PROVE RingInv'
  OBVIOUS
<1>1. TypeOK'
  BY Zenon, RingFacts DEF RingInv, TypeOK, ServerStart, Server, Serve, history, clientVars
<1>2. ExecInv'
  BY Zenon DEF RingInv, ExecInv, Req, ServerStart, Server, Serve, history, clientVars
<1>3. TraceInv'
  BY Zenon DEF RingInv, TraceInv, ServerStart, Server, Serve, clientVars
<1>4. LateInv'
  BY Zenon DEF LateInv, Engaged, ServerStart, Serve
<1>5. IdxInv'
  BY Zenon, RingFacts DEF RingInv, TypeOK, IdxInv, ServerStart, Server, Serve, clientVars
<1>6. OwnInv'
  BY Zenon DEF RingInv, OwnInv, Writing, Waiting, Reading, InService, Engaged, Own, Here, Req,
    ServerStart, Server, Serve, history, clientVars
<1> QED
  BY Zenon, <1>1, <1>2, <1>3, <1>4, <1>5, <1>6 DEF RingInv

\* ClearSlot keeps RingInv: a slot loses its state byte but not its payload.
LEMMA ClearSlotStep == RingInv /\ ClearSlot => RingInv'
<1> SUFFICES ASSUME RingInv, ClearSlot PROVE RingInv'
  OBVIOUS
<1>s. /\ slot' \in [Slots -> SlotTypes]
      /\ slot'[read_idx].state = "EMPTY"
      /\ \A j \in Slots : j # read_idx => slot'[j].state = slot[j].state
      /\ \A j \in Slots : slot'[j].len = slot[j].len /\ slot'[j].payload = slot[j].payload
  <2>1. read_idx \in Slots /\ "EMPTY" \in States /\ slot \in [Slots -> SlotTypes]
    BY Zenon DEF RingInv, TypeOK, SlotTypes, States
  <2> QED
    BY Zenon, <2>1, PutState DEF ClearSlot
<1>e. /\ spc = "slots" /\ spc' \in {"slots", "scan"} /\ read_idx' = After(read_idx)
      /\ spc' = "scan" => After(read_idx) = 0
      /\ UNCHANGED <<write_idx, slen, frame, executed, disturbed, late, cpc, call, cslot, clen,
                     got, faults>>
  BY Zenon DEF ClearSlot, Server, history, clientVars, After
<1>1. TypeOK'
  BY Zenon, <1>s, <1>e, RingFacts DEF RingInv, TypeOK, SlotTypes, States
<1>2. ExecInv'
  BY Zenon, <1>s, <1>e DEF RingInv, ExecInv, Req
<1>3. TraceInv'
  BY Zenon, <1>s, <1>e, FrameFacts DEF RingInv, TraceInv
<1>4. LateInv'
  BY Zenon, <1>e DEF LateInv, Engaged
<1>5. IdxInv'
  <2>1. /\ cslot \in Slots /\ read_idx \in Slots
        /\ read_idx < cslot => After(read_idx) <= cslot /\ After(read_idx) # 0
        /\ ~(read_idx < cslot) /\ read_idx <= cslot => read_idx = cslot
    <3>1. cslot \in Slots /\ read_idx \in Slots
      BY Zenon DEF RingInv, TypeOK
    <3>2. /\ read_idx \in Nat /\ cslot \in Nat /\ cslot < RING_SLOTS
          /\ After(read_idx) = (IF read_idx = RING_SLOTS - 1 THEN 0 ELSE read_idx + 1)
      BY Zenon, <3>1, RingFacts
    <3> QED
      BY <3>1, <3>2, RingAssumption
  <2>2. ASSUME cpc \in {"reply", "readlen", "readpayload", "consume"}, write_idx # After(cslot)
        PROVE  (spc' = "slots" /\ read_idx' <= cslot) \/ slot'[cslot].state # "REQ_READY"
    BY Zenon, <1>s, <1>e, <2>1, <2>2 DEF RingInv, IdxInv, Own
  <2> QED
    BY Zenon, <1>e, <2>2 DEF IdxInv, Own, Here, Engaged
<1>6. OwnInv'
  BY Zenon, <1>s, <1>e DEF RingInv, TypeOK, OwnInv, Writing, Waiting, Reading, InService, Own,
    Here, Engaged, Req
<1> QED
  BY Zenon, <1>1, <1>2, <1>3, <1>4, <1>5, <1>6 DEF RingInv

\* SeeRequest keeps RingInv: the request the server sees is written out.
LEMMA SeeRequestStep == RingInv /\ SeeRequest => RingInv'
<1> SUFFICES ASSUME RingInv, SeeRequest PROVE RingInv'
  OBVIOUS
<1>1. TypeOK'
  BY Zenon DEF RingInv, TypeOK, SeeRequest, Server, Serve, history, clientVars
<1>2. ExecInv'
  BY Zenon DEF RingInv, ExecInv, Req, SeeRequest, Server, Serve, history, clientVars
<1>3. TraceInv'
  BY Zenon DEF RingInv, TraceInv, SeeRequest, Server, Serve, clientVars
<1>4. LateInv'
  BY Zenon DEF LateInv, SeeRequest
<1>5. IdxInv'
  BY Zenon DEF RingInv, IdxInv, Own, Here, SeeRequest, Server, Serve, clientVars
<1>6. OwnInv'
  BY Zenon DEF RingInv, OwnInv, Writing, Waiting, Reading, InService, Engaged, Own, Here, Req,
    SeeRequest, Server, Serve, history, clientVars
<1> QED
  BY Zenon, <1>1, <1>2, <1>3, <1>4, <1>5, <1>6 DEF RingInv

\* Claim keeps RingInv: the request is the server's from here on.
LEMMA ClaimStep == RingInv /\ Claim => RingInv'
<1> SUFFICES ASSUME RingInv, Claim PROVE RingInv'
  OBVIOUS
<1>s. /\ slot' \in [Slots -> SlotTypes]
      /\ slot'[read_idx].state = "PROCESSING"
      /\ \A j \in Slots : j # read_idx => slot'[j].state = slot[j].state
      /\ \A j \in Slots : slot'[j].len = slot[j].len /\ slot'[j].payload = slot[j].payload
  <2>1. read_idx \in Slots /\ "PROCESSING" \in States /\ slot \in [Slots -> SlotTypes]
    BY Zenon DEF RingInv, TypeOK, SlotTypes, States
  <2> QED
    BY Zenon, <2>1, PutState DEF Claim
<1>1. TypeOK'
  BY Zenon, <1>s DEF RingInv, TypeOK, SlotTypes, States, Claim, Server, Serve, history, clientVars
<1>2. ExecInv'
  <2>1. /\ \A i \in Slots : slot'[i].payload = slot[i].payload
        /\ spc = "claim" /\ spc' = "readlen"
        /\ executed' = executed /\ read_idx' = read_idx /\ cpc' = cpc /\ call' = call
    BY Zenon, <1>s DEF Claim, Serve, Server, history, clientVars
  <2> QED
    BY Zenon, <2>1 DEF RingInv, ExecInv, Req
<1>3. TraceInv'
  BY Zenon, <1>s DEF RingInv, TraceInv, Claim, Server, Serve, clientVars
<1>4. LateInv'
  BY Zenon, <1>s DEF LateInv, Claim
<1>5. IdxInv'
  BY Zenon, <1>s DEF RingInv, TypeOK, IdxInv, Engaged, Own, Here, Claim, Server, Serve, clientVars
<1>6. OwnInv'
  BY Zenon, <1>s DEF RingInv, TypeOK, OwnInv, Writing, Waiting, Reading, InService, Engaged, Own,
    Here, Req, Claim, Server, Serve, history, clientVars
<1> QED
  BY Zenon, <1>1, <1>2, <1>3, <1>4, <1>5, <1>6 DEF RingInv

\* ServerReadLen keeps RingInv: the length read is the request's.
LEMMA ServerReadLenStep == RingInv /\ ServerReadLen => RingInv'
<1> SUFFICES ASSUME RingInv, ServerReadLen PROVE RingInv'
  OBVIOUS
<1>1. TypeOK'
  BY Zenon DEF RingInv, TypeOK, ServerReadLen, Server, Serve, history, clientVars
<1>2. ExecInv'
  BY Zenon DEF RingInv, ExecInv, Req, ServerReadLen, Server, Serve, history, clientVars
<1>3. TraceInv'
  BY Zenon DEF RingInv, TypeOK, TraceInv, ServerReadLen, Server, Serve, clientVars
<1>4. LateInv'
  BY Zenon DEF RingInv, LateInv, Engaged, ServerReadLen, Server, Serve, history, clientVars
<1>5. IdxInv'
  BY Zenon DEF RingInv, IdxInv, Engaged, Own, Here, ServerReadLen, Server, Serve, clientVars
<1>6. OwnInv'
  BY Zenon DEF RingInv, OwnInv, Writing, Waiting, Reading, InService, Engaged, Own, Here, Req,
    ServerReadLen, Server, Serve, history, clientVars
<1> QED
  BY Zenon, <1>1, <1>2, <1>3, <1>4, <1>5, <1>6 DEF RingInv

\* ServerReadPayload keeps RingInv: a request in a slot was not executed before, and
\* the answer is to it.
LEMMA ServerReadPayloadStep == RingInv /\ ServerReadPayload => RingInv'
<1> SUFFICES ASSUME RingInv, ServerReadPayload PROVE RingInv'
  OBVIOUS
<1> DEFINE p == slot[read_idx].payload
<1>p. slen \in Frames /\ p \in Frames /\ read_idx \in Slots /\ call \in Calls
  BY Zenon DEF RingInv, TypeOK
<1>f. PICK f \in Parsed(slen, p) :
        /\ frame' \in Answers(f)
        /\ executed' = [c \in Calls |-> IF f = Frame("request", c) THEN executed[c] + 1
                                    ELSE executed[c]]
  BY Zenon DEF ServerReadPayload
<1>g. f = Invalid \/ f = p
  BY Zenon, <1>p, ParsedFrom
<1>a. \/ frame' = Refusal /\ \A c \in Calls : f # Frame("request", c)
      \/ \E c \in Calls : f = Frame("request", c) /\ p = f /\ frame' \in {Frame("answer", c), Cut}
  <2>1. f \in Frames \cup {Invalid}
    BY Zenon, <1>p, <1>g
  <2>2. \A c \in Calls : Frame("request", c) # Invalid
    BY Zenon, FrameFacts
  <2> QED
    BY Zenon, <1>f, <1>g, <2>1, <2>2, AnswerFacts
<1>e. /\ spc = "readpayload" /\ spc' = "len" /\ slen' = Zeros
      /\ UNCHANGED <<write_idx, slot, read_idx, disturbed, late, cpc, call, cslot, clen,
                     got, faults>>
  BY Zenon DEF ServerReadPayload, Serve, Server, clientVars
<1>x. /\ executed' \in [Calls -> Nat]
      /\ \A c \in Calls : executed'[c] = IF f = Frame("request", c) THEN executed[c] + 1
                                         ELSE executed[c]
  BY <1>f DEF RingInv, TypeOK
<1>1. TypeOK'
  <2>1. frame' \in Frames
    BY Zenon, <1>a, FrameFacts
  <2> QED
    BY Zenon, <1>e, <1>x, <2>1, FrameFacts DEF RingInv, TypeOK
<1>2. ExecInv'
  <2>1. \A c \in Calls : f = Frame("request", c) => executed[c] = 0 /\ p = f
    BY Zenon, <1>p, <1>e, <1>g, FrameFacts DEF RingInv, ExecInv
  <2>2. \A c \in Calls : executed'[c] <= 1
    BY <1>x, <2>1 DEF RingInv, ExecInv
  <2>3. ASSUME NEW i \in Slots, NEW c \in Calls, slot'[i].payload = Frame("request", c)
        PROVE  executed'[c] = 0 \/ (spc' \in {"len", "payload"} /\ read_idx' = i)
    <3>1. executed[c] = 0 /\ slot[i].payload = Frame("request", c)
      BY Zenon, <1>e, <2>3 DEF RingInv, ExecInv
    <3>2. CASE f = Frame("request", c)
      <4>1. c[1] = i /\ c[1] = read_idx
        BY Zenon, <1>p, <2>1, <3>1, <3>2 DEF RingInv, TraceInv, Of
      <4> QED
        BY Zenon, <1>e, <4>1
    <3> QED
      BY Zenon, <1>x, <3>1, <3>2
  <2>4. cpc \in {"free", "payload"} => f # Frame("request", call)
    BY Zenon, <1>p, <2>1 DEF RingInv, ExecInv, Req
  <2> QED
    BY Zenon, <1>p, <1>e, <1>x, <2>2, <2>3, <2>4 DEF RingInv, ExecInv, Req
<1>3. TraceInv'
  <2>1. \A c \in Calls : frame' \in Of(c) => frame' = Frame("answer", c) /\ c[1] = read_idx
    BY Zenon, <1>a, <1>p, FrameFacts DEF RingInv, TraceInv, Of
  <2> QED
    BY Zenon, <1>e, <2>1 DEF RingInv, TraceInv, Of
<1>4. LateInv'
  BY Zenon DEF RingInv, LateInv, Engaged, ServerReadPayload, Server, Serve, clientVars
<1>5. IdxInv'
  BY Zenon DEF RingInv, IdxInv, Engaged, Own, Here, ServerReadPayload, Server, Serve, clientVars
<1>6. OwnInv'
  <2>1. slen = Req /\ p = Req => frame' \in {Ans, Cut}
    <3> SUFFICES ASSUME slen = Req, p = Req
                 PROVE  frame' \in {Ans, Cut}
      OBVIOUS
    <3>1. Req \notin {Zeros, Cut}
      BY Zenon, <1>p, FrameFacts DEF Req
    <3>2. f = Req
      BY Zenon, <1>p, <3>1, ParsedWhole
    <3> QED
      BY Zenon, <1>p, <1>a, <3>2, FrameFacts DEF Req, Ans
  <2>2. RingInv /\ Here => read_idx = cslot /\ Own = slot[read_idx]
    BY Zenon DEF Here, Own
  <2> QED
    BY Zenon, <1>e, <2>1 DEF RingInv, OwnInv, Writing, Waiting, Reading, InService, Own, Here,
      Engaged, Req, Ans
<1> QED
  BY Zenon, <1>1, <1>2, <1>3, <1>4, <1>5, <1>6 DEF RingInv

\* ServerReadFails keeps RingInv: the slot becomes ERROR, which no call takes for an answer.
LEMMA ServerReadFailsStep == RingInv /\ ServerReadFails => RingInv'
<1> SUFFICES ASSUME RingInv, ServerReadFails PROVE RingInv'
  OBVIOUS
<1>s. /\ slot' \in [Slots -> SlotTypes]
      /\ slot'[read_idx].state = "ERROR"
      /\ \A j \in Slots : j # read_idx => slot'[j].state = slot[j].state
      /\ \A j \in Slots : slot'[j].len = slot[j].len /\ slot'[j].payload = slot[j].payload
  <2>1. read_idx \in Slots /\ "ERROR" \in States /\ slot \in [Slots -> SlotTypes]
    BY Zenon DEF RingInv, TypeOK, SlotTypes, States
  <2> QED
    BY Zenon, <2>1, PutState DEF ServerReadFails
<1>e. /\ spc \in {"readlen", "readpayload"} /\ spc' = "scan" /\ read_idx' = After(read_idx)
      /\ slen' = Zeros /\ late' = 0 /\ faults < MaxFaults /\ faults' = faults + 1
      /\ UNCHANGED <<write_idx, frame, executed, disturbed, cpc, call, cslot, clen, got>>
  BY Zenon DEF ServerReadFails, Fault, clientVars, After
<1>1. TypeOK'
  <2>1. faults' \in 0 .. MaxFaults /\ read_idx' \in Slots
    BY Zenon, <1>e, FaultCounted, RingFacts DEF RingInv, TypeOK, ServerReadFails
  <2>2. late' \in 0 .. RING_SLOTS
    BY <1>e, RingAssumption
  <2> QED
    BY Zenon, <1>s, <1>e, <2>1, <2>2, FrameFacts DEF RingInv, TypeOK, SlotTypes, States
<1>2. ExecInv'
  BY Zenon, <1>s, <1>e DEF RingInv, ExecInv, Req
<1>3. TraceInv'
  BY Zenon, <1>s, <1>e, FrameFacts DEF RingInv, TraceInv
<1>4. LateInv'
  BY Zenon, <1>e DEF LateInv, Engaged
<1>5. IdxInv'
  BY Zenon, <1>s, <1>e DEF RingInv, TypeOK, IdxInv, Own, Here, Engaged
<1>6. OwnInv'
  BY Zenon, <1>s DEF RingInv, TypeOK, OwnInv, Writing, Waiting, Reading, InService, Engaged, Own,
    Here, Req, ServerReadFails, clientVars
<1> QED
  BY Zenon, <1>1, <1>2, <1>3, <1>4, <1>5, <1>6 DEF RingInv

\* ServerWriteLen keeps RingInv: the slot's request is still the one executed.
LEMMA ServerWriteLenStep == RingInv /\ ServerWriteLen => RingInv'
<1> SUFFICES ASSUME RingInv, ServerWriteLen PROVE RingInv'
  OBVIOUS
<1>s. /\ slot' \in [Slots -> SlotTypes]
      /\ slot'[read_idx].len = frame
      /\ \A j \in Slots : j # read_idx => slot'[j].len = slot[j].len
      /\ \A j \in Slots : slot'[j].state = slot[j].state /\ slot'[j].payload = slot[j].payload
  <2>1. read_idx \in Slots /\ frame \in Frames /\ slot \in [Slots -> SlotTypes]
    BY Zenon DEF RingInv, TypeOK, SlotTypes, States
  <2> QED
    BY Zenon, <2>1, PutLen DEF ServerWriteLen
<1>1. TypeOK'
  BY Zenon, <1>s DEF RingInv, TypeOK, SlotTypes, States, ServerWriteLen, Server, Serve, history,
    clientVars
<1>2. ExecInv'
  <2>1. /\ \A i \in Slots : slot'[i].payload = slot[i].payload
        /\ spc = "len" /\ spc' = "payload"
        /\ executed' = executed /\ read_idx' = read_idx /\ cpc' = cpc /\ call' = call
    BY Zenon, <1>s DEF ServerWriteLen, Serve, Server, history, clientVars
  <2> QED
    BY Zenon, <2>1 DEF RingInv, ExecInv, Req
<1>3. TraceInv'
  BY Zenon, <1>s DEF RingInv, TraceInv, ServerWriteLen, Server, Serve, clientVars
<1>4. LateInv'
  BY Zenon, <1>s DEF RingInv, TypeOK, LateInv, Engaged, ServerWriteLen, Server, Serve, history,
    clientVars
<1>5. IdxInv'
  BY Zenon, <1>s DEF RingInv, TypeOK, IdxInv, Engaged, Own, Here, ServerWriteLen, Server, Serve,
    clientVars
<1>6. OwnInv'
  BY Zenon, <1>s DEF RingInv, TypeOK, OwnInv, Writing, Waiting, Reading, InService, Engaged, Own,
    Here, Req, Ans, ServerWriteLen, Server, Serve, history, clientVars
<1> QED
  BY Zenon, <1>1, <1>2, <1>3, <1>4, <1>5, <1>6 DEF RingInv

\* ServerWritePayload keeps RingInv: the executed request is gone from the file.
LEMMA ServerWritePayloadStep == RingInv /\ ServerWritePayload => RingInv'
<1> SUFFICES ASSUME RingInv, ServerWritePayload PROVE RingInv'
  OBVIOUS
<1>s. /\ slot' \in [Slots -> SlotTypes]
      /\ slot'[read_idx].payload = frame
      /\ \A j \in Slots : j # read_idx => slot'[j].payload = slot[j].payload
      /\ \A j \in Slots : slot'[j].state = slot[j].state /\ slot'[j].len = slot[j].len
  <2>1. read_idx \in Slots /\ frame \in Frames /\ slot \in [Slots -> SlotTypes]
    BY Zenon DEF RingInv, TypeOK, SlotTypes, States
  <2> QED
    BY Zenon, <2>1, PutPayload DEF ServerWritePayload
<1>1. TypeOK'
  BY Zenon, <1>s, FrameFacts DEF RingInv, TypeOK, SlotTypes, States, ServerWritePayload, Server,
    Serve, history, clientVars
<1>2. ExecInv'
  <2>1. /\ spc = "payload" /\ spc' = "ready"
        /\ executed' = executed /\ read_idx' = read_idx /\ cpc' = cpc /\ call' = call
    BY Zenon DEF ServerWritePayload, Serve, Server, history, clientVars
  <2>2. \A c \in Calls : frame # Frame("request", c)
    BY Zenon, FrameFacts DEF RingInv, TraceInv, Of
  <2>3. read_idx \in Slots /\ call \in Calls
    BY Zenon DEF RingInv, TypeOK
  <2>4. \A i \in Slots, c \in Calls : slot'[i].payload = Frame("request", c) =>
          i # read_idx /\ slot[i].payload = Frame("request", c)
    BY Zenon, <1>s, <2>2
  <2> QED
    BY Zenon, <2>1, <2>3, <2>4 DEF RingInv, ExecInv, Req
<1>3. TraceInv'
  BY Zenon, <1>s, FrameFacts DEF RingInv, TraceInv, Of, ServerWritePayload, Server, Serve,
    clientVars
<1>4. LateInv'
  BY Zenon, <1>s DEF RingInv, TypeOK, LateInv, Engaged, ServerWritePayload, Server, Serve, history,
    clientVars
<1>5. IdxInv'
  BY Zenon, <1>s DEF RingInv, TypeOK, IdxInv, Engaged, Own, Here, ServerWritePayload, Server,
    Serve, clientVars
<1>6. OwnInv'
  BY Zenon, <1>s DEF RingInv, TypeOK, OwnInv, Writing, Waiting, Reading, InService, Engaged, Own,
    Here, Req, Ans, ServerWritePayload, Server, Serve, history, clientVars
<1> QED
  BY Zenon, <1>1, <1>2, <1>3, <1>4, <1>5, <1>6 DEF RingInv

\* ServerWriteReady keeps RingInv: the slot holds the answer and the server waits.
LEMMA ServerWriteReadyStep == RingInv /\ ServerWriteReady => RingInv'
<1> SUFFICES ASSUME RingInv, ServerWriteReady PROVE RingInv'
  OBVIOUS
<1>s. /\ slot' \in [Slots -> SlotTypes]
      /\ slot'[read_idx].state = "RES_READY"
      /\ \A j \in Slots : j # read_idx => slot'[j].state = slot[j].state
      /\ \A j \in Slots : slot'[j].len = slot[j].len /\ slot'[j].payload = slot[j].payload
  <2>1. read_idx \in Slots /\ "RES_READY" \in States /\ slot \in [Slots -> SlotTypes]
    BY Zenon DEF RingInv, TypeOK, SlotTypes, States
  <2> QED
    BY Zenon, <2>1, PutState DEF ServerWriteReady
<1>1. TypeOK'
  BY Zenon, <1>s DEF RingInv, TypeOK, SlotTypes, States, ServerWriteReady, Server, Serve, history,
    clientVars
<1>2. ExecInv'
  <2>1. /\ \A i \in Slots : slot'[i].payload = slot[i].payload
        /\ spc = "ready" /\ spc' = "consumed"
        /\ executed' = executed /\ read_idx' = read_idx /\ cpc' = cpc /\ call' = call
    BY Zenon, <1>s DEF ServerWriteReady, Serve, Server, history, clientVars
  <2> QED
    BY Zenon, <2>1 DEF RingInv, ExecInv, Req
<1>3. TraceInv'
  BY Zenon, <1>s DEF RingInv, TraceInv, ServerWriteReady, Server, Serve, clientVars
<1>4. LateInv'
  BY Zenon, <1>s DEF LateInv, ServerWriteReady
<1>5. IdxInv'
  BY Zenon, <1>s DEF RingInv, TypeOK, IdxInv, Engaged, Own, Here, ServerWriteReady, Server, Serve,
    clientVars
<1>6. OwnInv'
  BY Zenon, <1>s DEF RingInv, TypeOK, OwnInv, Writing, Waiting, Reading, InService, Engaged, Own,
    Here, Req, Ans, ServerWriteReady, Server, Serve, history, clientVars
<1> QED
  BY Zenon, <1>1, <1>2, <1>3, <1>4, <1>5, <1>6 DEF RingInv

\* SeeConsumed keeps RingInv: the server moves on to a slot it has not touched.
LEMMA SeeConsumedStep == RingInv /\ SeeConsumed => RingInv'
<1> SUFFICES ASSUME RingInv, SeeConsumed PROVE RingInv'
  OBVIOUS
<1>e. /\ spc = "consumed" /\ spc' = "scan" /\ read_idx' = After(read_idx)
      /\ slot[read_idx].state = "EMPTY" /\ late' = 0
      /\ UNCHANGED <<write_idx, slot, slen, frame, executed, disturbed, cpc, call, cslot, clen,
                     got, faults>>
  BY Zenon DEF SeeConsumed, Serve, Server, clientVars, After
<1>1. TypeOK'
  BY <1>e, RingFacts DEF RingInv, TypeOK
<1>2. ExecInv'
  BY Zenon, <1>e DEF RingInv, ExecInv, Req
<1>3. TraceInv'
  BY Zenon, <1>e, FrameFacts DEF RingInv, TraceInv, Of
<1>4. LateInv'
  BY Zenon, <1>e DEF LateInv, Engaged
<1>5. IdxInv'
  BY Zenon, <1>e DEF RingInv, IdxInv, Own, Here, Engaged
<1>6. OwnInv'
  BY Zenon DEF RingInv, OwnInv, Writing, Waiting, Reading, InService, Engaged, Own, Here, Req,
    SeeConsumed, Server, Serve, clientVars
<1> QED
  BY Zenon, <1>1, <1>2, <1>3, <1>4, <1>5, <1>6 DEF RingInv

\* ServerStop keeps RingInv: the present call is disturbed, and a new run has executed nothing.
LEMMA ServerStopStep == RingInv /\ ServerStop => RingInv'
<1> SUFFICES ASSUME RingInv, ServerStop PROVE RingInv'
  OBVIOUS
<1>1. TypeOK'
  <2>1. executed' \in [Calls -> Nat]
    BY Zenon DEF ServerStop
  <2>2. faults' \in 0 .. MaxFaults
    BY Zenon, FaultCounted DEF RingInv, ServerStop
  <2>3. late' \in 0 .. RING_SLOTS /\ read_idx' \in Slots
    BY RingAssumption DEF ServerStop, Slots
  <2> QED
    BY Zenon, <2>2, <2>3, FrameFacts DEF RingInv, TypeOK, ServerStop, clientVars
<1>2. ExecInv'
  BY DEF RingInv, TypeOK, ExecInv, Req, ServerStop, clientVars
<1>3. TraceInv'
  BY Zenon, FrameFacts DEF RingInv, TraceInv, Of, ServerStop, clientVars
<1>4. LateInv'
  BY Zenon DEF LateInv, Engaged, ServerStop
<1>5. IdxInv'
  BY Zenon DEF IdxInv, ServerStop
<1>6. OwnInv'
  BY Zenon DEF OwnInv, Writing, Waiting, Reading, ServerStop, clientVars
<1> QED
  BY Zenon, <1>1, <1>2, <1>3, <1>4, <1>5, <1>6 DEF RingInv

\* The invariant does not depend on anything else.
LEMMA StutterStep == RingInv /\ UNCHANGED vars => RingInv'
<1> SUFFICES ASSUME RingInv, UNCHANGED vars PROVE RingInv'
  OBVIOUS
<1>e. UNCHANGED <<write_idx, slot, cpc, call, cslot, clen, got, spc, read_idx, slen, frame,
                  executed, disturbed, late, faults>>
  BY Zenon DEF vars, clientVars, serverVars, history
<1>1. TypeOK'
  BY Zenon, <1>e DEF RingInv, TypeOK
<1>2. ExecInv'
  BY Zenon, <1>e DEF RingInv, ExecInv, Req
<1>3. TraceInv'
  BY Zenon, <1>e DEF RingInv, TraceInv
<1>4. LateInv'
  BY Zenon, <1>e DEF RingInv, LateInv, Engaged
<1>5. IdxInv'
  BY Zenon, <1>e DEF RingInv, IdxInv, Own, Here, Engaged
<1>6. OwnInv'
  BY <1>e DEF RingInv, OwnInv, Writing, Waiting, Reading, InService, Own, Here, Engaged, Req, Ans,
    Answered
<1> QED
  BY Zenon, <1>1, <1>2, <1>3, <1>4, <1>5, <1>6 DEF RingInv

\* A new file with no server on it has the invariant.
LEMMA InitInv == Init => RingInv
<1> SUFFICES ASSUME Init PROVE RingInv
  OBVIOUS
<1>1. TypeOK
  <2>1. slot \in [Slots -> SlotTypes] /\ executed \in [Calls -> Nat]
    BY Zenon, FrameFacts DEF Init, SlotTypes, States
  <2>2. 0 \in Slots /\ late \in 0 .. RING_SLOTS /\ faults \in 0 .. MaxFaults
    BY RingAssumption DEF Init, Slots
  <2> QED
    BY Zenon, <2>2, FrameFacts, NoCallFact DEF Init, TypeOK
<1>2. ExecInv
  <2>1. \A i \in Slots : slot[i].payload = Zeros
    BY Zenon DEF Init
  <2>2. \A c \in Calls : executed[c] = 0
    BY Zenon DEF Init
  <2>3. cpc = "idle"
    BY Zenon DEF Init
  <2> QED
    BY <2>2, <2>3 DEF ExecInv
<1>3. TraceInv
  <2>1. \A i \in Slots : slot[i].payload = Zeros /\ slot[i].len = Zeros
    BY Zenon DEF Init
  <2>2. \A c \in Calls : Zeros \notin Of(c)
    BY Zenon, FrameFacts DEF Of
  <2> QED
    BY Zenon, <2>2 DEF Init, TraceInv
<1>4. LateInv
  BY Zenon DEF Init, LateInv, Engaged
<1>5. IdxInv
  BY Zenon DEF Init, IdxInv
<1>6. OwnInv
  BY Zenon DEF Init, OwnInv, Writing, Waiting, Reading
<1> QED
  BY Zenon, <1>1, <1>2, <1>3, <1>4, <1>5, <1>6 DEF RingInv

-----------------------------------------------------------------------------
\* The inductive invariant of NmcpShmemClient::call and NmcpShmemServer::run on
\* one file, for every number of slots: it holds of a new file and every access
\* of either side, every fault and every restart keeps it.
THEOREM RingInvariant == Spec => []RingInv
<1>1. Init => RingInv
  BY InitInv
<1>2. RingInv /\ [Next]_vars => RingInv'
  BY Zenon, StutterStep, BeginCallStep, SlotIsFreeStep, SlotWaitEndsStep, WritePayloadStep,
    WriteLenStep, WriteReadyStep, AdvanceWriteIdxStep, ReplyIsReadyStep, ReplyIsErrorStep,
    ReplyWaitEndsStep, ReadLenStep, ReadPayloadStep, ConsumeStep, CallFailsStep, ServerStartStep,
    ClearSlotStep, SeeRequestStep, ClaimStep, ServerReadLenStep, ServerReadPayloadStep,
    ServerReadFailsStep, ServerWriteLenStep, ServerWritePayloadStep, ServerWriteReadyStep,
    SeeConsumedStep, ServerStopStep DEF Next, ClientStep, ServerStep
<1> QED
  BY <1>1, <1>2, PTL DEF Spec

\* Every variable of the ring has its type.
THEOREM TypeCorrect == Spec => []TypeOK
<1>1. RingInv => TypeOK
  BY DEF RingInv
<1> QED
  BY <1>1, RingInvariant, PTL

\* A run of NmcpShmemServer::run executes no request twice, for every number of
\* slots and of faults: a call writes its request once, and the server writes
\* its answer over what it has executed before it looks at the slot again.
THEOREM ExecutedAtMostOnce == Spec => []AtMostOnce
<1>1. RingInv => AtMostOnce
  BY Zenon DEF RingInv, ExecInv, AtMostOnce
<1> QED
  BY <1>1, RingInvariant, PTL

\* A call of NmcpShmemClient::call whose waits did not run out returns the answer
\* to its own request, for every number of slots and of faults, unless the server
\* was on one request while the calls went once round the ring.
THEOREM OwnAnswers == Spec => []AnswerIsOwn
<1>1. RingInv => AnswerIsOwn
  <2>1. RingInv => late \in Int /\ RING_SLOTS \in Int
    BY RingAssumption DEF RingInv, TypeOK
  <2>2. RingInv /\ late < RING_SLOTS => ~(late >= RING_SLOTS)
    BY <2>1
  <2> QED
    BY Zenon, <2>2 DEF RingInv, OwnInv, Reading, AnswerIsOwn
<1> QED
  BY <1>1, RingInvariant, PTL

=============================================================================
