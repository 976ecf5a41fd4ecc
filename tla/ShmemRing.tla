------------------------------ MODULE ShmemRing ------------------------------
(***************************************************************************)
(* The file-backed ring between a server and a co-located worker           *)
(* (src/velocity-nmcp-protocol/src/shmem.rs).  A call writes its request   *)
(* into the slot that the header's write_idx names, waits for the answer   *)
(* in the same slot and frees the slot.  The server goes round the slots   *)
(* with an index of its own.  Both waits of a call are bounded (100000     *)
(* polls) and a call whose wait runs out carries on as if it had not; the  *)
(* server's waits are not bounded.                                         *)
(*                                                                         *)
(* One step is one access of the file: the two sides share nothing else.   *)
(* There is one call at a time, as in the documented SPSC use.  A frame's  *)
(* bytes are abstracted to what wrote them; so is a length field.  The     *)
(* sequence number of a slot is left out: nothing compares it.             *)
(***************************************************************************)
EXTENDS Integers, FiniteSets

CONSTANTS RING_SLOTS,   \* number of slots (64 in the code)
          MaxFaults,    \* bound on stops, failed accesses and abandoned calls
          Names         \* names of the calls at one slot, reused once no
                        \* trace of them is left

ASSUME RingAssumption == RING_SLOTS \in Nat \ {0} /\ MaxFaults \in Nat

\* A new call finds a name: traces of calls at one slot are in the slot's two
\* fields and in one local of the server at most.
ASSUME NamesAssumption ==
  Names # {} /\ \A x, y, z \in Names : \E n \in Names : n \notin {x, y, z}

Slots == 0 .. RING_SLOTS - 1

Calls == Slots \X Names   \* a call, by the slot it uses

NoCall == <<0, CHOOSE n \in Names : TRUE>>

VARIABLES
  write_idx,   \* header: the slot of the next call
  slot,        \* the slots: state byte, length, payload
  cpc,         \* the call: the file access it performs next
  call,        \* the call: its name
  cslot,       \* the call: the slot it read from write_idx
  clen,        \* the call: the length it read
  got,         \* the call: the frame it read back
  spc,         \* the server: the file access it performs next
  read_idx,    \* the server: the slot it serves
  slen,        \* the server: the length it read
  frame,       \* the server: the answer it is about to write
  executed,    \* history: how often this run of the server executed a call
  disturbed,   \* history: a wait of the present call ran out, or the server
               \* stopped during the call
  late,        \* history: calls that moved write_idx on while the server was
               \* on one and the same request, counted up to RING_SLOTS
  faults       \* faults so far

clientVars == <<cpc, call, cslot, clen, got>>
serverVars == <<spc, read_idx, slen, frame>>
history == <<executed, disturbed, late>>
vars == <<write_idx, slot, clientVars, serverVars, history, faults>>

-----------------------------------------------------------------------------
(* Frames: the request of a call and its answer, and what belongs to no    *)
(* call.  Zeros is what a new file holds, Refusal the error answer to      *)
(* bytes that are no request, Cut an answer longer than a slot, of which   *)
(* the slot has the first MAX_RES_PAYLOAD bytes.                           *)
Frame(kind, c) == [kind |-> kind, call |-> c]

Zeros == [kind |-> "zeros"]

Refusal == [kind |-> "refusal"]

Cut == [kind |-> "cut"]

Invalid == [kind |-> "invalid"]

Frames == {Zeros, Refusal, Cut} \cup [kind : {"request", "answer"}, call : Calls]

(* NmcpFrame::from_bytes on a payload read with a length that may be       *)
(* another frame's: one too short for what the payload's header says makes *)
(* it invalid, a longer one does not.                                      *)
Parsed(len, payload) ==
  IF payload \in {Zeros, Cut} \/ len = Zeros THEN {Invalid}
  ELSE IF len = payload THEN {payload}
  ELSE {payload, Invalid}

(* What the router answers, and whether the answer fits a slot.            *)
Answers(f) ==
  IF f.kind = "request" THEN {Frame("answer", f.call), Cut}
  ELSE {Refusal}

(* The calls some byte of the file or of the server's memory stems from.   *)
Traces ==
  {c \in Calls : \E f \in {frame, slen, clen} \cup {slot[i].len : i \in Slots}
                          \cup {slot[i].payload : i \in Slots} :
                   f \in {Frame("request", c), Frame("answer", c)}}

\* Type correctness.
TypeOK ==
  /\ write_idx \in Slots
  /\ slot \in [Slots -> [state : {"EMPTY", "REQ_READY", "PROCESSING", "RES_READY", "ERROR"},
                         len : Frames, payload : Frames]]
  /\ cpc \in {"idle", "free", "payload", "len", "ready", "index",
              "reply", "readlen", "readpayload", "consume"}
  /\ call \in Calls /\ cslot \in Slots /\ clen \in Frames
  /\ got \in Frames \cup {Invalid}
  /\ spc \in {"down", "slots", "scan", "claim", "readlen", "readpayload",
              "len", "payload", "ready", "consumed"}
  /\ read_idx \in Slots /\ slen \in Frames /\ frame \in Frames
  /\ executed \in [Calls -> Nat] /\ disturbed \in BOOLEAN /\ late \in 0 .. RING_SLOTS
  /\ faults \in 0 .. MaxFaults

-----------------------------------------------------------------------------
(* A new file is all zeros, and the zero state byte is EMPTY.              *)
Init ==
  /\ write_idx = 0
  /\ slot = [i \in Slots |-> [state |-> "EMPTY", len |-> Zeros, payload |-> Zeros]]
  /\ cpc = "idle" /\ cslot = 0 /\ clen = Zeros /\ got = Zeros
  /\ call = NoCall
  /\ spc = "down" /\ read_idx = 0 /\ slen = Zeros /\ frame = Zeros
  /\ executed = [c \in Calls |-> 0] /\ disturbed = FALSE /\ late = 0 /\ faults = 0

-----------------------------------------------------------------------------
(* NmcpShmemClient::call.                                                  *)

Put(i, field, value) == slot' = [slot EXCEPT ![i][field] = value]

Goto(from, to) == cpc = from /\ cpc' = to

(* The call returns; its locals are gone.                                  *)
Return ==
  /\ cpc' = "idle" /\ call' = NoCall /\ cslot' = 0 /\ clen' = Zeros /\ got' = Zeros
  /\ disturbed' = FALSE /\ UNCHANGED <<executed, late>>

Client == UNCHANGED <<serverVars, faults>>

(* From the sight of a request until the server moves on.                  *)
Engaged == spc \notin {"down", "slots", "scan"}

Fault == faults < MaxFaults /\ faults' = faults + 1

(* The call takes a name no trace is left of, and reads write_idx.         *)
BeginCall ==
  /\ Goto("idle", "free")
  /\ cslot' = write_idx
  /\ call' = (CHOOSE c \in Calls \ Traces : c[1] = write_idx)
  /\ executed' = [c \in Calls |-> IF c \in Traces THEN executed[c] ELSE 0]
  /\ UNCHANGED <<write_idx, slot, clen, got, disturbed, late>> /\ Client

SlotIsFree ==
  /\ Goto("free", "payload")
  /\ slot[cslot].state = "EMPTY"
  /\ UNCHANGED <<write_idx, slot, call, cslot, clen, got, history>> /\ Client

(* The wait for a free slot runs out: the call writes its request anyway.  *)
SlotWaitEnds ==
  /\ Goto("free", "payload")
  /\ slot[cslot].state # "EMPTY"
  /\ disturbed' = TRUE
  /\ UNCHANGED <<write_idx, slot, call, cslot, clen, got, executed, late>> /\ Client

WritePayload ==
  /\ Goto("payload", "len")
  /\ Put(cslot, "payload", Frame("request", call))
  /\ UNCHANGED <<write_idx, call, cslot, clen, got, history>> /\ Client

WriteLen ==
  /\ Goto("len", "ready")
  /\ Put(cslot, "len", Frame("request", call))
  /\ UNCHANGED <<write_idx, call, cslot, clen, got, history>> /\ Client

WriteReady ==
  /\ Goto("ready", "index")
  /\ Put(cslot, "state", "REQ_READY")
  /\ UNCHANGED <<write_idx, call, cslot, clen, got, history>> /\ Client

AdvanceWriteIdx ==
  /\ Goto("index", "reply")
  /\ write_idx' = (cslot + 1) % RING_SLOTS
  /\ late' = IF Engaged /\ late < RING_SLOTS THEN late + 1 ELSE late
  /\ UNCHANGED <<slot, call, cslot, clen, got, executed, disturbed>> /\ Client

\* Mutant: a slot under work counts as answered (>= SLOT_PROCESSING).
ReplyIsReadyEarly ==
  /\ Goto("reply", "readlen")
  /\ slot[cslot].state \in {"PROCESSING", "RES_READY"}
  /\ UNCHANGED <<write_idx, slot, call, cslot, clen, got, history>> /\ Client

ReplyIsReady ==
  /\ Goto("reply", "readlen")
  /\ slot[cslot].state = "RES_READY"
  /\ UNCHANGED <<write_idx, slot, call, cslot, clen, got, history>> /\ Client

(* The call returns "server error" and leaves the slot as it is.           *)
ReplyIsError ==
  /\ cpc = "reply" /\ Return
  /\ slot[cslot].state = "ERROR"
  /\ UNCHANGED <<write_idx, slot>> /\ Client

\* Mutant: the call returns an error and leaves the slot to the server.
ReplyWaitFails ==
  /\ cpc = "reply" /\ Return
  /\ slot[cslot].state \notin {"RES_READY", "ERROR"}
  /\ UNCHANGED <<write_idx, slot>> /\ Client

(* The wait for the answer runs out: the call reads the slot anyway.       *)
ReplyWaitEnds ==
  /\ Goto("reply", "readlen")
  /\ slot[cslot].state \notin {"RES_READY", "ERROR"}
  /\ disturbed' = TRUE
  /\ UNCHANGED <<write_idx, slot, call, cslot, clen, got, executed, late>> /\ Client

ReadLen ==
  /\ Goto("readlen", "readpayload")
  /\ clen' = slot[cslot].len
  /\ UNCHANGED <<write_idx, slot, call, cslot, got, history>> /\ Client

ReadPayload ==
  /\ Goto("readpayload", "consume")
  /\ got' \in Parsed(clen, slot[cslot].payload)
  /\ clen' = Zeros
  /\ UNCHANGED <<write_idx, slot, call, cslot, history>> /\ Client

\* Mutant: a call that read no answer tries again at the next slot.
ConsumeOrRetry ==
  /\ cpc = "consume"
  /\ Put(cslot, "state", "EMPTY")
  /\ \/ got = Frame("answer", call) /\ Return
     \/ /\ got # Frame("answer", call)
        /\ cpc' = "free" /\ cslot' = write_idx /\ got' = Zeros
        /\ UNCHANGED <<call, clen, history>>
  /\ UNCHANGED write_idx /\ Client

(* The call frees the slot and returns what it read.                       *)
Consume ==
  /\ cpc = "consume" /\ Return
  /\ Put(cslot, "state", "EMPTY")
  /\ UNCHANGED write_idx /\ Client

(* A file access fails and the call returns its error, or the worker dies. *)
CallFails ==
  /\ cpc # "idle" /\ Return
  /\ Fault
  /\ UNCHANGED <<write_idx, slot, serverVars>>

ClientStep ==
  \/ SlotIsFree \/ SlotWaitEnds
  \/ WritePayload \/ WriteLen \/ WriteReady \/ AdvanceWriteIdx
  \/ ReplyIsReady \/ ReplyIsError \/ ReplyWaitEnds
  \/ ReadLen \/ ReadPayload \/ Consume

-----------------------------------------------------------------------------
(* NmcpShmemServer::run.                                                   *)

Serve(from, to) == spc = from /\ spc' = to

Server == UNCHANGED <<clientVars, faults>>

(* A start, also after a crash, sets write_idx back to 0 ...               *)
ServerStart ==
  /\ Serve("down", "slots")
  /\ write_idx' = 0
  /\ UNCHANGED <<slot, read_idx, slen, frame, history>> /\ Server

(* ... and marks one slot after the other EMPTY.                           *)
ClearSlot ==
  /\ spc = "slots"
  /\ Put(read_idx, "state", "EMPTY")
  /\ read_idx' = (read_idx + 1) % RING_SLOTS
  /\ spc' = IF read_idx' = 0 THEN "scan" ELSE "slots"
  /\ UNCHANGED <<write_idx, slen, frame, history>> /\ Server

SeeRequest ==
  /\ Serve("scan", "claim")
  /\ slot[read_idx].state = "REQ_READY"
  /\ UNCHANGED <<write_idx, slot, read_idx, slen, frame, history>> /\ Server

Claim ==
  /\ Serve("claim", "readlen")
  /\ Put(read_idx, "state", "PROCESSING")
  /\ UNCHANGED <<write_idx, read_idx, slen, frame, history>> /\ Server

ServerReadLen ==
  /\ Serve("readlen", "readpayload")
  /\ slen' = slot[read_idx].len
  /\ UNCHANGED <<write_idx, slot, read_idx, frame, history>> /\ Server

(* The server parses the request, has the router execute it and keeps the  *)
(* answer.                                                                 *)
ServerReadPayload ==
  /\ Serve("readpayload", "len")
  /\ \E f \in Parsed(slen, slot[read_idx].payload) :
       /\ frame' \in Answers(f)
       /\ executed' = [c \in Calls |-> IF f = Frame("request", c) THEN executed[c] + 1
                                    ELSE executed[c]]
  /\ slen' = Zeros
  /\ UNCHANGED <<write_idx, slot, read_idx, disturbed, late>> /\ Server

(* A read fails: the slot becomes ERROR and the server moves on.           *)
ServerReadFails ==
  /\ spc \in {"readlen", "readpayload"} /\ spc' = "scan"
  /\ Put(read_idx, "state", "ERROR")
  /\ read_idx' = (read_idx + 1) % RING_SLOTS
  /\ slen' = Zeros
  /\ late' = 0
  /\ Fault
  /\ UNCHANGED <<write_idx, frame, executed, disturbed, clientVars>>

ServerWriteLen ==
  /\ Serve("len", "payload")
  /\ Put(read_idx, "len", frame)
  /\ UNCHANGED <<write_idx, read_idx, slen, frame, history>> /\ Server

ServerWritePayload ==
  /\ Serve("payload", "ready")
  /\ Put(read_idx, "payload", frame)
  /\ frame' = Zeros
  /\ UNCHANGED <<write_idx, read_idx, slen, history>> /\ Server

ServerWriteReady ==
  /\ Serve("ready", "consumed")
  /\ Put(read_idx, "state", "RES_READY")
  /\ UNCHANGED <<write_idx, read_idx, slen, frame, history>> /\ Server

SeeConsumed ==
  /\ Serve("consumed", "scan")
  /\ slot[read_idx].state = "EMPTY"
  /\ read_idx' = (read_idx + 1) % RING_SLOTS
  /\ late' = 0
  /\ UNCHANGED <<write_idx, slot, slen, frame, executed, disturbed>> /\ Server

(* The server stops: shutdown() ends its loops between two accesses, and a *)
(* crash of the process ends it anywhere.  The file stays.                 *)
ServerStop ==
  /\ spc # "down" /\ spc' = "down"
  /\ read_idx' = 0 /\ slen' = Zeros /\ frame' = Zeros
  /\ executed' = [c \in Calls |-> 0] /\ disturbed' = (cpc # "idle") /\ late' = 0
  /\ Fault
  /\ UNCHANGED <<write_idx, slot, clientVars>>

ServerStep ==
  \/ ClearSlot \/ SeeRequest \/ Claim
  \/ ServerReadLen \/ ServerReadPayload
  \/ ServerWriteLen \/ ServerWritePayload \/ ServerWriteReady \/ SeeConsumed

Next ==
  \/ BeginCall \/ ClientStep \/ CallFails
  \/ ServerStart \/ ServerStep \/ ServerReadFails \/ ServerStop

(* A call's loops are bounded, so a call that has begun goes on; a server  *)
(* that runs goes on.  Nothing makes a worker call, nor anyone restart a   *)
(* server.                                                                 *)
Fairness == WF_vars(ClientStep) /\ WF_vars(ServerStep)

Spec == Init /\ [][Next]_vars /\ Fairness

-----------------------------------------------------------------------------
(* A run of the server executes a request at most once, although a call    *)
(* whose wait ran out frees a slot the server is working on, later calls   *)
(* write over it and the server writes over them.  (Across a restart it    *)
(* does not hold: see the README.)                                         *)
AtMostOnce == \A c \in Calls : executed[c] <= 1

(* The call has the answer to its own request, or an error because that    *)
(* answer was too long for a slot.                                         *)
Answered ==
  got = Frame("answer", call) \/ (got = Invalid /\ slot[cslot].payload = Cut)

(* A call whose waits did not run out and that saw no restart returns the  *)
(* answer to its own request, whatever earlier calls left in the slots,    *)
(* although nothing compares sequence numbers.  The limit of this: a       *)
(* server that is on one request while the calls go once round the ring    *)
(* gives its answer to the call that comes by.                             *)
AnswerIsOwn == cpc = "consume" /\ ~disturbed /\ late < RING_SLOTS => Answered

(* The server waits for something that only a call can do.                 *)
ServerWaits ==
  \/ spc = "scan" /\ slot[read_idx].state # "REQ_READY"
  \/ spc = "consumed" /\ slot[read_idx].state # "EMPTY"

(* No wait of a call runs out while the server has work to do.             *)
Prompt == SlotWaitEnds \/ ReplyWaitEnds => ServerWaits

(* The two indices meet again.  A restart, an abandoned call or a late     *)
(* answer leaves the server at another slot than the calls, or waiting for *)
(* a slot to be freed that its call has given up; but once faults are over *)
(* and a server that runs is given the time it needs, all but finitely     *)
(* many calls are answered without a wait running out.                     *)
Resynchronises ==
  <>[][Prompt]_vars /\ <>[](spc # "down")
    => <>[](~disturbed /\ (cpc = "consume" => Answered))
=============================================================================
