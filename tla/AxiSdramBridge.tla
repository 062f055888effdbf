--------------------------- MODULE AxiSdramBridge ---------------------------
(***************************************************************************)
(* AxiSdramCtrl.sv above the SDRAM controller: the AR/AW arbiter           *)
(* (StreamArbiter) and Axi4SharedSdramCtrl, which cuts bursts into beats,  *)
(* joins write beats with their data and produces the write responses.     *)
(* The controller below is MemoryPort, which SdramSystem implements.       *)
(*                                                                         *)
(* One step is one clock cycle of the bridge, the port and an AXI master   *)
(* that obeys the protocol: what it offers stays until it is taken, write  *)
(* data come in the order of the write bursts, earlier or later than their *)
(* address.                                                                *)
(***************************************************************************)
EXTENDS Axi4Incr, Sequences, FiniteSets

CONSTANTS Words, Values, Ids,
          ReadReqs, WriteReqs, \* [addr, id, len, size, burst]: what the master asks for
          None,
          MaxOutstanding,      \* of the port: read beats in flight
          MaxWrites,           \* bound: write bursts whose address is not yet taken
          Starts, Lens         \* of the bursts that BeatWhereAxiSays compares

Requests == [addr : Int, id : Ids, len : Nat, size : Nat, burst : Bursts]

\* unburstify_buffer: what is left of a transaction, counted in beats.
Buffers == [write : BOOLEAN, id : Ids, addr : Int, len : Nat, size : Nat, burst : Bursts,
            beat : Nat \ {0}]

\* What is left of it as the master sees it: the addresses not yet visited.
Unserved == [write : BOOLEAN, id : Ids, left : Seq(Int)]

ASSUME BridgeAssumption ==
  /\ ReadReqs \subseteq Requests /\ WriteReqs \subseteq Requests
  /\ None \notin Requests /\ None \notin Buffers /\ None \notin Unserved /\ None \notin Ids
  /\ Starts \subseteq Int /\ Lens \subseteq Nat

\* The master obeys the rules of AXI.
ASSUME LegalRequests ==
  \A req \in ReadReqs \cup WriteReqs : LegalBurst(req.addr, req.size, req.len, req.burst)

VARIABLES
  locked, maskLocked,   \* StreamArbiter
  buffer,               \* unburstify_buffer: a transaction under way, or None
  writeRsp,             \* bridge_writeRsp_m2sPipe: the id of a finished write
  mem, outstanding,     \* the controller and its memory
  ar,                   \* the read request offered, or None
  awQueue, awValid,     \* write requests not yet taken; is the first offered?
  wQueue, wValid,       \* write beats not yet taken; is the first offered?
  expectR,              \* the master's books: read beats it still waits for,
  expectB,              \* and write responses, per id
  stored                \* history: the beat on offer has been stored, not taken

bridgeVars == <<locked, maskLocked, buffer, writeRsp>>
masterVars == <<ar, awQueue, awValid, wQueue, wValid, expectR, expectB>>
vars == <<bridgeVars, mem, outstanding, masterVars, stored>>

Contexts == [id : Ids, last : BOOLEAN]

Arbiter == INSTANCE StreamArbiter
Port    == INSTANCE MemoryPort WITH Addresses <- Words

(***************************************************************************)
(* The wires.                                                              *)
(***************************************************************************)
arValid == ar # None

valids == [i \in {0, 1} |-> IF i = 0 THEN arValid ELSE awValid]

arwValid == Arbiter!OutputValid(valids)
arwWrite == Arbiter!maskRouted(valids) = 1
arw      == IF arwWrite THEN Head(awQueue) ELSE ar

resultValid == buffer # None \/ arwValid

\* Mutant: the last flag of a burst is off by one.
resultLastLate ==
  IF buffer # None
  THEN [write |-> buffer.write, id |-> buffer.id, last |-> buffer.beat = 0,
        addr |-> NextAddr(buffer.addr, buffer.size, buffer.len, buffer.burst)]
  ELSE [write |-> arwWrite, id |-> arw.id, last |-> arw.len = 0, addr |-> arw.addr]

\* unburstify_result: the beat on offer (when resultValid).
result ==
  IF buffer # None
  THEN [write |-> buffer.write, id |-> buffer.id, last |-> buffer.beat = 1,
        addr |-> NextAddr(buffer.addr, buffer.size, buffer.len, buffer.burst)]
  ELSE [write |-> arwWrite, id |-> arw.id, last |-> arw.len = 0, addr |-> arw.addr]

\* A write beat waits for its data.
cmdValid == resultValid /\ (result.write => wValid)

\* Mutant: the response register is taken for free.
rspRoomAlways(bReady) == TRUE

\* The controller does not learn that a write beat is refused for want of
\* room for its response: it takes the command all the same.
rspRoom(bReady)           == writeRsp = None \/ bReady
beatTaken(taken, bReady)  == taken /\ (result.write => rspRoom(bReady))

(***************************************************************************)
(* The registers of the bridge.  taken: the controller takes the command.  *)
(***************************************************************************)
\* Mutant: a burst of two beats is taken for a single beat.
BufferAfterBeatShort ==
  IF buffer = None
  THEN IF arw.len <= 1 THEN None
       ELSE [write |-> arwWrite, id |-> arw.id, addr |-> arw.addr, len |-> arw.len,
             size |-> arw.size, burst |-> arw.burst, beat |-> arw.len]
  ELSE IF buffer.beat = 1 THEN None
       ELSE [buffer EXCEPT !.beat = @ - 1, !.addr = result.addr]

BufferAfterBeat ==
  IF buffer = None
  THEN IF arw.len = 0 THEN None
       ELSE [write |-> arwWrite, id |-> arw.id, addr |-> arw.addr, len |-> arw.len,
             size |-> arw.size, burst |-> arw.burst, beat |-> arw.len]
  ELSE IF buffer.beat = 1 THEN None
       ELSE [buffer EXCEPT !.beat = @ - 1, !.addr = result.addr]

Unburstify(taken, bReady) ==
  buffer' = IF beatTaken(taken, bReady) THEN BufferAfterBeat ELSE buffer

WriteResponse(taken, bReady) ==
  writeRsp' =
    IF ~rspRoom(bReady) THEN writeRsp
    ELSE IF beatTaken(taken, bReady) /\ result.write /\ result.last THEN result.id
    ELSE None

PortCommand(taken, rest) ==
  IF ~taken THEN Port!NoCommand(rest)
  ELSE IF result.write THEN Port!Write(result.addr \div 4, Head(wQueue).data, rest)
  ELSE Port!Read(result.addr \div 4, [id |-> result.id, last |-> result.last], rest)

arwTaken(taken, bReady) == buffer = None /\ beatTaken(taken, bReady)

(***************************************************************************)
(* The master.                                                             *)
(***************************************************************************)
ReadBeats(req) == [n \in 1..(req.len + 1) |-> [id |-> req.id, last |-> n = req.len + 1]]

IssueRead(arTaken, rest) ==
  \E req \in ReadReqs \cup {None} :
    LET waiting == IF Len(rest) < Len(outstanding) THEN Tail(expectR) ELSE expectR
    IN  IF ar = None \/ arTaken
        THEN /\ ar' = req
             /\ expectR' = IF req = None THEN waiting ELSE waiting \o ReadBeats(req)
        ELSE req = None /\ ar' = ar /\ expectR' = waiting

WriteBeats(req, data) ==
  [n \in 1..(req.len + 1) |-> [data |-> data[n], last |-> n = req.len + 1, id |-> req.id]]

\* A valid that was not answered stays; one over an empty queue cannot rise.
Offer(valid, consumed, queue) ==
  IF valid /\ ~consumed THEN {TRUE} ELSE IF queue = << >> THEN {FALSE} ELSE BOOLEAN

Drop(taken, queue) == IF taken THEN Tail(queue) ELSE queue

IssueWrite(awTaken, wTaken, bTaken) ==
  LET aws == Drop(awTaken, awQueue)
      ws  == Drop(wTaken, wQueue)
      answered == [i \in Ids |-> IF bTaken /\ writeRsp = i THEN expectB[i] - 1 ELSE expectB[i]]
  IN  /\ \/ awQueue' = aws /\ wQueue' = ws /\ expectB' = answered
         \/ \E req \in WriteReqs : \E data \in [1..(req.len + 1) -> Values] :
              /\ Len(aws) < MaxWrites
              /\ awQueue' = Append(aws, req)
              /\ wQueue' = ws \o WriteBeats(req, data)
              /\ expectB' = [answered EXCEPT ![req.id] = @ + 1]
      /\ awValid' \in Offer(awValid, awTaken, awQueue')
      /\ wValid' \in Offer(wValid, wTaken, wQueue')

(***************************************************************************)
(* One cycle.  ready: the controller would take a command; bReady: the     *)
(* master takes a write response; rest: outstanding reads after a response *)
(* has been returned or not.                                               *)
(***************************************************************************)
Cycle(ready, bReady, rest) ==
  LET taken == cmdValid /\ ready
      gone  == beatTaken(taken, bReady)
  IN  /\ Unburstify(taken, bReady)
      /\ WriteResponse(taken, bReady)
      /\ Arbiter!ArbiterClock(valids, arwTaken(taken, bReady))
      /\ PortCommand(taken, rest)
      /\ IssueRead(arwTaken(taken, bReady) /\ ~arwWrite, rest)
      /\ IssueWrite(arwTaken(taken, bReady) /\ arwWrite, gone /\ result.write,
                    bReady /\ writeRsp # None)
      /\ stored' = ((taken \/ stored) /\ ~gone)

Init ==
  /\ Arbiter!ArbiterInit
  /\ buffer = None /\ writeRsp = None
  /\ Port!PortInit
  /\ ar = None /\ awQueue = << >> /\ awValid = FALSE
  /\ wQueue = << >> /\ wValid = FALSE
  /\ expectR = << >> /\ expectB = [i \in Ids |-> 0]
  /\ stored = FALSE

\* A ready that meets no valid changes nothing.
ReadyFor(valid) == IF valid THEN BOOLEAN ELSE {FALSE}

Next ==
  \E ready \in ReadyFor(cmdValid), bReady \in ReadyFor(writeRsp # None),
     rest \in Port!Returned(outstanding) : Cycle(ready, bReady, rest)

Spec == Init /\ [][Next]_vars

\* The controller takes commands, the master takes responses and sends the data
\* of the writes it has issued, each again and again.  (A cycle in which a read
\* is taken is impossible while MaxOutstanding reads are in flight: the fairness
\* of FairCycle(FALSE) lets one of them return.)
Served == IF outstanding = << >> THEN << >> ELSE Tail(outstanding)
FairCycle(ready) == Cycle(ready, TRUE, Served) /\ (wQueue' # << >> => wValid')

FairSpec == Spec /\ WF_vars(FairCycle(TRUE)) /\ WF_vars(FairCycle(FALSE))

(***************************************************************************)
(* Properties                                                              *)
(***************************************************************************)
\* A write beat is joined with the data the master sent for it: right burst,
\* last beat with last data.  (The bridge itself never looks at WLAST.)
DataBelongs ==
  cmdValid /\ result.write =>
    Head(wQueue).id = result.id /\ Head(wQueue).last = result.last

BeatContexts(reads) == [n \in DOMAIN reads |-> reads[n].ctx]

\* The read beats still to be cut from the transaction under way.
BeatsLeft ==
  IF buffer = None \/ buffer.write THEN << >>
  ELSE [n \in 1..buffer.beat |-> [id |-> buffer.id, last |-> n = buffer.beat]]

\* Every read beat the master waits for is on its way, in the order the master
\* asked for them, with the last flag where the burst ends, and no other is.
ReadsAccounted ==
  expectR = BeatContexts(outstanding) \o BeatsLeft
            \o (IF ar = None THEN << >> ELSE ReadBeats(ar))

\* Every write burst owes exactly one response: it is waiting for its turn, or
\* under way, or its response waits in the response register.
WritesAccounted ==
  \A i \in Ids :
    expectB[i] = Cardinality({n \in DOMAIN awQueue : awQueue[n].id = i})
                 + (IF buffer # None /\ buffer.write /\ buffer.id = i THEN 1 ELSE 0)
                 + (IF writeRsp = i THEN 1 ELSE 0)

\* The word addresses a transaction under way has yet to visit.
AddrAfter(b) == Walk(b.addr, b.size, b.len, b.burst, b.beat)

\* A beat counts as served from the moment the controller stores it.
Progress(b) ==
  IF b = None THEN None
  ELSE [write |-> b.write, id |-> b.id, left |-> [n \in 1..b.beat |-> AddrAfter(b)[n]]]

Abstract == INSTANCE AxiMemory WITH
              current <- Progress(IF stored THEN BufferAfterBeat ELSE buffer)

\* The bridge and the controller are a memory that serves bursts one by one.
\* In particular a write beat that the controller takes and the bridge refuses,
\* because the response register is full, is stored again in every cycle until
\* there is room: the repetition must not show.
ImplementsAxiMemory == Abstract!AxiSpec

\* Before any request is made: the circuit, stepped through any legal burst,
\* goes where AXI says every beat goes.  It derives an address from the one
\* before and the length alone, the rule from the start and the number of the
\* beat (unburstify_buffer_transaction_addr).
BeatWhereAxiSays ==
  Init =>
    \A start \in Starts, size \in 0..2, len \in Lens, burst \in Bursts :
      LegalBurst(start, size, len, burst) =>
        Walk(start, size, len, burst, len)
          = [n \in 0..len |-> BeatAddr(start, size, len, burst, n)]

\* The arbiter starves neither direction: again and again no write request is
\* waiting or a write is under way or answered, and so for reads.
NeitherStarved ==
  /\ []<>(~awValid \/ writeRsp # None \/ (buffer # None /\ buffer.write))
  /\ []<>(ar = None \/ outstanding # << >> \/ (buffer # None /\ ~buffer.write))
=============================================================================
