-------------------------- MODULE SdramPortProofs ---------------------------
(***************************************************************************)
(* SdramCtrl with its chip is a memory: it loses no read data and          *)
(* implements MemoryPort.  Proved for every number of banks, every set of  *)
(* rows, columns, values and contexts and every length of the timers.      *)
(*                                                                         *)
(* The argument for the backup FIFO: what arrives at the FIFO at cycle     *)
(* t + 2 is in flight at cycle t, so the clock enable that decides whether *)
(* it arrives was computed with the reader's ready of cycle t.  If it was  *)
(* not stopped, the reader took an entry at t, if there was one.           *)
(*                                                                         *)
(* The argument for the memory: the reads that are outstanding are the     *)
(* contents of a chain of stages, FIFO, DQ register, chip, pins, task      *)
(* register.  Whatever moves in a cycle, the chain read from its front is  *)
(* the same but for the response that is taken and the command that is     *)
(* accepted, and a read on its way yields what the memory held when it was *)
(* accepted, because the tasks before it are executed before it.           *)
(***************************************************************************)
EXTENDS SdramRuleProofs

(***************************************************************************)
(* The backup FIFO.                                                        *)
(***************************************************************************)
\* The registers of the FIFO, of the read history and of CKE.
PointerTypes ==
  pushPtr \in {0, 1} /\ popPtr \in {0, 1} /\ risingOccupancy \in BOOLEAN

RoomTypes ==
  /\ PointerTypes
  /\ ckeInternal \in BOOLEAN /\ remoteCke \in BOOLEAN
  /\ readHistory = [i \in HistoryStages |-> readHistory[i]]

RoomInv == RoomTypes /\ BackupRoom

\* How a clock edge changes the FIFO: a push that finds room adds one entry, a
\* pop takes one away.
LEMMA FifoCounts ==
  ASSUME PointerTypes, NEW STATE push, NEW popReady \in BOOLEAN, Fifo!Clock(push, popReady)
  PROVE  /\ PointerTypes'
         /\ Fifo!Occupancy'
              = Fifo!Occupancy
                + (IF push # None /\ Fifo!PushReady THEN 1 ELSE 0)
                - (IF Fifo!PopValid(push) /\ popReady THEN 1 ELSE 0)
<1> DEFINE pushing == push # None /\ Fifo!PushReady
           popping == Fifo!PopValid(push) /\ popReady
<1>1. /\ pushPtr' = IF pushing THEN 1 - pushPtr ELSE pushPtr
      /\ popPtr' = IF popping THEN 1 - popPtr ELSE popPtr
      /\ pushing /\ ~popping => risingOccupancy' = TRUE
      /\ ~pushing /\ popping => risingOccupancy' = FALSE
      /\ (pushing <=> popping) => risingOccupancy' = risingOccupancy
  BY DEF Fifo!Clock
<1>2. pushing => Fifo!Occupancy \in {0, 1}
  BY DEF PointerTypes, Fifo!PushReady, Fifo!full, Fifo!empty, Fifo!ptrMatch, Fifo!Occupancy
<1>3. popping => pushing \/ pushPtr # popPtr \/ risingOccupancy
  BY DEF PointerTypes, Fifo!PopValid, Fifo!PushReady, Fifo!full, Fifo!empty, Fifo!ptrMatch,
         Fifo!Occupancy
<1> SUFFICES /\ PointerTypes'
             /\ Fifo!Occupancy' = Fifo!Occupancy + (IF pushing THEN 1 ELSE 0)
                                                 - (IF popping THEN 1 ELSE 0)
  OBVIOUS
<1> HIDE DEF pushing, popping
<1> USE <1>1 DEF PointerTypes, Fifo!full, Fifo!empty, Fifo!ptrMatch, Fifo!Occupancy
<1>4. CASE pushing /\ popping
  BY <1>4
<1>5. CASE pushing /\ ~popping
  BY <1>2, <1>5
<1>6. CASE ~pushing /\ popping
  <2>1. popPtr' = 1 - popPtr /\ pushPtr' = pushPtr
        /\ ~risingOccupancy' /\ risingOccupancy' \in BOOLEAN
    BY <1>6
  <2>2. Fifo!Occupancy' = IF pushPtr = 1 - popPtr THEN 0 ELSE 1
    BY <2>1
  <2>3. Fifo!Occupancy = IF pushPtr = popPtr THEN 2 ELSE 1
    BY <1>3, <1>6
  <2> HIDE <1>1 DEF Fifo!Occupancy
  <2>4. Fifo!Occupancy' = Fifo!Occupancy - 1
    BY <2>2, <2>3
  <2>5. PointerTypes'
    BY <2>1
  <2>6. Fifo!Occupancy \in Nat
    BY DEF Fifo!Occupancy
  <2>7. QED
    BY <1>6, <2>4, <2>5, <2>6
<1>7. CASE ~pushing /\ ~popping
  BY <1>7
<1>8. QED
  BY <1>4, <1>5, <1>6, <1>7

\* An empty FIFO and no read on its way: the state after a reset.
FifoEmpty ==
  /\ pushPtr = 0 /\ popPtr = 0 /\ risingOccupancy = FALSE
  /\ readHistory = [i \in HistoryStages |-> None]
  /\ ckeInternal = TRUE /\ remoteCke = TRUE

\* An empty FIFO has room, whatever is under way.
LEMMA RoomWhenEmpty == FifoEmpty => RoomInv
<1> SUFFICES ASSUME FifoEmpty
             PROVE  RoomInv
  OBVIOUS
<1> USE DEF FifoEmpty
<1>1. RoomTypes
  BY DEF RoomTypes, PointerTypes, HistoryStages
<1>2. Fifo!Occupancy = 0
  BY DEF Fifo!Occupancy, Fifo!empty, Fifo!ptrMatch
<1>3. readHistory[3] = None /\ readHistory[4] = None
  BY DEF HistoryStages
<1>4. PushNow = 0 /\ PushNext = 0
  BY <1>3 DEF PushNow, PushNext, backupIn
<1>5. QED
  BY <1>1, <1>2, <1>4 DEF RoomInv, BackupRoom

\* The entries, the pushes of this cycle and of the next, and a pop that happens
\* when there is something to pop and the reader is ready.
LEMMA RoomArithmetic ==
  \A entries \in 0..2, now, next, now1, next1 \in {0, 1}, ready \in BOOLEAN :
    entries + now + next <= 2 /\ now1 <= next /\ (next1 = 1 => ready)
      => entries + now - (IF (entries # 0 \/ now = 1) /\ ready THEN 1 ELSE 0) + now1 + next1 <= 2
OBVIOUS

\* What reaches the FIFO was in flight two cycles before, when CKE was still in
\* time: reads that would be one too many have been stopped.
LEMMA RoomStep ==
  ASSUME RoomInv, NEW STATE op, NEW STATE dq, NEW rsp_ready \in BOOLEAN,
         Chip(op, rsp_ready, dq), Fifo!Clock(backupIn, rsp_ready)
  PROVE  RoomInv'
<1> USE DEF RoomInv
<1>1. RoomTypes'
  <2>1. readHistory' = [i \in HistoryStages |-> readHistory'[i]]
    BY DEF RoomTypes, Chip
  <2>2. PointerTypes'
    BY FifoCounts DEF RoomTypes, PointerTypes
  <2>3. ckeInternal' \in BOOLEAN /\ remoteCke' \in BOOLEAN
    BY DEF RoomTypes, Chip, CkeNext
  <2>4. QED
    BY <2>1, <2>2, <2>3 DEF RoomTypes
<1>2. PushNow' <= PushNext /\ PushNow \in {0, 1} /\ PushNext \in {0, 1}
  <2>1. backupIn' # None => remoteCke' /\ readHistory'[4] # None
    BY DEF backupIn
  <2>2. remoteCke' = ckeInternal
    BY DEF Chip
  <2>3. readHistory'[4] = readHistory[IF remoteCke THEN 3 ELSE 4]
    BY DEF Chip, HistoryStages, RoomTypes
  <2>4. QED
    BY <2>1, <2>2, <2>3 DEF PushNow, PushNext
<1>3. PushNext' = 1 => rsp_ready
  <2>1. SUFFICES ASSUME ckeInternal', readHistory'[IF remoteCke' THEN 3 ELSE 4] # None
                 PROVE  rsp_ready
    BY DEF PushNext
  <2>2. \E i \in HistoryStages : readHistory[i] # None
    BY <2>1 DEF Chip, HistoryStages, RoomTypes
  <2>3. QED
    BY <2>1, <2>2 DEF Chip, CkeNext, ReadsInFlight
<1>4. PushNext' \in {0, 1}
  BY DEF PushNext
<1>5. PushNow = 1 => Fifo!PushReady
  BY <1>2 DEF RoomTypes, PointerTypes, BackupRoom, PushNow, Fifo!Occupancy, Fifo!PushReady,
              Fifo!full, Fifo!empty, Fifo!ptrMatch
<1>6. Fifo!Occupancy'
        = Fifo!Occupancy + PushNow
          - (IF (Fifo!Occupancy # 0 \/ PushNow = 1) /\ rsp_ready THEN 1 ELSE 0)
  <2>1. Fifo!PopValid(backupIn) <=> Fifo!Occupancy # 0 \/ PushNow = 1
    BY DEF PushNow, Fifo!PopValid, Fifo!Occupancy, Fifo!full, Fifo!empty, Fifo!ptrMatch
  <2>2. Fifo!Occupancy'
          = Fifo!Occupancy
            + (IF backupIn # None /\ Fifo!PushReady THEN 1 ELSE 0)
            - (IF Fifo!PopValid(backupIn) /\ rsp_ready THEN 1 ELSE 0)
    BY FifoCounts DEF RoomTypes
  <2>3. PushNow = IF backupIn # None /\ Fifo!PushReady THEN 1 ELSE 0
    BY <1>5 DEF PushNow
  <2>4. QED
    BY <2>1, <2>2, <2>3
<1>7. Fifo!Occupancy \in 0..2
  BY DEF Fifo!Occupancy
<1>8. Fifo!Occupancy' + PushNow' + PushNext' <= 2
  <2>1. Fifo!Occupancy + PushNow + PushNext <= 2
    BY DEF BackupRoom
  <2>2. PushNow' \in {0, 1}
    BY DEF PushNow
  <2>3. QED
    BY <1>2, <1>3, <1>4, <1>6, <1>7, <2>1, <2>2, RoomArithmetic, ZenonT(30)
<1>9. QED
  BY <1>1, <1>8 DEF BackupRoom

\* Room in the FIFO is what NoReadDataLost asks for.
LEMMA RoomImpliesNoReadDataLost ==
  RoomInv => NoReadDataLost
BY DEF RoomInv, RoomTypes, PointerTypes, BackupRoom, NoReadDataLost, PushNow, PushNext, Fifo!Occupancy,
       Fifo!PushReady, Fifo!full, Fifo!empty, Fifo!ptrMatch

\* There is always room, also when a reset empties the FIFO in between.
THEOREM RoomKept == ResetSpec => []RoomInv
<1>1. Init => RoomInv
  BY RoomWhenEmpty DEF Init, CtrlInit, Fifo!Init, FifoEmpty
<1>2. RoomInv /\ [Next \/ Reset]_vars => RoomInv'
  <2> SUFFICES ASSUME RoomInv, [Next \/ Reset]_vars
               PROVE  RoomInv'
    OBVIOUS
  <2>1. CASE Next
    <3>1. PICK cmd \in Offers, rsp_ready \in BOOLEAN : Clock(cmd, rsp_ready, Chip0!dq)
      BY <2>1 DEF Next, Cycle
    <3>2. Chip(issued, rsp_ready, Chip0!dq) /\ Fifo!Clock(backupIn, rsp_ready)
      BY <3>1 DEF Clock
    <3>3. QED
      BY <3>2, RoomStep
  <2>2. CASE Reset
    <3>1. FifoEmpty'
      BY <2>2 DEF Reset, CtrlReset, Fifo!Reset, FifoEmpty
    <3>2. (FifoEmpty => RoomInv)'
      BY RoomWhenEmpty, PTL
    <3>3. QED
      BY <3>1, <3>2
  <2>3. CASE UNCHANGED vars
    BY <2>3 DEF vars, ctrlVars, chipVars, fifoVars, RoomInv, RoomTypes, PointerTypes, BackupRoom, PushNow,
                PushNext, backupIn, Fifo!Occupancy, Fifo!full, Fifo!empty, Fifo!ptrMatch
  <2>4. QED
    BY <2>1, <2>2, <2>3
<1>3. QED
  BY <1>1, <1>2, PTL DEF ResetSpec

\* However the reader toggles its ready, and with a reset at any moment, the
\* chip stage never pushes read data into a full backup FIFO.
THEOREM BackupFifoSuffices == ResetSpec => []NoReadDataLost
  BY RoomKept, RoomImpliesNoReadDataLost, PTL

(***************************************************************************)
(* The memory and the reads outstanding, as MemoryPort sees them.          *)
(***************************************************************************)
\* The stages of the read pipeline behind the FIFO.
InRegister == InHistory(4, dq_read)
OnPins     == IF readHistory[1] = None THEN << >> ELSE ReadOf(pins, open, cells)
InTask     == ReadOf(rData, OpenOfPins, CellsOfPins)

Flying == Joined(InHistory(3, dqPipe[2]),
                 Joined(InHistory(2, dqPipe[1]), Joined(OnPins, InTask)))

\* The entries the reader can see in this cycle, and what is behind them.
Arriving == IF backupIn = None THEN << >> ELSE <<backupIn>>
Ahead    == Joined(Fifo!Contents, Arriving)
Behind   == IF remoteCke THEN Flying ELSE Joined(InRegister, Flying)

\* What joins the chain in this cycle.
Entering == IF rspReady THEN InTask' ELSE << >>

\* A read in the history is on the pins, or the chip knows how late its data come.
HistoryInv ==
  /\ readHistory[1] # None => /\ pins # None /\ pins.task = "READ"
                              /\ pins.ctx = readHistory[1]
  /\ readHistory[2] # None \/ readHistory[3] # None => mode = CasLatency

\* Sequences of at most two elements.
LEMMA ShortSequences ==
  \A S : \A a, b \in S :
    /\ << >> \in Seq(S) /\ <<a>> \in Seq(S) /\ <<a, b>> \in Seq(S)
    /\ <<a>> # << >> /\ <<a, b>> # << >>
    /\ Head(<<a>>) = a /\ Head(<<a, b>>) = a
    /\ Tail(<<a>>) = << >> /\ Tail(<<a, b>>) = <<b>>
    /\ Joined(<<a>>, <<b>>) = <<a, b>>
<1> SUFFICES ASSUME NEW S, NEW a \in S, NEW b \in S
             PROVE  /\ << >> \in Seq(S) /\ <<a>> \in Seq(S) /\ <<a, b>> \in Seq(S)
                    /\ <<a>> # << >> /\ <<a, b>> # << >>
                    /\ Head(<<a>>) = a /\ Head(<<a, b>>) = a
                    /\ Tail(<<a>>) = << >> /\ Tail(<<a, b>>) = <<b>>
                    /\ <<a>> \o <<b>> = <<a, b>>
  BY DEF Joined
<1>1. << >> \in Seq(S) /\ <<a>> \in Seq(S) /\ <<a, b>> \in Seq(S)
  OBVIOUS
<1>2. <<a>> # << >> /\ <<a, b>> # << >> /\ Head(<<a>>) = a /\ Head(<<a, b>>) = a
  OBVIOUS
<1>3. Tail(<<a>>) = << >>
  OBVIOUS
<1>4. Tail(<<a, b>>) = <<b>>
  OBVIOUS
<1>5. <<a>> \o <<b>> = <<a, b>>
  <2>1. Append(<<a>>, b) = <<a>> \o <<b>>
    BY <1>1, AppendIsConcat
  <2>2. /\ Append(<<a>>, b) \in Seq(S) /\ Len(Append(<<a>>, b)) = 2
        /\ Append(<<a>>, b)[1] = a /\ Append(<<a>>, b)[2] = b
    BY <1>1, AppendProperties
  <2>3. \A i \in 1..2 : Append(<<a>>, b)[i] = <<a, b>>[i]
    BY <2>2
  <2>4. Append(<<a>>, b) = <<a, b>>
    BY <1>1, <2>2, <2>3, SeqEqual
  <2>5. QED
    BY <2>1, <2>4
<1>6. QED
  BY <1>1, <1>2, <1>3, <1>4, <1>5

\* How many entries the FIFO holds, and which.
LEMMA ContentsInOrder ==
  ASSUME FifoTypes
  PROVE  /\ Fifo!Contents \in Seq(Responses)
         /\ Fifo!Contents # << >> <=> ~Fifo!empty
         /\ ~Fifo!empty => Head(Fifo!Contents) = ram[popPtr]
<1>1. ram[popPtr] \in Responses /\ ram[1 - popPtr] \in Responses
  BY DEF FifoTypes, Fifo!Slots
<1>2. QED
  BY <1>1 DEF Fifo!Contents, Fifo!empty, Fifo!full

\* What the FIFO shows and keeps: the entries it has and the one that arrives, in
\* this order, without the first one when it is taken.
LEMMA FifoMoves ==
  ASSUME FifoTypes, ChipTypes, NoReadDataLost, NEW ready \in BOOLEAN, Fifo!Clock(backupIn, ready)
  PROVE  /\ Ahead \in Seq(Responses)
         /\ RspValid <=> Ahead # << >>
         /\ RspValid => RspPayload = Head(Ahead)
         /\ popPtr' # popPtr => RspValid /\ Fifo!Contents' = Tail(Ahead)
         /\ popPtr' = popPtr => Fifo!Contents' = Ahead
<1>1. backupIn # None => backupIn \in Responses
  BY DEF backupIn, Responses, ChipTypes, HistoryStages
<1>2. /\ ram \in [0..1 -> Responses] /\ pushPtr \in {0, 1} /\ popPtr \in {0, 1}
      /\ risingOccupancy \in BOOLEAN /\ (backupIn # None => ~Fifo!full)
  BY DEF FifoTypes, Fifo!Slots, NoReadDataLost, Fifo!PushReady
<1> DEFINE popping == Fifo!PopValid(backupIn) /\ ready
           pushing == backupIn # None
<1>3. /\ ram' = IF pushing THEN [ram EXCEPT ![pushPtr] = backupIn] ELSE ram
      /\ pushPtr' = IF pushing THEN 1 - pushPtr ELSE pushPtr
      /\ popPtr' = IF popping THEN 1 - popPtr ELSE popPtr
      /\ pushing /\ ~popping => risingOccupancy' = TRUE
      /\ ~pushing /\ popping => risingOccupancy' = FALSE
      /\ (pushing <=> popping) => risingOccupancy' = risingOccupancy
  BY <1>2 DEF Fifo!Clock, Fifo!PushReady
<1>4. /\ popPtr' # popPtr <=> popping
      /\ 1 - popPtr \in {0, 1} /\ 1 - (1 - popPtr) = popPtr /\ 1 - popPtr # popPtr
  BY <1>2, <1>3
<1>5. << >> \in Seq(Responses) /\ Joined(<< >>, << >>) = << >>
  <2>1. << >> \in Seq(Responses)
    OBVIOUS
  <2>2. QED
    BY <2>1, JoinedEmpty
<1>6. /\ ram[popPtr] \in Responses /\ ram[1 - popPtr] \in Responses
      /\ pushing => backupIn \in Responses
  BY <1>1, <1>2, <1>4
<1>7. \A a, b \in Responses :
        /\ Joined(<< >>, <<a>>) = <<a>> /\ Joined(<<a>>, << >>) = <<a>>
        /\ Joined(<<a, b>>, << >>) = <<a, b>>
  <2>1. \A a, b \in Responses : <<a>> \in Seq(Responses) /\ <<a, b>> \in Seq(Responses)
    OBVIOUS
  <2>2. QED
    BY <2>1, JoinedEmpty
<1>8. /\ pushing /\ pushPtr = popPtr => ram'[popPtr] = backupIn
      /\ pushing /\ pushPtr = 1 - popPtr => ram'[popPtr] = ram[popPtr] /\ ram'[1 - popPtr] = backupIn
      /\ ~pushing => ram' = ram
  BY <1>2, <1>3, <1>4
<1> HIDE DEF popping, pushing
<1>9. /\ Arriving = IF pushing THEN <<backupIn>> ELSE << >>
      /\ RspValid <=> ~Fifo!empty \/ pushing
      /\ RspPayload = IF Fifo!empty THEN backupIn ELSE ram[popPtr]
      /\ popping => RspValid
  BY DEF Arriving, RspValid, RspPayload, Fifo!PopValid, Fifo!PopPayload, pushing, popping
<1> USE DEF Fifo!Contents, Fifo!empty, Fifo!full, Fifo!ptrMatch
<1>10. CASE Fifo!empty /\ ~pushing
  <2>1. Ahead = << >> /\ ~RspValid /\ ~popping
    BY <1>5, <1>9, <1>10 DEF Ahead
  <2>2. popPtr' = popPtr /\ Fifo!Contents' = << >>
    BY <1>2, <1>3, <1>10, <2>1
  <2>3. QED
    BY <1>5, <2>1, <2>2
<1>11. CASE Fifo!empty /\ pushing
  <2>1. Ahead = <<backupIn>> /\ RspValid /\ RspPayload = backupIn
    BY <1>6, <1>7, <1>9, <1>11 DEF Ahead
  <2>2. popping => Fifo!Contents' = << >>
    BY <1>2, <1>3, <1>4, <1>11
  <2>3. ~popping => Fifo!Contents' = <<backupIn>>
    BY <1>2, <1>3, <1>4, <1>8, <1>11
  <2>4. QED
    BY <1>4, <1>6, <1>11, <2>1, <2>2, <2>3, ShortSequences
<1>12. CASE ~Fifo!empty /\ ~Fifo!full /\ ~pushing
  <2>1. Ahead = <<ram[popPtr]>> /\ RspValid /\ RspPayload = ram[popPtr]
    BY <1>6, <1>7, <1>9, <1>12 DEF Ahead
  <2>2. popping => Fifo!Contents' = << >>
    BY <1>2, <1>3, <1>4, <1>12
  <2>3. ~popping => Fifo!Contents' = <<ram[popPtr]>>
    BY <1>2, <1>3, <1>4, <1>8, <1>12
  <2>4. QED
    BY <1>4, <1>6, <1>12, <2>1, <2>2, <2>3, ShortSequences
<1>13. CASE ~Fifo!empty /\ ~Fifo!full /\ pushing
  <2>1. RspValid /\ RspPayload = ram[popPtr] /\ pushPtr = 1 - popPtr
    BY <1>2, <1>9, <1>13
  <2>2. Ahead = <<ram[popPtr], backupIn>>
    <3>1. Ahead = Joined(<<ram[popPtr]>>, <<backupIn>>)
      BY <1>9, <1>13 DEF Ahead
    <3>2. QED
      BY <1>6, <1>13, <3>1, ShortSequences
  <2>3. popping => Fifo!Contents' = <<backupIn>>
    BY <1>2, <1>3, <1>4, <1>8, <1>13, <2>1
  <2>4. ~popping => Fifo!Contents' = <<ram[popPtr], backupIn>>
    BY <1>2, <1>3, <1>4, <1>8, <1>13, <2>1
  <2>5. QED
    BY <1>4, <1>6, <1>13, <2>1, <2>2, <2>3, <2>4, ShortSequences, SMTT(30)
<1>14. CASE Fifo!full
  <2>1. ~pushing /\ ~Fifo!empty
    BY <1>2, <1>14 DEF pushing
  <2>2. Ahead = <<ram[popPtr], ram[1 - popPtr]>> /\ RspValid /\ RspPayload = ram[popPtr]
    BY <1>6, <1>7, <1>9, <1>14, <2>1 DEF Ahead
  <2>3. popping => Fifo!Contents' = <<ram[1 - popPtr]>>
    BY <1>2, <1>3, <1>4, <1>8, <1>14, <2>1
  <2>4. ~popping => Fifo!Contents' = <<ram[popPtr], ram[1 - popPtr]>>
    BY <1>2, <1>3, <1>4, <1>8, <1>14, <2>1
  <2>5. QED
    BY <1>4, <1>6, <2>2, <2>3, <2>4, ShortSequences
<1>15. QED
  BY <1>10, <1>11, <1>12, <1>13, <1>14

\* What the chip's memory and open rows are once it has executed its pins.
LEMMA PinsExecuted ==
  ASSUME TasksLegal, clkEnable, Chip0!DeviceEdge
  PROVE  cells' = CellsOfPins /\ open' = OpenOfPins
<1>1. open' = OpenOfPins
  BY DeviceOpens DEF OpenOfPins
<1>2. cells' = IF Chip0!IsOp("WRITE") /\ pins.data # None /\ open[pins.bank] # None
               THEN [cells EXCEPT ![Chip0!Target] = pins.data] ELSE cells
  BY DEF Chip0!DeviceEdge, Chip0!Execute
<1>3. Chip0!IsOp("WRITE") => open[pins.bank] # None
  BY DEF TasksLegal, LegalOn, Chip0!IsOp
<1>4. cells' = CellsOfPins
  BY <1>2, <1>3 DEF CellsOfPins, CellsAfter, Chip0!IsOp, Chip0!Target
<1>5. QED
  BY <1>1, <1>4

\* An empty pipeline stage changes neither the open rows nor the memory.
LEMMA NothingAfterNone ==
  ASSUME NEW opened, NEW memory
  PROVE  /\ opened \in [Banks -> Rows \cup {None}] => OpenAfter(None, opened) = opened
         /\ CellsAfter(None, opened, memory) = memory
         /\ ReadOf(None, opened, memory) = << >>
  BY DEF OpenAfter, CellsAfter, ReadOf

\* The rows open and the memory after a legal task.
LEMMA AfterTypes ==
  ASSUME NEW op \in TaskSet \cup {None}, NEW opened \in [Banks -> Rows \cup {None}],
         NEW memory \in [Banks \X Rows \X Cols -> Values], LegalOn(op, opened)
  PROVE  /\ OpenAfter(op, opened) \in [Banks -> Rows \cup {None}]
         /\ CellsAfter(op, opened, memory) \in [Banks \X Rows \X Cols -> Values]
         /\ ReadOf(op, opened, memory) \in Seq(Responses)
<1>1. OpenAfter(op, opened) \in [Banks -> Rows \cup {None}]
  <2>1. \A b \in Banks : op # None /\ op.task = "ACTIVE" /\ op.bank = b => op.arg \in Rows
    BY DEF TaskSet
  <2>2. QED
    BY <2>1 DEF OpenAfter
<1>2. CellsAfter(op, opened, memory) \in [Banks \X Rows \X Cols -> Values]
  <2>1. op # None /\ op.task = "WRITE" /\ op.data # None => op.data \in Values
    BY DEF TaskSet
  <2>2. QED
    BY <2>1 DEF CellsAfter
<1>3. ReadOf(op, opened, memory) \in Seq(Responses)
  <2>1. CASE op # None /\ op.task = "READ"
    <3>1. op.bank \in Banks /\ op.arg \in Cols /\ op.ctx \in Contexts
      BY <2>1 DEF TaskSet
    <3>2. opened[op.bank] \in Rows
      BY <2>1, <3>1 DEF LegalOn
    <3>3. memory[<<op.bank, opened[op.bank], op.arg>>] \in Values
      BY <3>1, <3>2
    <3>4. [ctx |-> op.ctx, data |-> memory[<<op.bank, opened[op.bank], op.arg>>]] \in Responses
      BY <3>1, <3>3 DEF Responses
    <3>5. QED
      BY <2>1, <3>4, ShortSequences DEF ReadOf
  <2>2. CASE ~(op # None /\ op.task = "READ")
    BY <2>2 DEF ReadOf
  <2>3. QED
    BY <2>1, <2>2
<1>4. QED
  BY <1>1, <1>2, <1>3

\* Every stage of the chain is a sequence of responses.
LEMMA ChainTypes ==
  ASSUME TypeOK, TasksLegal
  PROVE  /\ OpenOfPins \in [Banks -> Rows \cup {None}]
         /\ CellsOfPins \in [Banks \X Rows \X Cols -> Values]
         /\ AbstractMem \in [Banks \X Rows \X Cols -> Values]
         /\ InRegister \in Seq(Responses) /\ OnPins \in Seq(Responses) /\ InTask \in Seq(Responses)
         /\ InHistory(3, dqPipe[2]) \in Seq(Responses) /\ InHistory(2, dqPipe[1]) \in Seq(Responses)
         /\ Fifo!Contents \in Seq(Responses) /\ Arriving \in Seq(Responses)
<1>1. /\ pins \in TaskSet \cup {None} /\ rData \in TaskSet \cup {None}
      /\ open \in [Banks -> Rows \cup {None}] /\ cells \in [Banks \X Rows \X Cols -> Values]
      /\ \A i \in HistoryStages : readHistory[i] \in Contexts \cup {None}
      /\ dq_read \in Values \cup {None}
      /\ dqPipe[1] \in Values \cup {None} /\ dqPipe[2] \in Values \cup {None}
      /\ LegalOn(pins, open) /\ LegalOn(rData, OpenOfPins)
  BY DEF TypeOK, ChipTypes, FrontendTypes, DeviceTypes, TasksLegal, OpenOfPins
<1>2. /\ OpenOfPins \in [Banks -> Rows \cup {None}]
      /\ CellsOfPins \in [Banks \X Rows \X Cols -> Values]
      /\ ReadOf(pins, open, cells) \in Seq(Responses)
  BY <1>1, AfterTypes DEF OpenOfPins, CellsOfPins
<1>3. AbstractMem \in [Banks \X Rows \X Cols -> Values] /\ InTask \in Seq(Responses)
  BY <1>1, <1>2, AfterTypes DEF AbstractMem, InTask
<1>4. ASSUME NEW i \in HistoryStages, NEW d \in Values \cup {None}
      PROVE  InHistory(i, d) \in Seq(Responses)
  <2>1. readHistory[i] # None => [ctx |-> readHistory[i], data |-> d] \in Responses
    BY <1>1 DEF Responses
  <2>2. QED
    BY <2>1, ShortSequences DEF InHistory
<1>5. /\ InRegister \in Seq(Responses)
      /\ InHistory(3, dqPipe[2]) \in Seq(Responses) /\ InHistory(2, dqPipe[1]) \in Seq(Responses)
  <2>1. 2 \in HistoryStages /\ 3 \in HistoryStages /\ 4 \in HistoryStages
    BY DEF HistoryStages
  <2>2. /\ dq_read \in Values \cup {None}
        /\ dqPipe[1] \in Values \cup {None} /\ dqPipe[2] \in Values \cup {None}
    BY <1>1
  <2>3. QED
    BY <1>4, <2>1, <2>2 DEF InRegister
<1>6. OnPins \in Seq(Responses)
  BY <1>2 DEF OnPins
<1>7. Arriving \in Seq(Responses)
  <2>1. backupIn # None => backupIn \in Responses
    BY <1>1 DEF backupIn, Responses, HistoryStages
  <2>2. QED
    BY <2>1, ShortSequences DEF Arriving
<1>8. Fifo!Contents \in Seq(Responses)
  BY ContentsInOrder DEF TypeOK
<1>9. QED
  BY <1>2, <1>3, <1>5, <1>6, <1>7, <1>8

\* The chain from its front: what the reader can see, then what is behind.
LEMMA OutstandingSplit ==
  ASSUME TypeOK, TasksLegal
  PROVE  /\ Flying \in Seq(Responses) /\ Behind \in Seq(Responses) /\ Ahead \in Seq(Responses)
         /\ AbstractOutstanding = Joined(Fifo!Contents, Joined(InRegister, Flying))
         /\ AbstractOutstanding = Joined(Ahead, Behind)
         /\ AbstractOutstanding \in Seq(Responses)
<1> DEFINE f == Fifo!Contents
           a == InRegister
           b == InHistory(3, dqPipe[2])
           c == InHistory(2, dqPipe[1])
           d == OnPins
           e == InTask
<1>1. /\ f \in Seq(Responses) /\ a \in Seq(Responses) /\ b \in Seq(Responses)
      /\ c \in Seq(Responses) /\ d \in Seq(Responses) /\ e \in Seq(Responses)
      /\ Arriving \in Seq(Responses)
  BY ChainTypes
<1>2. AbstractOutstanding = Joined(Joined(Joined(Joined(Joined(f, a), b), c), d), e)
  BY DEF AbstractOutstanding, InRegister, OnPins, InTask, Joined
<1>3. Arriving = IF remoteCke THEN a ELSE << >>
  <2>1. readHistory[4] # None => [ctx |-> readHistory[4], data |-> dq_read] # None
    BY NoneAssumption DEF TypeOK, ChipTypes, HistoryStages, Responses
  <2>2. QED
    BY <2>1 DEF Arriving, backupIn, InRegister, InHistory
<1>4. Flying = Joined(b, Joined(c, Joined(d, e)))
  BY DEF Flying
<1> HIDE DEF a, b, c, d, e, f
<1>5. /\ Joined(d, e) \in Seq(Responses) /\ Joined(c, Joined(d, e)) \in Seq(Responses)
      /\ Flying \in Seq(Responses) /\ Joined(a, Flying) \in Seq(Responses)
      /\ Joined(f, a) \in Seq(Responses) /\ Joined(Joined(f, a), b) \in Seq(Responses)
      /\ Joined(Joined(Joined(f, a), b), c) \in Seq(Responses)
  BY <1>1, <1>4, JoinedSeq
<1>6. AbstractOutstanding = Joined(Joined(f, a), Flying)
  <2>1. AbstractOutstanding = Joined(Joined(Joined(Joined(f, a), b), c), Joined(d, e))
    BY <1>1, <1>2, <1>5, JoinedAssociative
  <2>2. AbstractOutstanding = Joined(Joined(Joined(f, a), b), Joined(c, Joined(d, e)))
    BY <1>1, <1>5, <2>1, JoinedAssociative
  <2>3. QED
    BY <1>1, <1>4, <1>5, <2>2, JoinedAssociative
<1>7. AbstractOutstanding = Joined(f, Joined(a, Flying))
  BY <1>1, <1>5, <1>6, JoinedAssociative
<1>8. AbstractOutstanding = Joined(Ahead, Behind)
  <2>1. CASE remoteCke
    BY <1>3, <1>6, <2>1 DEF Ahead, Behind, f
  <2>2. CASE ~remoteCke
    BY <1>1, <1>3, <1>7, <2>2, JoinedEmpty DEF Ahead, Behind, f, a
  <2>3. QED
    BY <2>1, <2>2
<1>9. Ahead \in Seq(Responses) /\ Behind \in Seq(Responses) /\ AbstractOutstanding \in Seq(Responses)
  BY <1>1, <1>5, <1>8, JoinedSeq DEF Ahead, Behind, f, a
<1>10. QED
  BY <1>5, <1>7, <1>8, <1>9 DEF f, a

\* A clocked pipeline moves every read one stage on, with its data.
LEMMA StagesMove ==
  ASSUME TypeOK, BankInv, HistoryInv, Chip0!BootRules, clkEnable, NEW rsp_ready,
         Chip(issued, rsp_ready, Chip0!dq), Chip0!DeviceEdge
  PROVE  /\ InRegister' = InHistory(3, dqPipe[2])
         /\ InHistory(3, dqPipe[2])' = InHistory(2, dqPipe[1])
         /\ InHistory(2, dqPipe[1])' = OnPins
         /\ OnPins' = ReadOf(issued, OpenOfPins, CellsOfPins)
<1>1. remoteCke /\ TasksLegal
  BY DEF BankInv, ClocksAgree
<1>2. /\ readHistory'[1] = ReadContext(issued) /\ readHistory'[2] = readHistory[1]
      /\ readHistory'[3] = readHistory[2] /\ readHistory'[4] = readHistory[3]
      /\ pins' = issued /\ dq_read' = Chip0!dq
  BY <1>1 DEF Chip, HistoryStages
<1>3. dqPipe'[1] = Chip0!Fetched /\ dqPipe'[2] = dqPipe[1]
  BY DEF Chip0!DeviceEdge, Chip0!Execute, Chip0!MaxLatency
<1>4. readHistory[3] # None => Chip0!dq = dqPipe[2]
  BY NoneAssumption DEF HistoryInv, Chip0!dq, CasLatency
<1>5. InRegister' = InHistory(3, dqPipe[2])
  BY <1>2, <1>4 DEF InRegister, InHistory
<1>6. InHistory(3, dqPipe[2])' = InHistory(2, dqPipe[1])
  BY <1>2, <1>3 DEF InHistory
<1>7. InHistory(2, dqPipe[1])' = OnPins
  <2>1. CASE readHistory[1] = None
    BY <1>2, <2>1 DEF InHistory, OnPins
  <2>2. CASE readHistory[1] # None
    <3>1. pins # None /\ pins.task = "READ" /\ pins.ctx = readHistory[1]
      BY <2>2 DEF HistoryInv
    <3>2. open[pins.bank] # None
      BY <1>1, <3>1 DEF TasksLegal, LegalOn
    <3>3. dqPipe'[1] = cells[<<pins.bank, open[pins.bank], pins.arg>>]
      BY <1>3, <3>1, <3>2 DEF Chip0!Fetched, Chip0!IsOp, Chip0!Target
    <3>4. QED
      BY <1>2, <2>2, <3>1, <3>3 DEF InHistory, OnPins, ReadOf
  <2>3. QED
    BY <2>1, <2>2
<1>8. OnPins' = ReadOf(issued, OpenOfPins, CellsOfPins)
  <2>1. cells' = CellsOfPins /\ open' = OpenOfPins
    BY <1>1, PinsExecuted
  <2>2. issued # None /\ issued.task = "READ" => issued.ctx # None
    BY NoneAssumption DEF issued, TypeOK, FrontendTypes, TaskSet
  <2>3. readHistory'[1] = None <=> ~(issued # None /\ issued.task = "READ")
    BY <1>2, <2>2 DEF ReadContext
  <2>4. QED
    BY <1>2, <2>1, <2>3 DEF OnPins, ReadOf
<1>9. QED
  BY <1>5, <1>6, <1>7, <1>8

\* What the proofs use of the lemmas above in the state after a step.
LEMMA ChainFacts ==
  TypeOK /\ TasksLegal =>
    /\ InTask \in Seq(Responses)
    /\ OpenOfPins \in [Banks -> Rows \cup {None}]
    /\ AbstractOutstanding = Joined(Fifo!Contents, Joined(InRegister, Flying))
  BY ChainTypes, OutstandingSplit

\* Behind what the reader can see, the chain keeps its order; a read that the
\* frontend emits comes last.
LEMMA PipelineStep ==
  ASSUME TypeOK, TypeOK', BankInv, BankInv', HistoryInv, Chip0!BootRules,
         NEW cmd \in Cmds \cup {None}, NEW rsp_ready \in BOOLEAN, Cycle(cmd, rsp_ready)
  PROVE  /\ Joined(InRegister', Flying') = Joined(Behind, Entering)
         /\ Entering \in Seq(Responses)
<1> DEFINE a == InRegister
           b == InHistory(3, dqPipe[2])
           c == InHistory(2, dqPipe[1])
           d == OnPins
           e == InTask
           n == InTask'
<1>1. /\ a \in Seq(Responses) /\ b \in Seq(Responses) /\ c \in Seq(Responses)
      /\ d \in Seq(Responses) /\ e \in Seq(Responses) /\ << >> \in Seq(Responses)
      /\ OpenOfPins \in [Banks -> Rows \cup {None}] /\ Flying \in Seq(Responses)
  BY ChainTypes, OutstandingSplit DEF BankInv
<1>2. n \in Seq(Responses)
  <2>1. (TypeOK /\ TasksLegal =>
          /\ InTask \in Seq(Responses)
          /\ OpenOfPins \in [Banks -> Rows \cup {None}]
          /\ AbstractOutstanding = Joined(Fifo!Contents, Joined(InRegister, Flying)))'
    BY ChainFacts, PTL
  <2>2. QED
    BY <2>1 DEF BankInv
<1>3. /\ Frontend(cmd, rspReady) /\ Chip(issued, rsp_ready, Chip0!dq) /\ Chip0!DeviceEdge
      /\ ClocksAgree
  BY DEF Cycle, Clock, BankInv
<1>4. ~rspReady => rData' = rData
  BY <1>3 DEF Frontend, Stalled
<1>5. /\ Flying = Joined(b, Joined(c, Joined(d, e)))
      /\ Flying' = Joined(b', Joined(c', Joined(d', n)))
  BY DEF Flying
<1>6. CASE clkEnable
  <2>1. a' = b /\ b' = c /\ c' = d /\ d' = ReadOf(issued, OpenOfPins, CellsOfPins)
    BY <1>3, <1>6, StagesMove
  <2>2. Behind = Flying
    BY <1>3, <1>6 DEF Behind, ClocksAgree
  <2>3. CASE rspReady
    <3>1. issued = rData
      BY <1>3, <1>6, <2>3 DEF ClocksAgree, issued, rspReady, taskTaken, insertBubble
    <3>2. d' = e /\ Entering = n
      BY <2>1, <2>3, <3>1 DEF InTask, Entering
    <3>3. Joined(InRegister', Flying') = Joined(b, Joined(c, Joined(d, Joined(e, n))))
      BY <1>5, <2>1, <3>2
    <3> HIDE DEF a, b, c, d, e, n
    <3>4. Joined(d, e) \in Seq(Responses) /\ Joined(c, Joined(d, e)) \in Seq(Responses)
      BY <1>1, JoinedSeq
    <3>5. Joined(d, Joined(e, n)) = Joined(Joined(d, e), n)
      BY <1>1, <1>2, JoinedAssociative
    <3>6. Joined(c, Joined(Joined(d, e), n)) = Joined(Joined(c, Joined(d, e)), n)
      BY <1>1, <1>2, <3>4, JoinedAssociative
    <3>7. Joined(b, Joined(Joined(c, Joined(d, e)), n)) = Joined(Flying, n)
      BY <1>1, <1>2, <1>5, <3>4, JoinedAssociative
    <3>8. QED
      BY <1>2, <2>2, <3>2, <3>3, <3>5, <3>6, <3>7
  <2>4. CASE ~rspReady
    <3>1. issued = None /\ pins' = None /\ rData' = rData
      BY <1>3, <1>4, <1>6, <2>4 DEF Chip, ClocksAgree, issued, rspReady, taskTaken, insertBubble
    <3>2. cells' = CellsOfPins /\ open' = OpenOfPins
      BY <1>3, <1>6, PinsExecuted DEF BankInv
    <3>3. OpenOfPins' = OpenOfPins /\ CellsOfPins' = CellsOfPins
      BY <1>1, <3>1, <3>2, NothingAfterNone DEF OpenOfPins, CellsOfPins
    <3>4. d' = << >> /\ n = e /\ Entering = << >>
      BY <2>1, <2>4, <3>1, <3>3, NothingAfterNone DEF InTask, Entering
    <3>5. Joined(InRegister', Flying') = Joined(b, Joined(c, Joined(d, Joined(<< >>, e))))
      BY <1>5, <2>1, <3>4
    <3> HIDE DEF a, b, c, d, e, n
    <3>6. Joined(<< >>, e) = e /\ Joined(Flying, << >>) = Flying
      BY <1>1, JoinedEmpty
    <3>7. QED
      BY <1>1, <1>5, <2>2, <3>4, <3>5, <3>6
  <2>5. QED
    BY <2>3, <2>4
<1>7. CASE ~clkEnable
  <2>1. /\ UNCHANGED <<readHistory, pins, dq_read, open, cells, dqPipe>>
        /\ rspReady => rData = None
    BY <1>3, <1>7 DEF Chip, Chip0!DeviceEdge, ClocksAgree, rspReady, taskTaken
  <2>2. a' = a /\ b' = b /\ c' = c /\ d' = d
    BY <2>1 DEF InRegister, InHistory, OnPins, ReadOf
  <2>3. OpenOfPins' = OpenOfPins /\ CellsOfPins' = CellsOfPins
    BY <2>1 DEF OpenOfPins, CellsOfPins, OpenAfter, CellsAfter
  <2>4. Behind = Joined(a, Flying)
    BY <1>3, <1>7 DEF Behind, ClocksAgree
  <2>5. Joined(InRegister', Flying') = Joined(a, Joined(b, Joined(c, Joined(d, n))))
    BY <1>5, <2>2
  <2>6. CASE rspReady
    <3>1. e = << >> /\ Entering = n
      BY <2>1, <2>6, NothingAfterNone DEF InTask, Entering
    <3> HIDE DEF a, b, c, d, e, n
    <3>2. Joined(d, e) = d
      BY <1>1, <3>1, JoinedEmpty
    <3>3. Joined(c, d) \in Seq(Responses) /\ Joined(b, Joined(c, d)) \in Seq(Responses)
      BY <1>1, JoinedSeq
    <3>4. Joined(c, Joined(d, n)) = Joined(Joined(c, d), n)
      BY <1>1, <1>2, JoinedAssociative
    <3>5. Joined(b, Joined(Joined(c, d), n)) = Joined(Joined(b, Joined(c, d)), n)
      BY <1>1, <1>2, <3>3, JoinedAssociative
    <3>6. Joined(a, Joined(Joined(b, Joined(c, d)), n)) = Joined(Joined(a, Joined(b, Joined(c, d))), n)
      BY <1>1, <1>2, <3>3, JoinedAssociative
    <3>7. QED
      BY <1>2, <1>5, <2>4, <2>5, <3>1, <3>2, <3>4, <3>5, <3>6
  <2>7. CASE ~rspReady
    <3>1. n = e /\ Entering = << >>
      BY <1>4, <2>3, <2>7 DEF InTask, Entering
    <3> HIDE DEF a, b, c, d, e, n
    <3>2. Joined(Joined(a, Flying), << >>) = Joined(a, Flying)
      BY <1>1, JoinedSeq, JoinedEmpty
    <3>3. QED
      BY <1>1, <1>5, <2>4, <2>5, <3>1, <3>2
  <2>8. QED
    BY <2>6, <2>7
<1>8. QED
  BY <1>6, <1>7

\* The memory and the open rows, seen from the task register.
LEMMA MemoryMoves ==
  ASSUME TypeOK, BankInv, NEW cmd \in Cmds \cup {None}, NEW rsp_ready \in BOOLEAN,
         Cycle(cmd, rsp_ready)
  PROVE  /\ rspReady => OpenOfPins' = RowsInUse /\ CellsOfPins' = AbstractMem
         /\ ~rspReady => AbstractMem' = AbstractMem
<1>1. /\ Frontend(cmd, rspReady) /\ Chip(issued, rsp_ready, Chip0!dq) /\ Chip0!DeviceEdge
      /\ ClocksAgree /\ TasksLegal /\ OpenAfter(rData, OpenOfPins) = RowsInUse
      /\ OpenOfPins \in [Banks -> Rows \cup {None}]
  BY ChainTypes DEF Cycle, Clock, BankInv, RowsKnown, OpenOfPins
<1>2. CASE rspReady
  <2>1. CASE clkEnable
    <3>1. pins' = rData
      BY <1>1, <1>2, <2>1 DEF Chip, ClocksAgree, issued, rspReady, taskTaken, insertBubble
    <3>2. cells' = CellsOfPins /\ open' = OpenOfPins
      BY <1>1, <2>1, PinsExecuted
    <3>3. QED
      BY <1>1, <1>2, <3>1, <3>2 DEF OpenOfPins, CellsOfPins, AbstractMem
  <2>2. CASE ~clkEnable
    <3>1. rData = None /\ UNCHANGED <<pins, open, cells>>
      BY <1>1, <1>2, <2>2 DEF Chip, Chip0!DeviceEdge, ClocksAgree, rspReady, taskTaken
    <3>2. OpenOfPins' = OpenOfPins /\ CellsOfPins' = CellsOfPins
      BY <3>1 DEF OpenOfPins, CellsOfPins, OpenAfter, CellsAfter
    <3>3. AbstractMem = CellsOfPins /\ OpenOfPins = RowsInUse
      BY <1>1, <3>1, NothingAfterNone DEF AbstractMem
    <3>4. QED
      BY <1>2, <3>2, <3>3
  <2>3. QED
    BY <2>1, <2>2
<1>3. CASE ~rspReady
  <2>1. rData' = rData
    BY <1>1, <1>3 DEF Frontend, Stalled
  <2>2. OpenOfPins' = OpenOfPins /\ CellsOfPins' = CellsOfPins
    <3>1. CASE clkEnable
      <4>1. pins' = None
        BY <1>1, <1>3, <3>1 DEF Chip, ClocksAgree, issued, rspReady, taskTaken, insertBubble
      <4>2. cells' = CellsOfPins /\ open' = OpenOfPins
        BY <1>1, <3>1, PinsExecuted
      <4>3. QED
        BY <1>1, <4>1, <4>2, NothingAfterNone DEF OpenOfPins, CellsOfPins
    <3>2. CASE ~clkEnable
      <4>1. UNCHANGED <<pins, open, cells>>
        BY <1>1, <3>2 DEF Chip, Chip0!DeviceEdge, ClocksAgree
      <4>2. QED
        BY <4>1 DEF OpenOfPins, CellsOfPins, OpenAfter, CellsAfter
    <3>3. QED
      BY <3>1, <3>2
  <2>3. QED
    BY <1>3, <2>1, <2>2 DEF AbstractMem
<1>4. QED
  BY <1>2, <1>3

\* The chain loses the response that is taken, and nothing else.
LEMMA OutstandingStep ==
  ASSUME TypeOK, TypeOK', BankInv, BankInv', HistoryInv, Chip0!BootRules, NoReadDataLost,
         NEW cmd \in Cmds \cup {None}, NEW rsp_ready \in BOOLEAN, Cycle(cmd, rsp_ready)
  PROVE  /\ AbstractOutstanding' = Joined(StillOutstanding, Entering)
         /\ StillOutstanding \in Seq(Responses) /\ Entering \in Seq(Responses)
         /\ StillOutstanding \in Port!Returned(AbstractOutstanding)
<1>1. /\ Ahead \in Seq(Responses) /\ Behind \in Seq(Responses)
      /\ AbstractOutstanding = Joined(Ahead, Behind) /\ AbstractOutstanding \in Seq(Responses)
  BY OutstandingSplit DEF BankInv
<1>2. AbstractOutstanding' = Joined(Fifo!Contents', Joined(InRegister', Flying'))
  <2>1. (TypeOK /\ TasksLegal =>
          /\ InTask \in Seq(Responses)
          /\ OpenOfPins \in [Banks -> Rows \cup {None}]
          /\ AbstractOutstanding = Joined(Fifo!Contents, Joined(InRegister, Flying)))'
    BY ChainFacts, PTL
  <2>2. AbstractOutstanding' = Joined(Fifo!Contents, Joined(InRegister, Flying))'
    BY <2>1 DEF BankInv
  <2>3. QED
    BY <2>2
<1>3. Joined(InRegister', Flying') = Joined(Behind, Entering) /\ Entering \in Seq(Responses)
  BY PipelineStep
<1>4. /\ RspValid <=> Ahead # << >>
      /\ popPtr' # popPtr => RspValid /\ Fifo!Contents' = Tail(Ahead)
      /\ popPtr' = popPtr => Fifo!Contents' = Ahead
  BY FifoMoves DEF Cycle, Clock, TypeOK
<1>5. CASE popPtr' # popPtr
  <2> DEFINE rest == Tail(Ahead)
  <2>1. Ahead # << >> /\ rest \in Seq(Responses) /\ Fifo!Contents' = rest
    BY <1>1, <1>4, <1>5, HeadTailProperties
  <2>2. Tail(AbstractOutstanding) = Joined(rest, Behind) /\ AbstractOutstanding # << >>
    BY <1>1, <2>1, JoinedTail
  <2> HIDE DEF rest
  <2>3. StillOutstanding = Joined(rest, Behind)
    BY <1>5, <2>2 DEF StillOutstanding
  <2>4. Joined(rest, Joined(Behind, Entering)) = Joined(Joined(rest, Behind), Entering)
    BY <1>1, <1>3, <2>1, JoinedAssociative
  <2>5. StillOutstanding \in Seq(Responses)
    BY <1>1, <2>1, <2>3, JoinedSeq
  <2>6. StillOutstanding \in Port!Returned(AbstractOutstanding)
    BY <1>5, <2>2 DEF Port!Returned, StillOutstanding
  <2>7. QED
    BY <1>2, <1>3, <2>1, <2>3, <2>4, <2>5, <2>6
<1>6. CASE popPtr' = popPtr
  <2>1. StillOutstanding = AbstractOutstanding
    BY <1>6 DEF StillOutstanding
  <2>2. Joined(Ahead, Joined(Behind, Entering)) = Joined(Joined(Ahead, Behind), Entering)
    BY <1>1, <1>3, JoinedAssociative
  <2>3. QED
    BY <1>1, <1>2, <1>3, <1>4, <1>6, <2>1, <2>2 DEF Port!Returned
<1>7. QED
  BY <1>5, <1>6

\* No more than six reads are outstanding when a seventh is accepted.
LEMMA RoomForARead ==
  ASSUME TypeOK, TasksLegal, BackupRoom, rspReady
  PROVE  Len(AbstractOutstanding) < 7
<1> DEFINE f == Fifo!Contents
           a == InRegister
           b == InHistory(3, dqPipe[2])
           c == InHistory(2, dqPipe[1])
           d == OnPins
           e == InTask
<1>1. \A x : Size(<<x>>) = 1 /\ Size(<< >>) = 0
  BY DEF Size
<1>2. /\ a \in Seq(Responses) /\ b \in Seq(Responses) /\ c \in Seq(Responses)
      /\ d \in Seq(Responses) /\ e \in Seq(Responses) /\ f \in Seq(Responses)
      /\ Flying \in Seq(Responses) /\ AbstractOutstanding = Joined(f, Joined(a, Flying))
  BY ChainTypes, OutstandingSplit
<1>3. /\ Size(a) \in 0..1 /\ Size(b) \in 0..1 /\ Size(c) \in 0..1 /\ Size(d) \in 0..1 /\ Size(e) \in 0..1
      /\ Size(f) = Fifo!Occupancy
  <2>1. Size(f) = Fifo!Occupancy
    BY DEF Size, Fifo!Contents, Fifo!Occupancy
  <2>2. QED
    BY <1>1, <2>1 DEF InRegister, InHistory, OnPins, InTask, ReadOf
<1>4. Size(AbstractOutstanding) = Size(f) + Size(a) + Size(b) + Size(c) + Size(d) + Size(e)
  <2>1. Flying = Joined(b, Joined(c, Joined(d, e)))
    BY DEF Flying
  <2> HIDE DEF a, b, c, d, e, f
  <2>2. Joined(d, e) \in Seq(Responses) /\ Size(Joined(d, e)) = Size(d) + Size(e)
    BY <1>2, JoinedSize
  <2>3. /\ Joined(c, Joined(d, e)) \in Seq(Responses)
        /\ Size(Joined(c, Joined(d, e))) = Size(c) + (Size(d) + Size(e))
    BY <1>2, JoinedSize, <2>2
  <2>4. Size(Flying) = Size(b) + (Size(c) + (Size(d) + Size(e)))
    BY <1>2, JoinedSize, <2>1, <2>3
  <2>5. Joined(a, Flying) \in Seq(Responses) /\ Size(Joined(a, Flying)) = Size(a) + Size(Flying)
    BY <1>2, JoinedSize
  <2>6. Size(AbstractOutstanding) = Size(f) + (Size(a) + Size(Flying))
    BY <1>2, JoinedSize, <2>5
  <2>7. Size(a) \in Nat /\ Size(b) \in Nat /\ Size(c) \in Nat /\ Size(d) \in Nat /\ Size(e) \in Nat
        /\ Size(f) \in Nat
    BY <1>2, JoinedSize
  <2>8. QED
    BY <2>4, <2>6, <2>7
<1>5. Fifo!Occupancy \in 0..2
  BY DEF Fifo!Occupancy
<1> SUFFICES Size(AbstractOutstanding) < 7
  BY DEF Size
<1>6. CASE rData = None
  <2>1. Size(e) = 0
    BY <1>1, <1>6 DEF InTask, ReadOf
  <2> HIDE DEF a, b, c, d, e, f
  <2>2. QED
    BY <1>3, <1>4, <1>5, <2>1
<1>7. CASE rData # None
  <2>1. remoteCke
    BY <1>7 DEF rspReady, taskTaken
  <2>2. Size(f) + Size(a) <= 2
    <3>1. PushNow \in {0, 1} /\ PushNext \in {0, 1}
      BY DEF PushNow, PushNext
    <3>2. Size(a) = 1 => PushNow = 1
      <4>1. readHistory[4] # None => [ctx |-> readHistory[4], data |-> dq_read] # None
        BY NoneAssumption DEF TypeOK, ChipTypes, HistoryStages, Responses
      <4>2. QED
        BY <1>1, <2>1, <4>1 DEF InRegister, InHistory, PushNow, backupIn
    <3> HIDE DEF a, f
    <3>3. QED
      BY <1>3, <1>5, <3>1, <3>2 DEF BackupRoom
  <2> HIDE DEF a, b, c, d, e, f
  <2>3. QED
    BY <1>3, <1>4, <1>5, <2>2
<1>8. QED
  BY <1>6, <1>7

(***************************************************************************)
(* Which step of the port a cycle is.                                      *)
(***************************************************************************)
\* What the steps of the chain rest on, where the frontend knows the open rows.
PipeInv == TypeOK /\ BankInv /\ BootInv /\ HistoryInv /\ RoomInv

\* A cycle of the controller is a step of the abstract port as far as the
\* reads are concerned: the port returns what is no longer outstanding and
\* takes what enters; memory and rows change only while the clock runs.
LEMMA ChainStep ==
  ASSUME PipeInv, PipeInv', NEW cmd \in Cmds \cup {None}, NEW rsp_ready \in BOOLEAN,
         Cycle(cmd, rsp_ready)
  PROVE  /\ AbstractOutstanding' = Joined(StillOutstanding, Entering)
         /\ StillOutstanding \in Seq(Responses) /\ Entering \in Seq(Responses)
         /\ StillOutstanding \in Port!Returned(AbstractOutstanding)
         /\ rspReady => OpenOfPins' = RowsInUse /\ CellsOfPins' = AbstractMem
         /\ ~rspReady => AbstractMem' = AbstractMem /\ Entering = << >>
<1>1. TypeOK /\ TypeOK' /\ BankInv /\ BankInv' /\ HistoryInv /\ Chip0!BootRules /\ NoReadDataLost
  BY RoomImpliesNoReadDataLost DEF PipeInv, BootInv
<1>2. /\ AbstractOutstanding' = Joined(StillOutstanding, Entering)
      /\ StillOutstanding \in Seq(Responses) /\ Entering \in Seq(Responses)
      /\ StillOutstanding \in Port!Returned(AbstractOutstanding)
  BY <1>1, OutstandingStep
<1>3. /\ rspReady => OpenOfPins' = RowsInUse /\ CellsOfPins' = AbstractMem
      /\ ~rspReady => AbstractMem' = AbstractMem
  BY <1>1, MemoryMoves
<1>4. ~rspReady => Entering = << >>
  BY DEF Entering
<1>5. QED
  BY <1>2, <1>3, <1>4

\* A command that is taken reads or writes the memory at its own address.
LEMMA AccessPerforms ==
  ASSUME PipeInv, PipeInv', NEW cmd \in Cmds, NEW rsp_ready \in BOOLEAN,
         Cycle(cmd, rsp_ready), Taken(cmd)
  PROVE  Performed(cmd)
<1> DEFINE address == <<cmd.bank, cmd.row, cmd.col>>
<1>1. /\ rspReady /\ state = "RUN" /\ active[cmd.bank] /\ row[cmd.bank] = cmd.row
      /\ rData' = IF cmd.write THEN Task("WRITE", cmd.bank, cmd.col, cmd.data, None)
                               ELSE Task("READ", cmd.bank, cmd.col, None, cmd.ctx)
  BY DEF Taken, Access, Serving, RowHit, Emit
<1>2. cmd.bank \in Banks /\ RowsInUse[cmd.bank] = cmd.row
  BY <1>1, TasksOfCommands DEF RowsInUse
<1>3. /\ AbstractOutstanding' = Joined(StillOutstanding, Entering)
      /\ StillOutstanding \in Seq(Responses) /\ Entering \in Seq(Responses)
      /\ OpenOfPins' = RowsInUse /\ CellsOfPins' = AbstractMem
  BY <1>1, ChainStep
<1>4. /\ AbstractMem' = CellsAfter(rData', RowsInUse, AbstractMem)
      /\ Entering = ReadOf(rData', RowsInUse, AbstractMem)
  BY <1>1, <1>3 DEF AbstractMem, Entering, InTask
<1>5. rData' # None
  BY <1>1, TasksOfCommands, NoneAssumption
<1>6. CASE cmd.write
  <2>1. rData' = Task("WRITE", cmd.bank, cmd.col, cmd.data, None)
    BY <1>1, <1>6
  <2>2. rData'.task = "WRITE" /\ rData'.bank = cmd.bank /\ rData'.arg = cmd.col /\ rData'.data = cmd.data
    BY <2>1 DEF Task
  <2>3. AbstractMem' = IF cmd.data = None THEN AbstractMem
                       ELSE [AbstractMem EXCEPT ![address] = cmd.data]
    BY <1>2, <1>4, <1>5, <2>2 DEF CellsAfter
  <2>4. Entering = << >>
    BY <1>4, <2>2 DEF ReadOf
  <2>5. AbstractOutstanding' = StillOutstanding
    BY <1>3, <2>4, JoinedEmpty
  <2>6. QED
    BY <1>6, <2>3, <2>5 DEF Performed, Port!Write
<1>7. CASE ~cmd.write
  <2>1. rData' = Task("READ", cmd.bank, cmd.col, None, cmd.ctx)
    BY <1>1, <1>7
  <2>2. rData'.task = "READ" /\ rData'.bank = cmd.bank /\ rData'.arg = cmd.col /\ rData'.ctx = cmd.ctx
    BY <2>1 DEF Task
  <2> DEFINE response == [ctx |-> cmd.ctx, data |-> AbstractMem[address]]
  <2>3. AbstractMem' = AbstractMem
    BY <1>4, <2>2 DEF CellsAfter
  <2>4. Entering = <<response>>
    BY <1>2, <1>4, <1>5, <2>2 DEF ReadOf
  <2>5. Len(AbstractOutstanding) < 7
    BY <1>1, RoomForARead DEF PipeInv, BankInv, RoomInv
  <2>6. AbstractOutstanding' = Append(StillOutstanding, response)
    <3> HIDE DEF response
    <3>1. response \in Responses
      BY <1>3, <2>4
    <3>2. Append(StillOutstanding, response) = StillOutstanding \o <<response>>
      BY <1>3, <3>1, AppendIsConcat
    <3>3. QED
      BY <1>3, <2>4, <3>2 DEF Joined
  <2>7. QED
    BY <1>7, <2>3, <2>5, <2>6 DEF Performed, Port!Read
<1>8. QED
  BY <1>6, <1>7

\* A frontend that takes no command emits nothing, or a task that is no access.
LEMMA OtherTasks ==
  ASSUME NEW cmd, Frontend(cmd, TRUE), ~Access(cmd)
  PROVE  rData' = None \/ rData'.task \notin {"READ", "WRITE"}
<1> USE DEF Emit, Task
<1>1. CASE Powerup
  BY <1>1 DEF Powerup
<1>2. CASE BootPrecharge
  BY <1>2 DEF BootPrecharge
<1>3. CASE BootRefresh
  BY <1>3 DEF BootRefresh
<1>4. CASE BootMode
  BY <1>4 DEF BootMode
<1>5. CASE RefreshPrecharge
  BY <1>5 DEF RefreshPrecharge
<1>6. CASE Refresh
  BY <1>6 DEF Refresh
<1>7. CASE Precharge(cmd)
  BY <1>7 DEF Precharge
<1>8. CASE Activate(cmd)
  BY <1>8 DEF Activate
<1>9. CASE Idle(cmd)
  BY <1>9 DEF Idle
<1>10. QED
  BY <1>1, <1>2, <1>3, <1>4, <1>5, <1>6, <1>7, <1>8, <1>9 DEF Frontend

\* A cycle in which no command is taken leaves the memory alone and accepts no
\* read.
LEMMA OtherwiseNothing ==
  ASSUME PipeInv, PipeInv', NEW cmd \in Cmds \cup {None}, NEW rsp_ready \in BOOLEAN,
         Cycle(cmd, rsp_ready), ~Taken(cmd)
  PROVE  Port!NoCommand(StillOutstanding)
<1>1. /\ AbstractOutstanding' = Joined(StillOutstanding, Entering)
      /\ StillOutstanding \in Seq(Responses)
      /\ rspReady => OpenOfPins' = RowsInUse /\ CellsOfPins' = AbstractMem
      /\ ~rspReady => AbstractMem' = AbstractMem /\ Entering = << >>
  BY ChainStep
<1>2. CASE rspReady
  <2>1. rData' = None \/ rData'.task \notin {"READ", "WRITE"}
    <3>1. Frontend(cmd, TRUE) /\ ~Access(cmd)
      BY <1>2 DEF Cycle, Clock, Taken, Frontend
    <3>2. QED
      BY <3>1, OtherTasks
  <2>2. AbstractMem' = AbstractMem /\ Entering = << >>
    BY <1>1, <1>2, <2>1 DEF AbstractMem, Entering, InTask, CellsAfter, ReadOf
  <2>3. QED
    BY <1>1, <2>2, JoinedEmpty DEF Port!NoCommand
<1>3. CASE ~rspReady
  BY <1>1, <1>3, JoinedEmpty DEF Port!NoCommand
<1>4. QED
  BY <1>2, <1>3

\* A read enters the history with the task on the pins; when it moves on, the chip
\* has been told the latency of its data.
LEMMA HistoryInvInductive ==
  TypeOK /\ ResetInv /\ BootInv /\ HistoryInv /\ [Next \/ Reset]_vars => HistoryInv'
<1> SUFFICES ASSUME TypeOK, ResetInv, BootInv, HistoryInv, [Next \/ Reset]_vars
             PROVE  HistoryInv'
  OBVIOUS
<1>1. CASE Next
  <2>1. PICK cmd \in Cmds \cup {None}, rsp_ready \in BOOLEAN : Cycle(cmd, rsp_ready)
    BY <1>1 DEF Next, Offers
  <2>2. CASE ~powerup_done
    <3>1. readHistory' = [i \in HistoryStages |-> None]
      BY <2>1, <2>2, PowerupStep
    <3>2. QED
      BY <3>1 DEF HistoryInv, HistoryStages
  <2>3. CASE powerup_done
    <3>1. /\ ClocksAgree /\ Chip(issued, rsp_ready, Chip0!dq) /\ Chip0!DeviceEdge
          /\ mode \in {None, CasLatency} /\ pins \in TaskSet \cup {None}
      BY <2>1, <2>3 DEF Cycle, Clock, ResetInv, TypeOK, DeviceTypes, ChipTypes
    <3>2. CASE clkEnable
      <4>1. /\ readHistory' = [i \in HistoryStages |->
                                 IF i = 1 THEN ReadContext(issued) ELSE readHistory[i - 1]]
            /\ pins' = issued /\ mode' = IF Chip0!IsOp("MODE") THEN pins.arg ELSE mode
        BY <3>1, <3>2, Zenon DEF Chip, ClocksAgree, Chip0!DeviceEdge, Chip0!Execute
      <4>2. /\ readHistory'[1] = ReadContext(issued) /\ readHistory'[2] = readHistory[1]
            /\ readHistory'[3] = readHistory[2]
        BY <4>1 DEF HistoryStages
      <4>3. readHistory[1] # None => mode = CasLatency
        BY <3>1 DEF HistoryInv, BootInv, Chip0!BootRules, Chip0!IsOp
      <4>4. mode = CasLatency => mode' = CasLatency
        BY <3>1, <4>1 DEF Chip0!IsOp, TaskSet
      <4>5. QED
        BY <4>1, <4>2, <4>3, <4>4 DEF HistoryInv, ReadContext
    <3>3. CASE ~clkEnable
      <4>1. UNCHANGED <<readHistory, pins, mode>>
        BY <3>1, <3>3 DEF Chip, ClocksAgree, Chip0!DeviceEdge
      <4>2. QED
        BY <4>1 DEF HistoryInv
    <3>4. QED
      BY <3>2, <3>3
  <2>4. QED
    BY <2>2, <2>3
<1>2. CASE Reset
  <2>1. readHistory' = [i \in HistoryStages |-> None]
    BY <1>2 DEF Reset, CtrlReset
  <2>2. QED
    BY <2>1 DEF HistoryInv, HistoryStages
<1>3. CASE UNCHANGED vars
  BY <1>3 DEF vars, ctrlVars, chipVars, deviceVars, HistoryInv
<1>4. QED
  BY <1>1, <1>2, <1>3

\* The history variables start as the invariant says.
LEMMA InitialHistoryInv == Init => HistoryInv
  BY DEF Init, CtrlInit, HistoryInv, HistoryStages

\* The boot sequence with resets, as an invariant.
LEMMA BootInvAlways == ResetSpec => []BootInv
  BY TypesCorrect, ResetsForgiven, InitialBootInv, BootInvInductive, PTL DEF ResetSpec

\* What the read pipeline rests on holds, also with a reset at any moment.
LEMMA HistoryInvAlways == ResetSpec => []HistoryInv
  BY TypesCorrect, ResetsForgiven, BootInvAlways, InitialHistoryInv, HistoryInvInductive, PTL
     DEF ResetSpec

\* In RUN the frontend knows what the chip has open.
LEMMA RunKnowsRows ==
  ASSUME TypeOK, ResetInv, state = "RUN"
  PROVE  BankInv
<1>1. powerup_done
  BY DEF ResetInv, PowerupQuiet, TypeOK, TimerTypes
<1>2. QED
  BY <1>1 DEF ResetInv, BankInv

\* What holds at every moment, with resets.
AlwaysInv == TypeOK /\ ResetInv /\ BootInv /\ HistoryInv /\ RoomInv

\* The invariant holds in every reachable state, resets included.
LEMMA AlwaysInvHolds == ResetSpec => []AlwaysInv
  BY TypesCorrect, ResetsForgiven, BootInvAlways, HistoryInvAlways, RoomKept, PTL DEF AlwaysInv

\* A cycle in RUN performs the command that is taken, whichever command made it
\* the cycle it is, and nothing when none is taken.
LEMMA RunPerforms ==
  ASSUME AlwaysInv, AlwaysInv', Next, state = "RUN"
  PROVE  LET commands == Offers \ {None}
         IN  /\ \A cmd \in commands : Taken(cmd) => Performed(cmd)
             /\ (\A cmd \in commands : ~Taken(cmd)) => Port!NoCommand(StillOutstanding)
<1> DEFINE commands == Offers \ {None}
<1>1. PICK c0 \in Offers, rsp_ready \in BOOLEAN : Cycle(c0, rsp_ready)
  BY DEF Next
<1>2. commands \subseteq Cmds /\ Offers \subseteq Cmds \cup {None}
  BY DEF Offers
<1>3. BankInv /\ BankInv'
  <2>1. BankInv
    BY RunKnowsRows DEF AlwaysInv
  <2>2. QED
    BY <1>1, <1>2, <2>1, CycleKeepsBankInv DEF AlwaysInv
<1>4. PipeInv /\ PipeInv'
  BY <1>3 DEF AlwaysInv, PipeInv
<1>5. ASSUME NEW cmd \in commands, Taken(cmd)
      PROVE  Performed(cmd)
  <2>1. Frontend(cmd, rspReady)
    BY <1>5 DEF Taken, Frontend
  <2>2. Cycle(cmd, rsp_ready)
    BY <1>1, <2>1 DEF Cycle, Clock
  <2>3. QED
    BY <1>2, <1>4, <1>5, <2>2, AccessPerforms
<1>6. ASSUME \A cmd \in commands : ~Taken(cmd)
      PROVE  Port!NoCommand(StillOutstanding)
  <2>1. ~Taken(c0)
    BY <1>6 DEF Taken, Access, Serving
  <2>2. QED
    BY <1>1, <1>2, <1>4, <2>1, OtherwiseNothing
<1>7. QED
  BY <1>5, <1>6

\* Every command that is taken in RUN is performed at its own address, every read
\* answered once and in its turn, also after any number of resets.
THEOREM CommandsAlwaysPerformed == ResetSpec => CommandsPerformed
<1> DEFINE Correct ==
      state = "RUN" /\ ~Reset =>
        LET commands == Offers \ {None}
        IN  /\ \A cmd \in commands : Taken(cmd) => Performed(cmd)
            /\ (\A cmd \in commands : ~Taken(cmd)) => Port!NoCommand(StillOutstanding)
<1>1. AlwaysInv /\ AlwaysInv' /\ [Next \/ Reset]_vars => [Correct]_vars
  <2> SUFFICES ASSUME AlwaysInv, AlwaysInv', Next, state = "RUN"
               PROVE  Correct
    OBVIOUS
  <2>1. QED
    BY RunPerforms
<1>2. QED
  BY <1>1, AlwaysInvHolds, PTL DEF ResetSpec, CommandsPerformed

(***************************************************************************)
(* SdramCtrl with its chip implements MemoryPort.                          *)
(***************************************************************************)
\* Without resets the clocks always agree and the rows are always known.
LEMMA PipeInvHolds == Spec => []PipeInv
<1>1. [Next]_vars => [Next \/ Reset]_vars
  OBVIOUS
<1>2. Spec => []AlwaysInv
  BY <1>1, AlwaysInvHolds, PTL DEF Spec, ResetSpec
<1>3. AlwaysInv /\ BankInv => PipeInv
  BY DEF AlwaysInv, PipeInv
<1>4. QED
  BY <1>2, <1>3, TasksAlwaysLegal, PTL

\* What Performed says is a step of the port.
LEMMA PerformedIsStep ==
  ASSUME NEW cmd \in Cmds, Performed(cmd),
         StillOutstanding \in Port!Returned(AbstractOutstanding)
  PROVE  Port!PortNext
<1> DEFINE address == <<cmd.bank, cmd.row, cmd.col>>
<1>1. address \in Banks \X Rows \X Cols
  <2>1. cmd.bank \in Banks /\ cmd.row \in Rows /\ cmd.col \in Cols
    BY DEF Cmds, ReadCmds, WriteCmds
  <2>2. QED
    BY <2>1
<1>2. CASE cmd.write
  <2>1. cmd.data \in Values \cup {None} /\ Port!Write(address, cmd.data, StillOutstanding)
    BY <1>2 DEF Performed, Cmds, ReadCmds, WriteCmds
  <2>2. QED
    BY <1>1, <2>1 DEF Port!PortNext
<1>3. CASE ~cmd.write
  <2>1. cmd.ctx \in Contexts /\ Port!Read(address, cmd.ctx, StillOutstanding)
    BY <1>3 DEF Performed, Cmds, ReadCmds, WriteCmds
  <2>2. QED
    BY <1>1, <2>1 DEF Port!PortNext
<1>4. QED
  BY <1>2, <1>3

\* Before the boot sequence nothing is outstanding.
LEMMA InitialPort == Init => Port!PortInit
<1> SUFFICES ASSUME Init
             PROVE  Port!PortInit
  OBVIOUS
<1>1. /\ rData = None /\ pins = None /\ cells \in [Banks \X Rows \X Cols -> Values]
      /\ \A i \in HistoryStages : readHistory[i] = None
      /\ Fifo!Contents = << >>
  BY DEF Init, CtrlInit, Chip0!DeviceInit, Chip0!Cells, Fifo!Init, Fifo!Contents, Fifo!empty,
         Fifo!ptrMatch
<1>2. AbstractMem \in [Banks \X Rows \X Cols -> Values]
  BY <1>1 DEF AbstractMem, CellsOfPins, CellsAfter
<1>3. AbstractOutstanding = << >>
  <2>1. InTask = << >> /\ OnPins = << >> /\ \A d : \A i \in HistoryStages : InHistory(i, d) = << >>
    BY <1>1 DEF InTask, OnPins, ReadOf, InHistory, HistoryStages
  <2>2. AbstractOutstanding = << >> \o << >> \o << >> \o << >> \o << >> \o << >>
    BY <1>1, <2>1 DEF AbstractOutstanding, InTask, OnPins, HistoryStages
  <2>3. << >> \o << >> = << >>
    OBVIOUS
  <2>4. QED
    BY <2>2, <2>3
<1>4. QED
  BY <1>2, <1>3 DEF Port!PortInit

\* Every cycle of the controller is a step of MemoryPort, or none: it refines the
\* memory that answers reads in order with the data of the last write.
THEOREM SdramImplementsPort == Spec => ImplementsMemoryPort
<1>1. PipeInv /\ PipeInv' /\ [Next]_vars => [Port!PortNext]_(Port!portVars)
  <2> SUFFICES ASSUME PipeInv, PipeInv', [Next]_vars
               PROVE  [Port!PortNext]_(Port!portVars)
    OBVIOUS
  <2>1. CASE Next
    <3>1. PICK cmd \in Cmds \cup {None}, rsp_ready \in BOOLEAN : Cycle(cmd, rsp_ready)
      BY <2>1 DEF Next, Offers
    <3>2. StillOutstanding \in Port!Returned(AbstractOutstanding)
      BY <3>1, ChainStep
    <3>3. CASE Taken(cmd)
      <4>1. cmd \in Cmds
        BY <3>3 DEF Taken, Access, Serving
      <4>2. QED
        BY <3>1, <3>2, <3>3, <4>1, AccessPerforms, PerformedIsStep
    <3>4. CASE ~Taken(cmd)
      BY <3>1, <3>2, <3>4, OtherwiseNothing DEF Port!PortNext
    <3>5. QED
      BY <3>3, <3>4
  <2>2. CASE UNCHANGED vars
    <3>1. AbstractMem' = AbstractMem
      BY <2>2 DEF vars, ctrlVars, frontendVars, chipVars, deviceVars, AbstractMem, CellsOfPins,
                  OpenOfPins, CellsAfter, OpenAfter
    <3>2. AbstractOutstanding' = AbstractOutstanding
      BY <2>2 DEF vars, ctrlVars, frontendVars, chipVars, fifoVars, deviceVars, AbstractOutstanding,
                  CellsOfPins, OpenOfPins, CellsAfter, OpenAfter, ReadOf, InHistory,
                  Fifo!Contents, Fifo!empty, Fifo!full, Fifo!ptrMatch
    <3>3. QED
      BY <3>1, <3>2 DEF Port!portVars
  <2>3. QED
    BY <2>1, <2>2
<1>2. QED
  BY <1>1, InitialPort, PipeInvHolds, PTL DEF Spec, ImplementsMemoryPort, Port!PortSpec

(***************************************************************************)
(* The response the reader sees.                                           *)
(***************************************************************************)
\* What waits in the FIFO is what the bus shows.
LEMMA WaitingIsShown ==
  ASSUME FifoTypes
  PROVE  Fifo!Contents # << >> => RspValid /\ RspPayload = Head(Fifo!Contents)
  BY ContentsInOrder DEF RspValid, RspPayload, Fifo!PopValid, Fifo!PopPayload

\* A response that is not taken is shown again in the next cycle.
THEOREM ResponsesStay == Spec => RspStable
<1>1. PipeInv /\ PipeInv' /\ [Next]_vars
        => [RspValid /\ popPtr' = popPtr => RspValid' /\ RspPayload' = RspPayload]_vars
  <2> SUFFICES ASSUME PipeInv, PipeInv', Next, RspValid, popPtr' = popPtr
               PROVE  RspValid' /\ RspPayload' = RspPayload
    OBVIOUS
  <2>1. PICK cmd \in Cmds \cup {None}, rsp_ready \in BOOLEAN : Cycle(cmd, rsp_ready)
    BY DEF Next, Offers
  <2>2. Fifo!Contents' # << >> /\ RspPayload = Head(Fifo!Contents')
    BY <2>1, FifoMoves, RoomImpliesNoReadDataLost DEF Cycle, Clock, PipeInv, TypeOK
  <2>3. (FifoTypes => (Fifo!Contents # << >> => RspValid /\ RspPayload = Head(Fifo!Contents)))'
    BY WaitingIsShown, PTL
  <2>4. FifoTypes'
    BY DEF PipeInv, TypeOK
  <2>5. QED
    BY <2>2, <2>3, <2>4
<1>2. QED
  BY <1>1, PipeInvHolds, PTL DEF Spec, RspStable
=============================================================================
