---------------------------- MODULE SdramSystem -----------------------------
(***************************************************************************)
(* SdramCtrl and the SDRAM chip, clocked together, with an arbitrary user  *)
(* on the bus: in every cycle any command or none is offered, and read     *)
(* data is accepted or not.  (AXI keeps an offered command stable until it *)
(* is taken; the safety properties below do not need that.)                *)
(***************************************************************************)
EXTENDS SdramCtrl

CONSTANTS tRAS, tRC, tRFC, tMRD, tWR

\* The chip asks for no more than the reload values of the counters were chosen
\* for, and the power-up wait (8192 cycles) outlasts what was under way before a
\* reset.
ASSUME TimingAssumption ==
  /\ tRC \in 1..3 /\ tRAS \in 1..tRC /\ tWR \in 1..2
  /\ tRFC \in 1..4 /\ tMRD \in 1..2
  /\ PowerupMax >= 3

VARIABLES clkEnable, open, cells, dqPipe, mode, refreshes,
          sinceActive, sinceWrite, sinceAll

Chip0 == INSTANCE SdramDevice WITH BootRefreshes <- BootRefreshMax + 1

deviceVars == <<clkEnable, open, cells, dqPipe, mode, refreshes,
                sinceActive, sinceWrite, sinceAll>>
vars == <<ctrlVars, deviceVars>>

Init == CtrlInit /\ Chip0!DeviceInit

Cycle(cmd, rsp_ready) == Clock(cmd, rsp_ready, Chip0!dq) /\ Chip0!DeviceEdge

\* The commands worth distinguishing: the bus command is looked at only in RUN
\* and while no refresh is due.
Offers == IF state = "RUN" /\ ~refresh_pending THEN Cmds \cup {None} ELSE {None}

Next == \E cmd \in Offers, rsp_ready \in BOOLEAN : Cycle(cmd, rsp_ready)

Reset == CtrlReset /\ UNCHANGED deviceVars

Spec == Init /\ [][Next]_vars

\* With the asynchronous reset at any moment, the chip keeping its state.
ResetSpec == Init /\ [][Next \/ Reset]_vars

\* A reader that always takes its data, as a master that only issues reads
\* it has room for does.
PromptNext == \E cmd \in Offers : Cycle(cmd, TRUE)
PromptSpec == Init /\ [][PromptNext]_vars

(***************************************************************************)
(* Properties                                                              *)
(***************************************************************************)
\* Every register holds a value of its width.
FrontendTypes ==
  /\ refresh_pending \in BOOLEAN
  /\ state \in {"BOOT_PRECHARGE", "BOOT_REFRESH", "BOOT_MODE", "RUN"}
  /\ bootCounter \in 0..BootRefreshMax
  /\ active \in [Banks -> BOOLEAN] /\ row \in [Banks -> Rows]
  /\ rData \in TaskSet \cup {None}

TimerTypes ==
  /\ refresh_counter \in 0..RefreshMax
  /\ powerup_counter \in 0..PowerupMax /\ powerup_done \in BOOLEAN

BubbleTypes ==
  /\ write_counter \in 0..3
  /\ precharge_counter \in [Banks -> 0..2]
  /\ active_counter \in [Banks -> 0..3]

ChipTypes ==
  /\ readHistory \in [HistoryStages -> Contexts \cup {None}]
  /\ ckeInternal \in BOOLEAN /\ remoteCke \in BOOLEAN /\ ckePin \in BOOLEAN
  /\ pins \in TaskSet \cup {None}
  /\ dq_read \in Values \cup {None}

FifoTypes ==
  /\ ram \in [Fifo!Slots -> Responses]
  /\ pushPtr \in {0, 1} /\ popPtr \in {0, 1} /\ risingOccupancy \in BOOLEAN

DeviceTypes ==
  /\ clkEnable \in BOOLEAN
  /\ open \in [Banks -> Rows \cup {None}]
  /\ cells \in [Banks \X Rows \X Cols -> Values]
  /\ dqPipe \in [1..3 -> Values \cup {None}]
  /\ mode \in {None, CasLatency}
  /\ refreshes \in 0..(BootRefreshMax + 1)
  /\ sinceActive \in [Banks -> 1..tRC] /\ sinceWrite \in [Banks -> 1..tWR]
  /\ sinceAll["REFRESH"] \in 1..tRFC /\ sinceAll["MODE"] \in 1..tMRD
  /\ DOMAIN sinceAll = {"REFRESH", "MODE"}

TypeOK ==
  FrontendTypes /\ TimerTypes /\ BubbleTypes /\ ChipTypes /\ FifoTypes /\ DeviceTypes

\* The chip stage pushes read data without looking at io_push_ready: the
\* two entries of the backup FIFO must be enough for what CKE, which acts
\* two cycles late, cannot hold back, however the reader toggles its ready.
NoReadDataLost == backupIn # None => Fifo!PushReady

\* A response on the bus that the reader does not take stays there, unchanged,
\* although it may move from the wires of the chip stage into the FIFO.  (popPtr
\* moves exactly when a response is taken.)
RspStable == [][RspValid /\ popPtr' = popPtr => RspValid' /\ RspPayload' = RspPayload]_vars

\* No row is opened on an open bank, no column addressed on a closed one, no
\* refresh or mode command issued while a bank is open.
BanksLegal == clkEnable => Chip0!BankRules

\* Every pair of commands keeps its distance, and a write never meets the data
\* of an earlier read on the bus, whatever stops of the clock lie between.
SpacingLegal == clkEnable => Chip0!TimingRules /\ Chip0!BusRules

\* The chip is initialised in the order it asks for.
BootLegal == clkEnable => Chip0!BootRules

\* The row the frontend believes open is the row the chip will have open once
\* the tasks between the two have been executed.
OpenAfter(op, opened) ==
  [b \in Banks |->
     IF op = None THEN opened[b]
     ELSE IF op.task = "ACTIVE" /\ op.bank = b THEN op.arg
     ELSE IF op.task = "PRECHARGE_ALL" \/ (op.task = "PRECHARGE_SINGLE" /\ op.bank = b)
     THEN None ELSE opened[b]]

RowsInUse == [b \in Banks |-> IF active[b] THEN row[b] ELSE None]

RowsKnown == OpenAfter(rData, OpenAfter(pins, open)) = RowsInUse

RowsAgree == state = "RUN" => RowsKnown

(***************************************************************************)
(* The inductive invariants behind NoReadDataLost, BanksLegal, BootLegal   *)
(* and SpacingLegal.                                                       *)
(***************************************************************************)
\* Will the chip stage push read data in this cycle, in the next one?
PushNow  == IF backupIn # None THEN 1 ELSE 0
PushNext == IF ckeInternal /\ readHistory[IF remoteCke THEN 3 ELSE 4] # None THEN 1 ELSE 0

\* What is parked and what CKE can no longer hold back fits into the FIFO.
BackupRoom == Fifo!Occupancy + PushNow + PushNext <= 2

\* The chip executes a task in just the cycles in which the controller
\* believes its clock is running.
ClocksAgree == clkEnable = remoteCke /\ ckePin = ckeInternal

\* The chip may execute op when the rows opened are open.
LegalOn(op, opened) ==
  op # None =>
    /\ op.task = "ACTIVE" => opened[op.bank] = None
    /\ op.task \in {"READ", "WRITE"} => opened[op.bank] # None
    /\ op.task \in {"REFRESH", "MODE"} => \A b \in Banks : opened[b] = None

TasksLegal == LegalOn(pins, open) /\ LegalOn(rData, OpenAfter(pins, open))

ClosedAtBoot == state # "RUN" => \A b \in Banks : ~active[b]

\* Tasks on their way to the chip are legal where they will arrive, and the
\* frontend knows the rows they leave open; no bank is opened before RUN.
BankInv == ClocksAgree /\ TasksLegal /\ RowsKnown /\ ClosedAtBoot

\* A reset finds the chip with any clock enable and any task on its pins, with the
\* banks open that it forgets.  In the wait that follows nothing is issued; the
\* clocks agree again after two cycles.
PowerupQuiet ==
  ~powerup_done =>
    /\ state = "BOOT_PRECHARGE" /\ ckeInternal /\ remoteCke
    /\ readHistory = [i \in HistoryStages |-> None]
    /\ write_counter = 0
    /\ \A b \in Banks : precharge_counter[b] = 0 /\ active_counter[b] = 0
    /\ powerup_counter >= 1 => pins = None /\ ckePin = ckeInternal
    /\ powerup_counter >= 2 => clkEnable = remoteCke

\* Until the first PRECHARGE the rows the chip has open are not known.
ResetInv ==
  /\ PowerupQuiet /\ (powerup_done => ClocksAgree)
  /\ state = "BOOT_PRECHARGE" => rData = None
  /\ state # "BOOT_PRECHARGE" => RowsKnown
  /\ TasksLegal /\ ClosedAtBoot

\* What the chip has seen of the boot sequence once the tasks on their way have
\* been executed.
Refreshing(op) == IF op # None /\ op.task = "REFRESH" THEN 1 ELSE 0
ModeKnown(op)  == mode # None \/ (op # None /\ op.task = "MODE")
OnOpenRow(op)  == op # None /\ op.task \in {"ACTIVE", "READ", "WRITE"}

BootInv ==
  /\ state # "BOOT_REFRESH" => bootCounter = 0
  /\ state = "BOOT_REFRESH" =>
       refreshes + Refreshing(pins) + Refreshing(rData) >= bootCounter
  /\ state = "BOOT_MODE" =>
       refreshes + Refreshing(pins) + Refreshing(rData) >= BootRefreshMax + 1
  /\ IsTask("MODE") => refreshes + Refreshing(pins) >= BootRefreshMax + 1
  /\ state = "RUN" => ModeKnown(pins) \/ IsTask("MODE")
  /\ OnOpenRow(rData) => ModeKnown(pins)
  /\ Chip0!BootRules

\* The ages the chip will count once it has executed the task on its pins: what
\* they lack is still in the counters of the bubble inserter.
ActiveAge(b) == Chip0!Age(sinceActive[b], Chip0!IsOpOn("ACTIVE", b), tRC)
WriteAge(b)  == Chip0!Age(sinceWrite[b], Chip0!IsOpOn("WRITE", b), tWR)
RefreshAge   == Chip0!Age(sinceAll["REFRESH"], Chip0!IsOp("REFRESH"), tRFC)
ModeAge      == Chip0!Age(sinceAll["MODE"], Chip0!IsOp("MODE"), tMRD)

AgesCounted ==
  \A b \in Banks :
    /\ ActiveAge(b) + precharge_counter[b] >= tRAS
    /\ WriteAge(b) + precharge_counter[b] >= tWR
    /\ ActiveAge(b) + active_counter[b] >= tRC
    /\ RefreshAge + active_counter[b] >= tRFC
    /\ ModeAge + active_counter[b] >= tMRD

\* After a reset, which clears the counters, the power-up wait stands for them.
AgesAwaited ==
  /\ \A b \in Banks : /\ ActiveAge(b) >= tRC \/ ActiveAge(b) >= powerup_counter
                      /\ WriteAge(b) >= tWR \/ WriteAge(b) >= powerup_counter
  /\ RefreshAge >= tRFC \/ RefreshAge >= powerup_counter
  /\ ModeAge >= tMRD \/ ModeAge >= powerup_counter

\* The data of a read are on the bus two clocks after its execution, before the
\* counter lets a write pass.
BusAwaited ==
  /\ powerup_done => /\ Chip0!IsOp("READ") => write_counter >= 2
                     /\ dqPipe[1] # None => write_counter >= 1
  /\ ~powerup_done /\ powerup_counter >= 3 => dqPipe[1] = None

SpacingInv ==
  /\ IF powerup_done THEN AgesCounted ELSE AgesAwaited
  /\ BusAwaited
  /\ Chip0!TimingRules /\ Chip0!BusRules

(***************************************************************************)
(* The refinement: the memory and the reads that MemoryPort sees.          *)
(***************************************************************************)
\* The memory once op, addressed to the rows opened, has been executed.
CellsAfter(op, opened, memory) ==
  IF op # None /\ op.task = "WRITE" /\ op.data # None
  THEN [memory EXCEPT ![<<op.bank, opened[op.bank], op.arg>>] = op.data]
  ELSE memory

CellsOfPins == CellsAfter(pins, open, cells)
OpenOfPins  == OpenAfter(pins, open)

AbstractMem == CellsAfter(rData, OpenOfPins, CellsOfPins)

ReadOf(op, opened, memory) ==
  IF op # None /\ op.task = "READ"
  THEN <<[ctx |-> op.ctx, data |-> memory[<<op.bank, opened[op.bank], op.arg>>]]>>
  ELSE << >>

InHistory(i, data) ==
  IF readHistory[i] = None THEN << >>
  ELSE <<[ctx |-> readHistory[i], data |-> data]>>

\* Oldest first: in the FIFO, in the DQ register, in the chip's two read
\* stages, on the pins, in the task register.
AbstractOutstanding ==
  Fifo!Contents
  \o InHistory(4, dq_read) \o InHistory(3, dqPipe[2]) \o InHistory(2, dqPipe[1])
  \o (IF readHistory[1] = None THEN << >> ELSE ReadOf(pins, open, cells))
  \o ReadOf(rData, OpenOfPins, CellsOfPins)

Port == INSTANCE MemoryPort WITH
          Addresses <- Banks \X Rows \X Cols,
          MaxOutstanding <- 7,
          mem <- AbstractMem,
          outstanding <- AbstractOutstanding

\* SdramCtrl with its chip behaves as a MemoryPort.
ImplementsMemoryPort == Port!PortSpec

\* Which step of the port a cycle is: the command that is taken is performed, at
\* its own address, and a read leaves the port when its response is taken (popPtr
\* moves exactly then), not earlier and not otherwise.
StillOutstanding ==
  IF popPtr' # popPtr THEN Tail(AbstractOutstanding) ELSE AbstractOutstanding

Taken(cmd) == rspReady /\ Access(cmd)

Performed(cmd) ==
  LET address == <<cmd.bank, cmd.row, cmd.col>>
  IN  IF cmd.write THEN Port!Write(address, cmd.data, StillOutstanding)
      ELSE Port!Read(address, cmd.ctx, StillOutstanding)

\* (Between a reset and the end of the boot sequence no command is accepted, and
\* tasks from before the reset may still reach the chip.)
CommandsPerformed ==
  [][ state = "RUN" /\ ~Reset =>
      LET commands == Offers \ {None}
      IN  /\ \A cmd \in commands : Taken(cmd) => Performed(cmd)
          /\ (\A cmd \in commands : ~Taken(cmd)) => Port!NoCommand(StillOutstanding) ]_vars

(***************************************************************************)
(* Refresh.                                                                *)
(***************************************************************************)
\* With a reader that always takes its data no tick of the refresh timer is
\* lost: none finds the previous one unserved or being served.
NoRefreshLost == [][state = "RUN" /\ refreshTick => ~refresh_pending]_vars
=============================================================================
