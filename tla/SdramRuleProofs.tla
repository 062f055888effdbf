-------------------------- MODULE SdramRuleProofs ---------------------------
(***************************************************************************)
(* The chip never executes a command against its rules, whatever the user  *)
(* of the bus does, whenever the reader stops the clock and whenever the   *)
(* controller is reset: not on banks in the wrong state, not too early     *)
(* after another command, not before the boot sequence allows it.  Proved  *)
(* for every number of banks, every set of rows, columns and values, every *)
(* length of the timers and all spacings the controller is made for.       *)
(*                                                                         *)
(* The frontend decides on rows it will find open only after the tasks     *)
(* between it and the chip (in rData and on the pins) have been executed,  *)
(* and those may be held back by a bubble or by a stopped clock.  BankInv  *)
(* says what the frontend relies on: executing them leaves exactly the     *)
(* rows it has in its registers, and each is legal where it will arrive.   *)
(* After a reset it relies on nothing of the kind (ResetInv) until its     *)
(* first task, which closes all banks.                                     *)
(*                                                                         *)
(* The last section is about time: how long a refresh can be held up.      *)
(***************************************************************************)
EXTENDS SdramSystem, SequenceFacts

(***************************************************************************)
(* Types: one lemma per stage of the controller, and one for the chip.     *)
(***************************************************************************)
\* What the frontend emits are tasks.
LEMMA TasksOfCommands ==
  ASSUME NEW cmd \in Cmds
  PROVE  /\ Task("PRECHARGE_SINGLE", cmd.bank, None, None, None) \in TaskSet
         /\ Task("ACTIVE", cmd.bank, cmd.row, None, None) \in TaskSet
         /\ cmd.write => Task("WRITE", cmd.bank, cmd.col, cmd.data, None) \in TaskSet
         /\ ~cmd.write => Task("READ", cmd.bank, cmd.col, None, cmd.ctx) \in TaskSet
         /\ cmd.bank \in Banks /\ cmd.row \in Rows
  BY DEF Cmds, ReadCmds, WriteCmds, Task, TaskSet

\* So are those that concern no command of the user.
LEMMA TasksOfTheController ==
  /\ Task("PRECHARGE_ALL", None, None, None, None) \in TaskSet
  /\ Task("REFRESH", None, None, None, None) \in TaskSet
  /\ Task("MODE", None, CasLatency, None, None) \in TaskSet
  BY DEF Task, TaskSet

\* Every case of the frontend keeps its registers in range.
LEMMA FrontendKeepsTypes ==
  ASSUME FrontendTypes, NEW cmd \in Cmds \cup {None}, NEW ready \in BOOLEAN,
         Frontend(cmd, ready)
  PROVE  FrontendTypes'
<1> USE DEF FrontendTypes, Emit, KeepPending
<1>1. CASE Powerup
  BY <1>1 DEF Powerup
<1>2. CASE BootPrecharge
  BY <1>2, TasksOfTheController DEF BootPrecharge
<1>3. CASE BootRefresh
  <2>1. (bootCounter + 1) % (BootRefreshMax + 1) \in 0..BootRefreshMax
    BY SizesAssumption
  <2>2. QED
    BY <1>3, <2>1, TasksOfTheController DEF BootRefresh
<1>4. CASE BootMode
  BY <1>4, TasksOfTheController DEF BootMode
<1>5. CASE RefreshPrecharge
  BY <1>5, TasksOfTheController DEF RefreshPrecharge
<1>6. CASE Refresh
  BY <1>6, TasksOfTheController DEF Refresh
<1>7. CASE Precharge(cmd)
  BY <1>7, TasksOfCommands DEF Precharge, Serving
<1>8. CASE Activate(cmd)
  BY <1>8, TasksOfCommands DEF Activate, RowLoaded, Serving
<1>9. CASE Access(cmd)
  BY <1>9, TasksOfCommands DEF Access, Serving
<1>10. CASE Idle(cmd)
  BY <1>10 DEF Idle
<1>11. CASE Stalled(cmd)
  BY <1>11, TasksOfCommands DEF Stalled, RowLoaded, Serving
<1>12. QED
  BY <1>1, <1>2, <1>3, <1>4, <1>5, <1>6, <1>7, <1>8, <1>9, <1>10, <1>11 DEF Frontend

\* The refresh timer and the timers of the banks.
LEMMA TimersKeepTypes ==
  ASSUME TimerTypes, Timers
  PROVE  TimerTypes'
<1>1. (powerup_counter + 1) % (PowerupMax + 1) \in 0..PowerupMax
  BY SizesAssumption DEF TimerTypes
<1>2. QED
  BY <1>1, SizesAssumption DEF TimerTypes, Timers, refreshTick

\* A reload value within the range of a counter keeps the counter in it.
LEMMA ReloadInRange ==
  ASSUME NEW max \in Nat, NEW c \in 0..max, NEW val \in 0..max, NEW taken \in BOOLEAN
  PROVE  Reload(c, val, taken) \in 0..max
  BY DEF Reload, Dec

\* The bubble inserter.
LEMMA BubbleInserterKeepsTypes ==
  ASSUME BubbleTypes, NEW taken \in BOOLEAN, BubbleInserter(taken)
  PROVE  BubbleTypes'
<1> USE DEF BubbleTypes
<1>1. WriteReload \in 0..3 /\ \A b \in Banks : PrechargeReload(b) \in 0..2 /\ ActiveReload(b) \in 0..3
  BY DEF WriteReload, PrechargeReload, ActiveReload
<1>2. write_counter' \in 0..3
  BY <1>1, ReloadInRange DEF BubbleInserter
<1>3. precharge_counter' \in [Banks -> 0..2]
  BY <1>1, ReloadInRange DEF BubbleInserter
<1>4. active_counter' \in [Banks -> 0..3]
  BY <1>1, ReloadInRange DEF BubbleInserter
<1>5. QED
  BY <1>2, <1>3, <1>4

\* The chip stage, with CKE and the pins.
LEMMA ChipKeepsTypes ==
  ASSUME ChipTypes, NEW STATE op, op \in TaskSet \cup {None},
         NEW rsp_ready \in BOOLEAN, NEW STATE dq, dq \in Values \cup {None},
         Chip(op, rsp_ready, dq)
  PROVE  ChipTypes'
<1> USE DEF ChipTypes
<1>1. ReadContext(op) \in Contexts \cup {None}
  BY DEF ReadContext, TaskSet
<1>2. readHistory' \in [HistoryStages -> Contexts \cup {None}]
  BY <1>1 DEF Chip, HistoryStages
<1>3. ckeInternal' \in BOOLEAN /\ remoteCke' \in BOOLEAN /\ ckePin' \in BOOLEAN
  BY DEF Chip, CkeNext
<1>4. pins' \in TaskSet \cup {None} /\ dq_read' \in Values \cup {None}
  BY DEF Chip
<1>5. QED
  BY <1>2, <1>3, <1>4

\* The backup FIFO.
LEMMA FifoKeepsTypes ==
  ASSUME FifoTypes, ChipTypes, NEW ready \in BOOLEAN, Fifo!Clock(backupIn, ready)
  PROVE  FifoTypes'
<1> USE DEF FifoTypes
<1>1. backupIn # None => backupIn \in Responses
  BY DEF backupIn, Responses, ChipTypes, HistoryStages
<1>2. ram' \in [Fifo!Slots -> Responses]
  BY <1>1 DEF Fifo!Clock
<1>3. pushPtr' \in {0, 1} /\ popPtr' \in {0, 1}
  BY DEF Fifo!Clock
<1>4. risingOccupancy' \in BOOLEAN
  BY DEF Fifo!Clock
<1>5. QED
  BY <1>2, <1>3, <1>4

\* An age starts at 1 and stops at its bound.
LEMMA AgeInRange ==
  ASSUME NEW max \in Nat \ {0}, NEW c \in 1..max, NEW restart
  PROVE  Chip0!Age(c, restart, max) \in 1..max
  BY DEF Chip0!Age

\* The chip, given a task on its pins.
LEMMA DeviceKeepsTypes ==
  ASSUME DeviceTypes, ChipTypes, Chip0!DeviceEdge
  PROVE  DeviceTypes'
<1> USE DEF DeviceTypes, ChipTypes
<1>1. CASE ~clkEnable
  BY <1>1 DEF Chip0!DeviceEdge
<1>2. CASE clkEnable
  <2>1. clkEnable' \in BOOLEAN
    BY DEF Chip0!DeviceEdge
  <2>2. Chip0!Execute
    BY <1>2 DEF Chip0!DeviceEdge
  <2>3. open' \in [Banks -> Rows \cup {None}]
    <3>1. \A b \in Banks : Chip0!IsOpOn("ACTIVE", b) => pins.arg \in Rows
      BY DEF Chip0!IsOpOn, Chip0!IsOp, TaskSet
    <3>2. QED
      BY <2>2, <3>1 DEF Chip0!Execute
  <2>4. cells' \in [Banks \X Rows \X Cols -> Values]
    <3>1. Chip0!IsOp("WRITE") /\ pins.data # None => pins.data \in Values
      BY DEF Chip0!IsOp, TaskSet
    <3>2. QED
      BY <2>2, <3>1 DEF Chip0!Execute
  <2>5. dqPipe' \in [1..3 -> Values \cup {None}]
    <3>1. Chip0!Fetched \in Values \cup {None}
      <4>1. Chip0!IsOp("READ") /\ open[pins.bank] # None
              => Chip0!Target \in Banks \X Rows \X Cols
        BY DEF Chip0!IsOp, Chip0!Target, TaskSet
      <4>2. QED
        BY <4>1 DEF Chip0!Fetched
    <3>2. QED
      BY <2>2, <3>1 DEF Chip0!Execute, Chip0!MaxLatency
  <2>6. mode' \in {None, CasLatency}
    BY <2>2 DEF Chip0!Execute, Chip0!IsOp, TaskSet
  <2>7. refreshes' \in 0..(BootRefreshMax + 1)
    BY <2>2, SizesAssumption DEF Chip0!Execute
  <2>8. sinceActive' \in [Banks -> 1..tRC] /\ sinceWrite' \in [Banks -> 1..tWR]
    <3>1. /\ tRC \in Nat \ {0} /\ tWR \in Nat \ {0}
          /\ \A b \in Banks : sinceActive[b] \in 1..tRC /\ sinceWrite[b] \in 1..tWR
      BY TimingAssumption
    <3>2. \A b \in Banks :
            /\ Chip0!Age(sinceActive[b], Chip0!IsOpOn("ACTIVE", b), tRC) \in 1..tRC
            /\ Chip0!Age(sinceWrite[b], Chip0!IsOpOn("WRITE", b), tWR) \in 1..tWR
      BY <3>1, AgeInRange
    <3>3. QED
      BY <2>2, <3>2 DEF Chip0!Execute
  <2>9. /\ sinceAll'["REFRESH"] \in 1..tRFC /\ sinceAll'["MODE"] \in 1..tMRD
        /\ DOMAIN sinceAll' = {"REFRESH", "MODE"}
    <3>1. tRFC \in Nat \ {0} /\ tMRD \in Nat \ {0}
      BY TimingAssumption
    <3>2. /\ Chip0!Age(sinceAll["REFRESH"], Chip0!IsOp("REFRESH"), tRFC) \in 1..tRFC
          /\ Chip0!Age(sinceAll["MODE"], Chip0!IsOp("MODE"), tMRD) \in 1..tMRD
      BY <3>1, AgeInRange
    <3>3. QED
      BY <2>2, <3>2 DEF Chip0!Execute
  <2>10. QED
    BY <2>1, <2>3, <2>4, <2>5, <2>6, <2>7, <2>8, <2>9
<1>3. QED
  BY <1>1, <1>2

\* One cycle of controller and chip.
LEMMA CycleKeepsTypes ==
  ASSUME TypeOK, NEW cmd \in Cmds \cup {None}, NEW rsp_ready \in BOOLEAN, Cycle(cmd, rsp_ready)
  PROVE  TypeOK'
<1> USE DEF TypeOK, Cycle, Clock
<1>1. rspReady \in BOOLEAN /\ taskTaken \in BOOLEAN
  BY DEF rspReady, taskTaken, ChipTypes, insertBubble
<1>2. FrontendTypes'
  BY <1>1, FrontendKeepsTypes
<1>3. TimerTypes'
  BY TimersKeepTypes
<1>4. BubbleTypes'
  BY <1>1, BubbleInserterKeepsTypes
<1>5. ChipTypes'
  <2>1. issued \in TaskSet \cup {None}
    BY DEF issued, FrontendTypes
  <2>2. Chip0!dq \in Values \cup {None}
    BY DEF Chip0!dq, DeviceTypes, CasLatency
  <2>3. QED
    BY <2>1, <2>2, ChipKeepsTypes
<1>6. FifoTypes'
  BY FifoKeepsTypes
<1>7. DeviceTypes'
  BY DeviceKeepsTypes
<1>8. QED
  BY <1>2, <1>3, <1>4, <1>5, <1>6, <1>7

\* The types hold at the start,
LEMMA InitialTypes == Init => TypeOK
<1> SUFFICES ASSUME Init
             PROVE  TypeOK
  OBVIOUS
<1> USE DEF Init, CtrlInit
<1>1. FrontendTypes
  <2>1. bootCounter = 0 /\ 0 \in 0..BootRefreshMax
    BY SizesAssumption
  <2>2. refresh_pending \in BOOLEAN
    OBVIOUS
  <2>3. active \in [Banks -> BOOLEAN]
    OBVIOUS
  <2>4. state = "BOOT_PRECHARGE" /\ row \in [Banks -> Rows] /\ rData = None
    BY DEF FrontendTypes
  <2>5. QED
    BY <2>1, <2>2, <2>3, <2>4 DEF FrontendTypes
<1>2. TimerTypes
  <2>1. refresh_counter = 0 /\ powerup_counter = 0
    OBVIOUS
  <2>2. powerup_done \in BOOLEAN
    OBVIOUS
  <2>3. 0 \in 0..RefreshMax /\ 0 \in 0..PowerupMax
    BY SizesAssumption
  <2>4. QED
    BY <2>1, <2>2, <2>3 DEF TimerTypes
<1>3. BubbleTypes
  BY DEF BubbleTypes
<1>4. ChipTypes
  BY DEF ChipTypes
<1>5. FifoTypes
  BY DEF FifoTypes, Fifo!Init
<1>6. DeviceTypes
  BY SizesAssumption, TimingAssumption
     DEF DeviceTypes, Chip0!DeviceInit, Chip0!Cells, Chip0!MaxLatency
<1>7. QED
  BY <1>1, <1>2, <1>3, <1>4, <1>5, <1>6 DEF TypeOK

\* and after a reset.
LEMMA ResetKeepsTypes ==
  ASSUME TypeOK, Reset
  PROVE  TypeOK'
<1> USE DEF TypeOK, Reset, CtrlReset
<1>1. FrontendTypes'
  <2>1. bootCounter' = 0 /\ 0 \in 0..BootRefreshMax
    BY SizesAssumption
  <2>2. refresh_pending' \in BOOLEAN
    OBVIOUS
  <2>3. active' \in [Banks -> BOOLEAN]
    OBVIOUS
  <2>4. state' = "BOOT_PRECHARGE" /\ row' \in [Banks -> Rows] /\ rData' = None
    BY DEF FrontendTypes
  <2>5. QED
    BY <2>1, <2>2, <2>3, <2>4 DEF FrontendTypes
<1>2. TimerTypes'
  <2>1. refresh_counter' = 0 /\ powerup_counter' = 0
    OBVIOUS
  <2>2. powerup_done' \in BOOLEAN
    OBVIOUS
  <2>3. 0 \in 0..RefreshMax /\ 0 \in 0..PowerupMax
    BY SizesAssumption
  <2>4. QED
    BY <2>1, <2>2, <2>3 DEF TimerTypes
<1>3. BubbleTypes'
  BY DEF BubbleTypes
<1>4. ChipTypes'
  BY DEF ChipTypes
<1>5. FifoTypes'
  BY DEF FifoTypes, Fifo!Reset
<1>6. DeviceTypes'
  BY DEF DeviceTypes, deviceVars
<1>7. QED
  BY <1>1, <1>2, <1>3, <1>4, <1>5, <1>6

\* Every register of the controller and of the chip keeps to its range, with
\* the asynchronous reset at any moment.
THEOREM TypesCorrect == ResetSpec => []TypeOK
<1>1. TypeOK /\ [Next \/ Reset]_vars => TypeOK'
  <2> SUFFICES ASSUME TypeOK, [Next \/ Reset]_vars
               PROVE  TypeOK'
    OBVIOUS
  <2>1. CASE Next
    <3>1. Offers \subseteq Cmds \cup {None}
      BY DEF Offers
    <3>2. QED
      BY <2>1, <3>1, CycleKeepsTypes DEF Next
  <2>2. CASE Reset
    BY <2>2, ResetKeepsTypes
  <2>3. CASE UNCHANGED vars
    BY <2>3 DEF vars, ctrlVars, frontendVars, timingVars, chipVars, fifoVars, deviceVars,
                TypeOK, FrontendTypes, TimerTypes, BubbleTypes, ChipTypes, FifoTypes, DeviceTypes
  <2>4. QED
    BY <2>1, <2>2, <2>3
<1>2. QED
  BY <1>1, InitialTypes, PTL DEF ResetSpec

(***************************************************************************)
(* Banks and rows.                                                         *)
(***************************************************************************)
\* An empty pins register leaves the rows open that are.
LEMMA OpenAfterNone ==
  ASSUME NEW op, NEW opened
  PROVE  OpenAfter(None, OpenAfter(op, opened)) = OpenAfter(op, opened)
  BY DEF OpenAfter

\* The chip executes its pins as OpenAfter says.
LEMMA DeviceOpens ==
  ASSUME clkEnable, Chip0!DeviceEdge
  PROVE  open' = OpenAfter(pins, open)
  BY DEF Chip0!DeviceEdge, Chip0!Execute, Chip0!IsOp, Chip0!IsOpOn, OpenAfter

\* A task that the frontend emits is legal for the rows in its registers, and
\* the registers follow what it does.
LEMMA FrontendEmitsLegal ==
  ASSUME FrontendTypes, ClosedAtBoot, NEW cmd \in Cmds \cup {None}, Frontend(cmd, TRUE)
  PROVE  LegalOn(rData', RowsInUse) /\ OpenAfter(rData', RowsInUse) = RowsInUse' /\ ClosedAtBoot'
<1> USE DEF FrontendTypes, ClosedAtBoot, Emit, Task, LegalOn, OpenAfter, RowsInUse
<1>1. CASE Powerup
  BY <1>1 DEF Powerup
<1>2. CASE BootPrecharge
  BY <1>2 DEF BootPrecharge
<1>3. CASE BootRefresh
  BY <1>3 DEF BootRefresh
<1>4. CASE BootMode
  BY <1>4 DEF BootMode
<1>5. CASE RefreshPrecharge
  <2>1. rData' # None
    BY <1>5, TasksOfTheController, NoneAssumption DEF RefreshPrecharge
  <2>2. LegalOn(rData', RowsInUse) /\ ClosedAtBoot'
    BY <1>5 DEF RefreshPrecharge
  <2>3. \A b \in Banks : OpenAfter(rData', RowsInUse)[b] = RowsInUse'[b]
    BY <1>5, <2>1 DEF RefreshPrecharge
  <2>4. QED
    BY <2>2, <2>3
<1>6. CASE Refresh
  BY <1>6 DEF Refresh
<1>7. CASE Precharge(cmd)
  <2>1. rData' # None
    BY <1>7, TasksOfCommands, NoneAssumption DEF Precharge, Serving
  <2>2. LegalOn(rData', RowsInUse) /\ ClosedAtBoot'
    BY <1>7, TasksOfCommands DEF Precharge, Serving
  <2>3. \A b \in Banks : OpenAfter(rData', RowsInUse)[b] = RowsInUse'[b]
    BY <1>7, <2>1, TasksOfCommands DEF Precharge, Serving
  <2>4. QED
    BY <2>2, <2>3
<1>8. CASE Activate(cmd)
  <2>1. rData' # None
    BY <1>8, TasksOfCommands, NoneAssumption DEF Activate, Serving
  <2>2. LegalOn(rData', RowsInUse) /\ ClosedAtBoot'
    BY <1>8, TasksOfCommands DEF Activate, Serving
  <2>3. \A b \in Banks : OpenAfter(rData', RowsInUse)[b] = RowsInUse'[b]
    BY <1>8, <2>1, TasksOfCommands DEF Activate, RowLoaded, Serving
  <2>4. QED
    BY <2>2, <2>3
<1>9. CASE Access(cmd)
  BY <1>9, TasksOfCommands, NoneAssumption, ZenonT(30) DEF Access, Serving, RowHit
<1>10. CASE Idle(cmd)
  BY <1>10 DEF Idle
<1>11. QED
  BY <1>1, <1>2, <1>3, <1>4, <1>5, <1>6, <1>7, <1>8, <1>9, <1>10 DEF Frontend

\* A frontend that cannot emit loads only row registers of closed banks.
LEMMA StalledKeepsRows ==
  ASSUME FrontendTypes, ClosedAtBoot, NEW cmd \in Cmds \cup {None}, Stalled(cmd)
  PROVE  rData' = rData /\ RowsInUse' = RowsInUse /\ ClosedAtBoot'
  BY DEF FrontendTypes, ClosedAtBoot, Stalled, RowLoaded, RowsInUse

\* One cycle keeps the tasks on their way legal.
LEMMA CycleKeepsBankInv ==
  ASSUME TypeOK, BankInv, NEW cmd \in Cmds \cup {None}, NEW rsp_ready \in BOOLEAN,
         Cycle(cmd, rsp_ready)
  PROVE  BankInv'
<1> DEFINE arriving == OpenAfter(pins, open)
<1>1. /\ Frontend(cmd, rspReady) /\ Chip(issued, rsp_ready, Chip0!dq) /\ Chip0!DeviceEdge
      /\ FrontendTypes /\ ClocksAgree /\ TasksLegal /\ RowsKnown /\ ClosedAtBoot
  BY DEF Cycle, Clock, BankInv, TypeOK
<1>2. ClocksAgree'
  BY <1>1 DEF ClocksAgree, Chip, Chip0!DeviceEdge
<1>3. CASE rspReady
  <2>1. /\ LegalOn(rData', RowsInUse) /\ OpenAfter(rData', RowsInUse) = RowsInUse'
        /\ ClosedAtBoot'
    BY <1>1, <1>3, FrontendEmitsLegal DEF Frontend
  <2>2. OpenAfter(rData, arriving) = RowsInUse /\ LegalOn(rData, arriving)
    BY <1>1 DEF RowsKnown, TasksLegal
  <2>3. CASE remoteCke
    <3>1. pins' = rData /\ open' = arriving
      BY <1>1, <1>3, <2>3, DeviceOpens DEF Chip, ClocksAgree, issued, rspReady, taskTaken, insertBubble
    <3>2. QED
      BY <1>2, <2>1, <2>2, <3>1 DEF BankInv, TasksLegal, RowsKnown
  <2>4. CASE ~remoteCke
    <3>1. rData = None /\ pins' = pins /\ open' = open
      BY <1>1, <1>3, <2>4 DEF Chip, Chip0!DeviceEdge, ClocksAgree, rspReady, taskTaken
    <3>2. arriving = RowsInUse
      BY <2>2, <3>1, OpenAfterNone
    <3>3. QED
      BY <1>1, <1>2, <2>1, <3>1, <3>2 DEF BankInv, TasksLegal, RowsKnown
  <2>5. QED
    BY <2>3, <2>4
<1>4. CASE ~rspReady
  <2>1. rData' = rData /\ RowsInUse' = RowsInUse /\ ClosedAtBoot'
    BY <1>1, <1>4, StalledKeepsRows DEF Frontend
  <2>2. CASE remoteCke
    <3>1. pins' = None /\ open' = arriving
      BY <1>1, <1>4, <2>2, DeviceOpens DEF Chip, ClocksAgree, issued, rspReady, taskTaken
    <3>2. OpenAfter(pins', open') = arriving
      BY <3>1, OpenAfterNone
    <3>3. LegalOn(pins', open')
      BY <3>1 DEF LegalOn
    <3>4. QED
      BY <1>1, <1>2, <2>1, <3>2, <3>3 DEF BankInv, TasksLegal, RowsKnown
  <2>3. CASE ~remoteCke
    <3>1. pins' = pins /\ open' = open
      BY <1>1, <2>3 DEF Chip, Chip0!DeviceEdge, ClocksAgree
    <3>2. QED
      BY <1>1, <1>2, <2>1, <3>1 DEF BankInv, TasksLegal, RowsKnown
  <2>4. QED
    BY <2>2, <2>3
<1>5. QED
  BY <1>3, <1>4

\* At the start no task is on its way.
LEMMA InitialBankInv == Init => BankInv
  BY DEF Init, CtrlInit, Chip0!DeviceInit, BankInv, ClocksAgree, TasksLegal, RowsKnown,
         ClosedAtBoot, LegalOn, OpenAfter, RowsInUse

\* While the controller waits for power-up nothing moves but the clock enables.
LEMMA PowerupStep ==
  ASSUME TypeOK, ResetInv, ~powerup_done, NEW cmd \in Cmds \cup {None},
         NEW rsp_ready \in BOOLEAN, Cycle(cmd, rsp_ready)
  PROVE  /\ state' = "BOOT_PRECHARGE" /\ rData' = None /\ active' = active /\ pins' = None
         /\ ckeInternal' /\ remoteCke' /\ ckePin' /\ clkEnable' = ckePin
         /\ readHistory' = [i \in HistoryStages |-> None]
         /\ write_counter' = 0
         /\ \A b \in Banks : precharge_counter'[b] = 0 /\ active_counter'[b] = 0
         /\ bootCounter' = bootCounter
<1>1. /\ state = "BOOT_PRECHARGE" /\ rData = None /\ remoteCke /\ ckeInternal
      /\ readHistory = [i \in HistoryStages |-> None]
      /\ write_counter = 0
      /\ \A b \in Banks : precharge_counter[b] = 0 /\ active_counter[b] = 0
  BY DEF ResetInv, PowerupQuiet
<1>2. issued = None /\ rspReady = TRUE
  BY <1>1 DEF issued, insertBubble, rspReady
<1>3. /\ Frontend(cmd, TRUE) /\ BubbleInserter(taskTaken)
      /\ Chip(None, rsp_ready, Chip0!dq) /\ Chip0!DeviceEdge
  BY <1>2 DEF Cycle, Clock
<1>4. state' = state /\ rData' = None /\ active' = active /\ bootCounter' = bootCounter
  BY <1>1, <1>3 DEF Frontend, Powerup, BootPrecharge, BootRefresh, BootMode, RefreshPrecharge,
                    Refresh, Precharge, Activate, Access, Idle, Serving, Emit
<1>5. readHistory' = [i \in HistoryStages |-> None] /\ pins' = None /\ remoteCke'
  <2>1. /\ readHistory' = [i \in HistoryStages |->
                             IF i = 1 THEN ReadContext(None) ELSE readHistory[i - 1]]
        /\ pins' = None
    BY <1>1, <1>3 DEF Chip
  <2>2. ReadContext(None) = None
    BY DEF ReadContext
  <2>3. \A i \in HistoryStages : i # 1 => readHistory[i - 1] = None
    BY <1>1 DEF HistoryStages
  <2>4. remoteCke'
    BY <1>1, <1>3 DEF Chip, TypeOK, ChipTypes
  <2>5. QED
    BY <2>1, <2>2, <2>3, <2>4
<1>6. ckeInternal' /\ ckePin'
  BY <1>1, <1>3 DEF Chip, CkeNext, ReadsInFlight, ReadContext
<1>7. clkEnable' = ckePin
  BY <1>3 DEF Chip0!DeviceEdge
<1>8. \A c, val : c = 0 => Reload(c, val, taskTaken) = 0
  BY <1>1 DEF Reload, Dec
<1>9. /\ write_counter' = 0
      /\ \A b \in Banks : precharge_counter'[b] = 0 /\ active_counter'[b] = 0
  BY <1>1, <1>3, <1>8 DEF BubbleInserter
<1>10. QED
  BY <1>1, <1>4, <1>5, <1>6, <1>7, <1>9

\* The counter of the power-up wait.
LEMMA PowerupCounts ==
  ASSUME TimerTypes, ~powerup_done, Timers
  PROVE  /\ powerup_done' <=> powerup_counter = PowerupMax
         /\ ~powerup_done' => powerup_counter' = powerup_counter + 1
         /\ powerup_counter \in Nat /\ PowerupMax >= 3
<1>1. powerup_counter \in 0..PowerupMax /\ PowerupMax \in Nat /\ PowerupMax >= 3
  BY SizesAssumption, TimingAssumption DEF TimerTypes
<1>2. powerup_counter # PowerupMax
        => (powerup_counter + 1) % (PowerupMax + 1) = powerup_counter + 1
  BY <1>1
<1>3. powerup_done' = (powerup_counter = PowerupMax)
  BY DEF Timers
<1>4. powerup_counter' = (powerup_counter + 1) % (PowerupMax + 1)
  BY DEF Timers
<1>5. powerup_done' <=> powerup_counter = PowerupMax
  BY <1>3, Zenon
<1>6. powerup_counter # PowerupMax => powerup_counter' = powerup_counter + 1
  BY <1>2, <1>4
<1>7. QED
  BY <1>1, <1>5, <1>6

\* One cycle keeps what holds of the banks although resets come.
LEMMA CycleKeepsResetInv ==
  ASSUME TypeOK, ResetInv, NEW cmd \in Cmds \cup {None}, NEW rsp_ready \in BOOLEAN,
         Cycle(cmd, rsp_ready)
  PROVE  ResetInv'
<1>1. /\ Timers /\ Frontend(cmd, rspReady) /\ Chip(issued, rsp_ready, Chip0!dq)
      /\ Chip0!DeviceEdge
      /\ FrontendTypes /\ TimerTypes /\ TasksLegal /\ ClosedAtBoot
  BY DEF Cycle, Clock, ResetInv, TypeOK
<1>2. CASE ~powerup_done
  <2>1. /\ state' = "BOOT_PRECHARGE" /\ rData' = None /\ active' = active /\ pins' = None
        /\ ckeInternal' /\ remoteCke' /\ ckePin' /\ clkEnable' = ckePin
        /\ readHistory' = [i \in HistoryStages |-> None]
        /\ write_counter' = 0
        /\ \A b \in Banks : precharge_counter'[b] = 0 /\ active_counter'[b] = 0
    BY <1>2, PowerupStep
  <2>2. /\ powerup_done' => powerup_counter >= 1
        /\ ~powerup_done' /\ powerup_counter' >= 2 => powerup_counter >= 1
    BY <1>1, <1>2, PowerupCounts
  <2>3. powerup_counter >= 1 => clkEnable' = remoteCke'
    <3>1. powerup_counter >= 1 => ckePin = ckeInternal /\ ckeInternal
      BY <1>2 DEF ResetInv, PowerupQuiet
    <3>2. ckeInternal \in BOOLEAN /\ remoteCke' = ckeInternal
      BY <1>1 DEF TypeOK, ChipTypes, Chip
    <3>3. QED
      BY <2>1, <3>1, <3>2
  <2>4. PowerupQuiet' /\ (powerup_done => ClocksAgree)'
    BY <2>1, <2>2, <2>3, Zenon DEF PowerupQuiet, ClocksAgree
  <2>5. TasksLegal' /\ ClosedAtBoot'
    BY <1>1, <1>2, <2>1 DEF TasksLegal, LegalOn, ClosedAtBoot, ResetInv, PowerupQuiet
  <2>6. QED
    BY <2>1, <2>4, <2>5 DEF ResetInv
<1>3. CASE powerup_done /\ state = "BOOT_PRECHARGE"
  <2>1. rData = None /\ ClocksAgree /\ rspReady
    BY <1>3 DEF ResetInv, rspReady
  <2>2. BootPrecharge
    BY <1>1, <1>3, <2>1 DEF Frontend, Powerup, BootRefresh, BootMode, RefreshPrecharge, Refresh,
                            Precharge, Activate, Access, Idle, Serving
  <2>3. /\ state' = "BOOT_REFRESH" /\ active' = active
        /\ rData' = Task("PRECHARGE_ALL", None, None, None, None)
    BY <2>2 DEF BootPrecharge, Emit
  <2>4. /\ rData' # None /\ rData'.task = "PRECHARGE_ALL"
    BY <2>3, TasksOfTheController, NoneAssumption DEF Task
  <2>5. ClosedAtBoot' /\ \A b \in Banks : ~active'[b]
    BY <1>1, <1>3, <2>3 DEF ClosedAtBoot
  <2>6. RowsKnown'
    BY <2>4, <2>5 DEF RowsKnown, RowsInUse, OpenAfter
  <2>7. ClocksAgree'
    BY <1>1, <2>1 DEF ClocksAgree, Chip, Chip0!DeviceEdge
  <2>8. pins' = None \/ (pins' = pins /\ open' = open)
    BY <1>1, <2>1 DEF Chip, Chip0!DeviceEdge, ClocksAgree, issued
  <2>9. TasksLegal'
    BY <1>1, <2>4, <2>8 DEF TasksLegal, LegalOn
  <2>10. powerup_done'
    BY <1>1, <1>3 DEF Timers
  <2>11. QED
    BY <2>3, <2>5, <2>6, <2>7, <2>9, <2>10 DEF ResetInv, PowerupQuiet
<1>4. CASE powerup_done /\ state # "BOOT_PRECHARGE"
  <2>1. BankInv
    BY <1>4 DEF ResetInv, BankInv
  <2>2. BankInv'
    BY <2>1, CycleKeepsBankInv
  <2>3. state' # "BOOT_PRECHARGE"
    BY <1>1, <1>4 DEF Frontend, Stalled, Powerup, BootPrecharge, BootRefresh, BootMode,
                      RefreshPrecharge, Refresh, Precharge, Activate, Access, Idle, Serving
  <2>4. powerup_done'
    BY <1>1, <1>4 DEF Timers
  <2>5. QED
    BY <2>2, <2>3, <2>4 DEF ResetInv, BankInv, PowerupQuiet
<1>5. QED
  BY <1>2, <1>3, <1>4

\* It holds at the start,
LEMMA InitialResetInv == Init => ResetInv
<1> SUFFICES ASSUME Init
             PROVE  ResetInv
  OBVIOUS
<1>1. PowerupQuiet /\ (powerup_done => ClocksAgree)
  BY DEF Init, CtrlInit, Chip0!DeviceInit, PowerupQuiet
<1>2. state = "BOOT_PRECHARGE" /\ rData = None
  BY DEF Init, CtrlInit
<1>3. TasksLegal /\ ClosedAtBoot
  BY InitialBankInv DEF BankInv
<1>4. QED
  BY <1>1, <1>2, <1>3 DEF ResetInv

\* and a reset, which forgets every task, establishes it again.
LEMMA ResetKeepsResetInv ==
  ASSUME ResetInv, Reset
  PROVE  ResetInv'
<1> USE DEF Reset, CtrlReset, deviceVars
<1>1. PowerupQuiet' /\ (powerup_done => ClocksAgree)'
  BY DEF PowerupQuiet
<1>2. state' = "BOOT_PRECHARGE" /\ rData' = None /\ pins' = pins /\ open' = open
  OBVIOUS
<1>3. TasksLegal'
  BY <1>2 DEF ResetInv, TasksLegal, LegalOn
<1>4. ClosedAtBoot'
  BY DEF ClosedAtBoot
<1>5. QED
  BY <1>1, <1>2, <1>3, <1>4 DEF ResetInv

\* Every step of the specification with resets keeps ResetInv.
LEMMA ResetInvInductive ==
  TypeOK /\ ResetInv /\ [Next \/ Reset]_vars => ResetInv'
<1> SUFFICES ASSUME TypeOK, ResetInv, [Next \/ Reset]_vars
             PROVE  ResetInv'
  OBVIOUS
<1>1. CASE Next
  <2>1. Offers \subseteq Cmds \cup {None}
    BY DEF Offers
  <2>2. QED
    BY <1>1, <2>1, CycleKeepsResetInv DEF Next
<1>2. CASE Reset
  BY <1>2, ResetKeepsResetInv
<1>3. CASE UNCHANGED vars
  BY <1>3 DEF vars, ctrlVars, frontendVars, timingVars, chipVars, deviceVars, ResetInv,
              PowerupQuiet, ClocksAgree, TasksLegal, RowsKnown, ClosedAtBoot, LegalOn,
              OpenAfter, RowsInUse
<1>4. QED
  BY <1>1, <1>2, <1>3

\* ResetInv is what the frontend can rely on.
THEOREM ResetsForgiven == ResetSpec => []ResetInv
  BY TypesCorrect, InitialResetInv, ResetInvInductive, PTL DEF ResetSpec

\* A legal task on the pins is what the chip's rules ask for.
LEMMA LegalPins ==
  ResetInv => BanksLegal /\ RowsAgree
<1> SUFFICES ASSUME ResetInv
             PROVE  BanksLegal /\ RowsAgree
  OBVIOUS
<1>1. LegalOn(pins, open)
  BY DEF ResetInv, TasksLegal
<1>2. BanksLegal
  BY <1>1 DEF LegalOn, BanksLegal, Chip0!BankRules, Chip0!IsOp, Chip0!IsOpOn
<1>3. RowsAgree
  BY DEF ResetInv, RowsAgree
<1>4. QED
  BY <1>2, <1>3

\* No row is opened on an open bank, no column addressed on a closed one, no
\* refresh or mode command executed while a bank is open.
THEOREM BanksAlwaysLegal == ResetSpec => []BanksLegal
  BY ResetsForgiven, LegalPins, PTL

\* The frontend's idea of the open rows is right.
THEOREM RowsAlwaysAgree == ResetSpec => []RowsAgree
  BY ResetsForgiven, LegalPins, PTL

\* Without resets the stronger invariant is inductive.
LEMMA BankInvInductive ==
  TypeOK /\ BankInv /\ [Next]_vars => BankInv'
<1> SUFFICES ASSUME TypeOK, BankInv, [Next]_vars
             PROVE  BankInv'
  OBVIOUS
<1>1. CASE Next
  <2>1. Offers \subseteq Cmds \cup {None}
    BY DEF Offers
  <2>2. QED
    BY <1>1, <2>1, CycleKeepsBankInv DEF Next
<1>2. CASE UNCHANGED vars
  BY <1>2 DEF vars, ctrlVars, frontendVars, chipVars, deviceVars, BankInv, ClocksAgree,
              TasksLegal, RowsKnown, ClosedAtBoot, LegalOn, OpenAfter, RowsInUse
<1>3. QED
  BY <1>1, <1>2

\* A specification without resets is one with them.
LEMMA SpecTypes == Spec => []TypeOK
<1>1. [Next]_vars => [Next \/ Reset]_vars
  OBVIOUS
<1>2. QED
  BY <1>1, TypesCorrect, PTL DEF Spec, ResetSpec

\* Without resets the frontend knows the open rows from the start.
THEOREM TasksAlwaysLegal == Spec => []BankInv
  BY SpecTypes, InitialBankInv, BankInvInductive, PTL DEF Spec

(***************************************************************************)
(* The boot sequence.                                                      *)
(***************************************************************************)
\* The three ways the pipeline moves once the clocks agree: the task reaches the
\* pins, a bubble does, or the chip's clock is stopped.
TaskMoves  == rspReady /\ clkEnable /\ pins' = rData
BubbleMoves == ~rspReady /\ clkEnable /\ pins' = None
Stopped    == /\ ~clkEnable /\ pins' = pins /\ UNCHANGED <<open, mode, refreshes>>
              /\ rspReady => rData = None

\* In one cycle the tasks move on behind a new one, or behind a bubble, or
\* the clock of the chip is stopped and nothing moves.
LEMMA PipelineMoves ==
  ASSUME ClocksAgree, NEW rsp_ready, Chip(issued, rsp_ready, Chip0!dq), Chip0!DeviceEdge
  PROVE  TaskMoves \/ BubbleMoves \/ Stopped
<1>1. CASE clkEnable /\ rspReady
  BY <1>1 DEF TaskMoves, Chip, ClocksAgree, issued, rspReady, taskTaken, insertBubble
<1>2. CASE clkEnable /\ ~rspReady
  BY <1>2 DEF BubbleMoves, Chip, ClocksAgree, issued, rspReady, taskTaken, insertBubble
<1>3. CASE ~clkEnable
  BY <1>3 DEF Stopped, Chip, Chip0!DeviceEdge, ClocksAgree, rspReady, taskTaken
<1>4. QED
  BY <1>1, <1>2, <1>3

\* The chip counts the refresh on its pins, up to the number it needs, and knows
\* its mode once it has executed MODE.
LEMMA ChipBoots ==
  ASSUME TypeOK, clkEnable, Chip0!DeviceEdge
  PROVE  /\ \A k \in 0..(BootRefreshMax + 1) :
              refreshes + Refreshing(pins) >= k => refreshes' >= k
         /\ mode' # None <=> ModeKnown(pins)
<1>1. Chip0!Execute
  BY DEF Chip0!DeviceEdge
<1>2. refreshes \in 0..(BootRefreshMax + 1) /\ pins \in TaskSet \cup {None} /\ BootRefreshMax \in Nat
  BY SizesAssumption DEF TypeOK, DeviceTypes, ChipTypes
<1>3. refreshes' = IF Chip0!IsOp("REFRESH") /\ refreshes < BootRefreshMax + 1
                   THEN refreshes + 1 ELSE refreshes
  BY <1>1 DEF Chip0!Execute
<1>4. \A k \in 0..(BootRefreshMax + 1) : refreshes + Refreshing(pins) >= k => refreshes' >= k
  BY <1>2, <1>3 DEF Refreshing, Chip0!IsOp
<1>5. Chip0!IsOp("MODE") => pins.arg # None
  BY <1>2, NoneAssumption DEF Chip0!IsOp, TaskSet
<1>6. mode' # None <=> ModeKnown(pins)
  BY <1>1, <1>5 DEF Chip0!Execute, ModeKnown, Chip0!IsOp
<1>7. QED
  BY <1>4, <1>6

\* What the frontend does in the boot sequence, and that it never returns to it.
LEMMA FrontendBoots ==
  ASSUME FrontendTypes, NEW cmd \in Cmds \cup {None}, Frontend(cmd, TRUE)
  PROVE  \/ /\ state = "BOOT_PRECHARGE" /\ state' \in {"BOOT_PRECHARGE", "BOOT_REFRESH"}
            /\ bootCounter' = bootCounter
            /\ rData' = None \/ rData'.task = "PRECHARGE_ALL"
         \/ /\ state = "BOOT_REFRESH" /\ rData' # None /\ rData'.task = "REFRESH"
            /\ \/ /\ state' = "BOOT_REFRESH" /\ bootCounter' = bootCounter + 1
                  /\ bootCounter < BootRefreshMax
               \/ state' = "BOOT_MODE" /\ bootCounter = BootRefreshMax /\ bootCounter' = 0
         \/ /\ state = "BOOT_MODE" /\ state' = "RUN" /\ bootCounter' = bootCounter
            /\ rData' # None /\ rData'.task = "MODE"
         \/ /\ state = "RUN" /\ state' = "RUN" /\ bootCounter' = bootCounter
            /\ rData' = None \/ rData'.task # "MODE"
<1> USE DEF Emit, Task
<1>1. CASE Powerup
  BY <1>1 DEF Powerup
<1>2. CASE BootPrecharge
  BY <1>2 DEF BootPrecharge
<1>3. CASE BootRefresh
  <2>1. bootCounter \in 0..BootRefreshMax /\ BootRefreshMax \in Nat
    BY SizesAssumption DEF FrontendTypes
  <2>2. /\ bootCounter = BootRefreshMax => (bootCounter + 1) % (BootRefreshMax + 1) = 0
        /\ bootCounter # BootRefreshMax =>
             (bootCounter + 1) % (BootRefreshMax + 1) = bootCounter + 1 /\ bootCounter < BootRefreshMax
    BY <2>1
  <2>3. rData' # None /\ rData'.task = "REFRESH"
    BY <1>3, TasksOfTheController, NoneAssumption DEF BootRefresh
  <2>4. QED
    BY <1>3, <2>2, <2>3 DEF BootRefresh
<1>4. CASE BootMode
  BY <1>4, TasksOfTheController, NoneAssumption DEF BootMode
<1>5. CASE RefreshPrecharge
  BY <1>5 DEF RefreshPrecharge
<1>6. CASE Refresh
  BY <1>6 DEF Refresh
<1>7. CASE Precharge(cmd)
  BY <1>7 DEF Precharge, Serving
<1>8. CASE Activate(cmd)
  BY <1>8 DEF Activate, Serving
<1>9. CASE Access(cmd)
  BY <1>9 DEF Access, Serving
<1>10. CASE Idle(cmd)
  BY <1>10 DEF Idle
<1>11. QED
  BY <1>1, <1>2, <1>3, <1>4, <1>5, <1>6, <1>7, <1>8, <1>9, <1>10 DEF Frontend

\* What is counted up to a bound, with at most one more that is not counted yet.
LEMMA CountedAndOne ==
  ASSUME NEW r \in Nat, NEW r1 \in Nat, NEW top \in Nat, NEW p \in {0, 1}, NEW one \in {0, 1},
         \A k \in 0..top : r + p >= k => r1 >= k
  PROVE  \A k \in 0..top : r + p + one >= k => r1 + one >= k
<1> TAKE k \in 0..top
<1>1. CASE one = 0 \/ k = 0
  BY <1>1
<1>2. CASE one = 1 /\ k # 0
  <2>1. k - 1 \in 0..top
    BY <1>2
  <2>2. r + p >= k - 1 => r1 >= k - 1
    BY <2>1
  <2>3. QED
    BY <1>2, <2>2
<1>3. QED
  BY <1>1, <1>2

\* What the boot sequence has sent is on its way: whatever the pipeline does, the
\* chip has counted it, or will with the task on its pins.
LEMMA PipelineBoots ==
  ASSUME TypeOK, Chip0!DeviceEdge, TaskMoves \/ BubbleMoves \/ Stopped
  PROVE  /\ \A k \in 0..(BootRefreshMax + 1) :
              /\ refreshes + Refreshing(pins) >= k => refreshes' + Refreshing(pins') >= k
              /\ rspReady /\ refreshes + Refreshing(pins) + Refreshing(rData) >= k
                   => refreshes' + Refreshing(pins') >= k
              /\ rData' = rData /\ refreshes + Refreshing(pins) + Refreshing(rData) >= k
                 /\ ~rspReady
                   => refreshes' + Refreshing(pins') + Refreshing(rData') >= k
         /\ ModeKnown(pins) => ModeKnown(pins)'
         /\ rspReady /\ IsTask("MODE") => ModeKnown(pins)'
<1>1. /\ refreshes \in Nat /\ refreshes \in 0..(BootRefreshMax + 1)
      /\ refreshes' \in Nat /\ BootRefreshMax \in Nat
  BY SizesAssumption DEF TypeOK, DeviceTypes, Chip0!DeviceEdge, Chip0!Execute
<1>2. \A op : Refreshing(op) \in {0, 1} /\ Refreshing(None) = 0
  BY DEF Refreshing
<1>3. CASE TaskMoves
  <2>1. /\ \A k \in 0..(BootRefreshMax + 1) :
             refreshes + Refreshing(pins) >= k => refreshes' >= k
        /\ mode' # None <=> ModeKnown(pins)
    BY <1>3, ChipBoots DEF TaskMoves
  <2>2. pins' = rData /\ rspReady
    BY <1>3 DEF TaskMoves
  <2>3. \A k \in 0..(BootRefreshMax + 1) :
          refreshes + Refreshing(pins) + Refreshing(rData) >= k => refreshes' + Refreshing(rData) >= k
    BY <1>1, <1>2, <2>1, CountedAndOne
  <2>4. \A k \in 0..(BootRefreshMax + 1) :
          refreshes + Refreshing(pins) >= k => refreshes' + Refreshing(rData) >= k
    BY <1>1, <1>2, <2>1
  <2>5. ModeKnown(pins) \/ IsTask("MODE") => ModeKnown(pins)'
    BY <2>1, <2>2 DEF ModeKnown, IsTask
  <2>6. QED
    BY <2>2, <2>3, <2>4, <2>5
<1>4. CASE BubbleMoves
  <2>1. /\ \A k \in 0..(BootRefreshMax + 1) :
             refreshes + Refreshing(pins) >= k => refreshes' >= k
        /\ mode' # None <=> ModeKnown(pins)
    BY <1>4, ChipBoots DEF BubbleMoves
  <2>2. pins' = None /\ ~rspReady
    BY <1>4 DEF BubbleMoves
  <2>3. \A k \in 0..(BootRefreshMax + 1) :
          refreshes + Refreshing(pins) + Refreshing(rData) >= k => refreshes' + Refreshing(rData) >= k
    BY <1>1, <1>2, <2>1, CountedAndOne
  <2>4. \A k \in 0..(BootRefreshMax + 1) :
          refreshes + Refreshing(pins) >= k => refreshes' + Refreshing(pins') >= k
    BY <1>1, <1>2, <2>1, <2>2
  <2>5. ModeKnown(pins) => ModeKnown(pins)'
    BY <2>1 DEF ModeKnown
  <2>6. ASSUME NEW k \in 0..(BootRefreshMax + 1), rData' = rData,
               refreshes + Refreshing(pins) + Refreshing(rData) >= k
        PROVE  refreshes' + Refreshing(pins') + Refreshing(rData') >= k
    BY <1>1, <1>2, <2>2, <2>3, <2>6
  <2>7. QED
    BY <2>2, <2>4, <2>5, <2>6
<1>5. CASE Stopped
  <2>1. pins' = pins /\ refreshes' = refreshes /\ mode' = mode /\ (rspReady => rData = None)
    BY <1>5 DEF Stopped
  <2>2. (rspReady /\ IsTask("MODE") => ModeKnown(pins)') /\ (ModeKnown(pins) => ModeKnown(pins)')
    BY <2>1 DEF ModeKnown, IsTask
  <2>3. rspReady => Refreshing(rData) = 0
    BY <1>2, <2>1
  <2>4. QED
    BY <1>1, <1>2, <2>1, <2>2, <2>3
<1>6. QED
  BY <1>3, <1>4, <1>5

\* One cycle keeps the order of the boot sequence.
LEMMA CycleKeepsBootInv ==
  ASSUME TypeOK, ResetInv, BootInv, NEW cmd \in Cmds \cup {None}, NEW rsp_ready \in BOOLEAN,
         Cycle(cmd, rsp_ready)
  PROVE  BootInv'
<1>1. /\ Frontend(cmd, rspReady) /\ Chip(issued, rsp_ready, Chip0!dq) /\ Chip0!DeviceEdge
      /\ FrontendTypes /\ BootRefreshMax \in Nat /\ bootCounter \in 0..BootRefreshMax
      /\ refreshes \in 0..(BootRefreshMax + 1) /\ refreshes' \in 0..(BootRefreshMax + 1)
  BY SizesAssumption, CycleKeepsTypes DEF Cycle, Clock, TypeOK, DeviceTypes, FrontendTypes
<1>2. \A op : Refreshing(op) \in {0, 1}
  BY DEF Refreshing
<1>3. CASE ~powerup_done
  <2>1. /\ state' = "BOOT_PRECHARGE" /\ rData' = None /\ pins' = None
        /\ bootCounter' = bootCounter /\ state = "BOOT_PRECHARGE"
    BY <1>3, PowerupStep DEF ResetInv, PowerupQuiet
  <2>2. QED
    BY <2>1 DEF BootInv, IsTask, OnOpenRow, Chip0!BootRules, Chip0!IsOp
<1>4. CASE powerup_done
  <2>1. TaskMoves \/ BubbleMoves \/ Stopped
    BY <1>1, <1>4, PipelineMoves DEF ResetInv
  <2>2. /\ \A k \in 0..(BootRefreshMax + 1) :
             /\ refreshes + Refreshing(pins) >= k => refreshes' + Refreshing(pins') >= k
             /\ rspReady /\ refreshes + Refreshing(pins) + Refreshing(rData) >= k
                  => refreshes' + Refreshing(pins') >= k
             /\ rData' = rData /\ refreshes + Refreshing(pins) + Refreshing(rData) >= k
                /\ ~rspReady
                  => refreshes' + Refreshing(pins') + Refreshing(rData') >= k
        /\ ModeKnown(pins) => ModeKnown(pins)'
        /\ rspReady /\ IsTask("MODE") => ModeKnown(pins)'
    BY <1>1, <2>1, PipelineBoots
  <2>3. Chip0!BootRules'
    <3>1. CASE TaskMoves
      <4>1. IsTask("MODE") => refreshes' = BootRefreshMax + 1
        <5>1. /\ IsTask("MODE") => refreshes + Refreshing(pins) >= BootRefreshMax + 1
              /\ BootRefreshMax + 1 \in 0..(BootRefreshMax + 1)
          BY <1>1 DEF BootInv
        <5>2. IsTask("MODE") => refreshes' >= BootRefreshMax + 1
          BY <1>1, <3>1, <5>1, ChipBoots DEF TaskMoves
        <5>3. QED
          BY <1>1, <5>2
      <4>2. OnOpenRow(rData) => mode' # None
        BY <1>1, <3>1, ChipBoots DEF TaskMoves, BootInv
      <4>3. pins' = rData
        BY <3>1 DEF TaskMoves
      <4>4. QED
        BY <4>1, <4>2, <4>3 DEF Chip0!BootRules, Chip0!IsOp, IsTask, OnOpenRow
    <3>2. CASE BubbleMoves
      BY <3>2 DEF BubbleMoves, Chip0!BootRules, Chip0!IsOp
    <3>3. CASE Stopped
      BY <3>3 DEF Stopped, Chip0!BootRules, Chip0!IsOp, BootInv
    <3>4. QED
      BY <2>1, <3>1, <3>2, <3>3
  <2>4. CASE rspReady
    <3>1. Frontend(cmd, TRUE)
      BY <1>1, <2>4 DEF Frontend
    <3>2. CASE state = "BOOT_PRECHARGE"
      <4>1. /\ state' \in {"BOOT_PRECHARGE", "BOOT_REFRESH"} /\ bootCounter' = bootCounter
            /\ bootCounter = 0
            /\ rData' = None \/ rData'.task = "PRECHARGE_ALL"
        BY <1>1, <3>1, <3>2, FrontendBoots DEF BootInv
      <4>2. refreshes' + Refreshing(pins') + Refreshing(rData') >= 0
        BY <1>1, <1>2
      <4>3. QED
        BY <2>3, <4>1, <4>2 DEF BootInv, IsTask, OnOpenRow
    <3>3. CASE state = "BOOT_REFRESH"
      <4>1. /\ rData' # None /\ rData'.task = "REFRESH" /\ Refreshing(rData') = 1
            /\ \/ /\ state' = "BOOT_REFRESH" /\ bootCounter' = bootCounter + 1
                  /\ bootCounter < BootRefreshMax
               \/ state' = "BOOT_MODE" /\ bootCounter = BootRefreshMax /\ bootCounter' = 0
        BY <1>1, <3>1, <3>3, FrontendBoots DEF Refreshing
      <4>2. refreshes' + Refreshing(pins') >= bootCounter
        BY <1>1, <2>2, <2>4, <3>3 DEF BootInv
      <4>3. refreshes' + Refreshing(pins') + Refreshing(rData') >= bootCounter + 1
        BY <1>1, <1>2, <4>1, <4>2
      <4>4. QED
        BY <2>3, <4>1, <4>3 DEF BootInv, IsTask, OnOpenRow
    <3>4. CASE state = "BOOT_MODE"
      <4>1. /\ state' = "RUN" /\ bootCounter' = bootCounter /\ rData' # None
            /\ rData'.task = "MODE" /\ bootCounter = 0
        BY <1>1, <3>1, <3>4, FrontendBoots DEF BootInv
      <4>2. refreshes' + Refreshing(pins') >= BootRefreshMax + 1
        BY <1>1, <2>2, <2>4, <3>4 DEF BootInv
      <4>3. QED
        BY <2>3, <4>1, <4>2 DEF BootInv, IsTask, OnOpenRow
    <3>5. CASE state = "RUN"
      <4>1. /\ state' = "RUN" /\ bootCounter' = bootCounter /\ bootCounter = 0
            /\ rData' = None \/ rData'.task # "MODE"
        BY <1>1, <3>1, <3>5, FrontendBoots DEF BootInv
      <4>2. ModeKnown(pins)'
        BY <2>2, <2>4, <3>5 DEF BootInv
      <4>3. QED
        BY <2>3, <4>1, <4>2 DEF BootInv, IsTask, OnOpenRow
    <3>6. QED
      BY <1>1, <3>2, <3>3, <3>4, <3>5 DEF FrontendTypes
  <2>5. CASE ~rspReady
    <3>1. rData' = rData /\ state' = state /\ bootCounter' = bootCounter
      BY <1>1, <2>5 DEF Frontend, Stalled
    <3>2. /\ state = "BOOT_REFRESH" =>
               refreshes' + Refreshing(pins') + Refreshing(rData') >= bootCounter
          /\ state = "BOOT_MODE" =>
               refreshes' + Refreshing(pins') + Refreshing(rData') >= BootRefreshMax + 1
          /\ IsTask("MODE") => refreshes' + Refreshing(pins') >= BootRefreshMax + 1
      <4>1. bootCounter \in 0..(BootRefreshMax + 1) /\ BootRefreshMax + 1 \in 0..(BootRefreshMax + 1)
        BY <1>1
      <4>2. QED
        BY <2>2, <2>5, <3>1, <4>1 DEF BootInv
    <3>3. /\ state = "RUN" => ModeKnown(pins)' \/ IsTask("MODE")
          /\ OnOpenRow(rData) => ModeKnown(pins)'
      BY <2>2 DEF BootInv
    <3>4. QED
      BY <2>3, <3>1, <3>2, <3>3 DEF BootInv, IsTask
  <2>6. QED
    BY <2>4, <2>5
<1>5. QED
  BY <1>3, <1>4

\* It holds at the start,
LEMMA InitialBootInv == Init => BootInv
  BY SizesAssumption
     DEF Init, CtrlInit, Chip0!DeviceInit, BootInv, IsTask, OnOpenRow, Chip0!BootRules, Chip0!IsOp

\* and every step keeps it, a reset too.
LEMMA BootInvInductive ==
  TypeOK /\ ResetInv /\ BootInv /\ [Next \/ Reset]_vars => BootInv'
<1> SUFFICES ASSUME TypeOK, ResetInv, BootInv, [Next \/ Reset]_vars
             PROVE  BootInv'
  OBVIOUS
<1>1. CASE Next
  <2>1. Offers \subseteq Cmds \cup {None}
    BY DEF Offers
  <2>2. QED
    BY <1>1, <2>1, CycleKeepsBootInv DEF Next
<1>2. CASE Reset
  BY <1>2 DEF Reset, CtrlReset, deviceVars, BootInv, IsTask, OnOpenRow, Chip0!BootRules, Chip0!IsOp
<1>3. CASE UNCHANGED vars
  BY <1>3 DEF vars, ctrlVars, frontendVars, chipVars, deviceVars, BootInv, IsTask, OnOpenRow,
              ModeKnown, Chip0!BootRules, Chip0!IsOp
<1>4. QED
  BY <1>1, <1>2, <1>3

\* The chip sees the refreshes it needs before MODE, and no row is opened or
\* addressed before MODE, also in a boot sequence that follows a reset at any
\* moment of an earlier one.
THEOREM BootAlwaysLegal == ResetSpec => []BootLegal
<1>1. BootInv => BootLegal
  BY DEF BootInv, BootLegal
<1>2. QED
  BY <1>1, TypesCorrect, ResetsForgiven, InitialBootInv, BootInvInductive, PTL DEF ResetSpec

(***************************************************************************)
(* The distance between commands.                                          *)
(***************************************************************************)
\* A counter of the bubble inserter runs down by at most one, and not while the
\* chip's clock is stopped; a task that is taken raises it to its reload value.
LEMMA ReloadBounds ==
  ASSUME NEW c \in Nat, NEW val \in Nat, NEW taken \in BOOLEAN
  PROVE  /\ Reload(c, val, taken) \in Nat /\ Reload(c, val, taken) >= c - 1
         /\ rData # None /\ taken => Reload(c, val, taken) >= val
         /\ ~taken /\ ~remoteCke => Reload(c, val, taken) = c
  BY DEF Reload, Dec

\* An age grows by one and keeps its bound once there: what a counter that runs
\* down by at most one covers stays covered.
LEMMA AgeCovers ==
  \A max \in Nat \ {0} : \A age \in 1..max, need \in 0..max, c, c1 \in Nat :
    age + c >= need /\ c1 >= c - 1 => Chip0!Age(age, FALSE, max) + c1 >= need
  BY DEF Chip0!Age

\* An age that has its bound keeps it, one that has not grows.
LEMMA AgeGrows ==
  \A max \in Nat \ {0} : \A age \in 1..max, n \in Nat :
    age >= max \/ age >= n
      => Chip0!Age(age, FALSE, max) >= max \/ Chip0!Age(age, FALSE, max) >= n + 1
  BY DEF Chip0!Age

\* An age starts at 1.
LEMMA AgeStarts == \A max, age : Chip0!Age(age, TRUE, max) = 1
  BY DEF Chip0!Age

\* The ages after the chip has executed its pins are those that were awaited.
LEMMA AgesExecuted ==
  ASSUME clkEnable, Chip0!DeviceEdge
  PROVE  /\ \A b \in Banks : sinceActive'[b] = ActiveAge(b) /\ sinceWrite'[b] = WriteAge(b)
         /\ sinceAll'["REFRESH"] = RefreshAge /\ sinceAll'["MODE"] = ModeAge
<1>1. Chip0!Execute
  BY DEF Chip0!DeviceEdge
<1>2. \A b \in Banks : sinceActive'[b] = ActiveAge(b) /\ sinceWrite'[b] = WriteAge(b)
  BY <1>1 DEF Chip0!Execute, ActiveAge, WriteAge
<1>3. sinceAll'["REFRESH"] = RefreshAge /\ sinceAll'["MODE"] = ModeAge
  BY <1>1 DEF Chip0!Execute, RefreshAge, ModeAge
<1>4. QED
  BY <1>2, <1>3

\* Ages are counted up to the spacing they are compared with.
LEMMA AgesInRange ==
  ASSUME TypeOK
  PROVE  /\ \A b \in Banks : ActiveAge(b) \in 1..tRC /\ WriteAge(b) \in 1..tWR
         /\ RefreshAge \in 1..tRFC /\ ModeAge \in 1..tMRD
<1>1. /\ tRC \in Nat \ {0} /\ tWR \in Nat \ {0} /\ tRFC \in Nat \ {0} /\ tMRD \in Nat \ {0}
      /\ \A b \in Banks : sinceActive[b] \in 1..tRC /\ sinceWrite[b] \in 1..tWR
      /\ sinceAll["REFRESH"] \in 1..tRFC /\ sinceAll["MODE"] \in 1..tMRD
  BY TimingAssumption DEF TypeOK, DeviceTypes
<1>2. QED
  BY <1>1, AgeInRange DEF ActiveAge, WriteAge, RefreshAge, ModeAge

\* What the counters do in a cycle.
LEMMA CountersRun ==
  ASSUME TypeOK, BubbleInserter(taskTaken)
  PROVE  /\ write_counter' \in Nat /\ write_counter' >= write_counter - 1
         /\ \A b \in Banks :
              /\ precharge_counter'[b] \in Nat /\ precharge_counter'[b] >= precharge_counter[b] - 1
              /\ active_counter'[b] \in Nat /\ active_counter'[b] >= active_counter[b] - 1
         /\ rData # None /\ taskTaken =>
              /\ write_counter' >= WriteReload
              /\ \A b \in Banks : /\ precharge_counter'[b] >= PrechargeReload(b)
                                  /\ active_counter'[b] >= ActiveReload(b)
         /\ ~remoteCke =>
              /\ write_counter' = write_counter
              /\ \A b \in Banks : /\ precharge_counter'[b] = precharge_counter[b]
                                  /\ active_counter'[b] = active_counter[b]
<1>1. /\ write_counter \in Nat /\ WriteReload \in Nat /\ taskTaken \in BOOLEAN
      /\ \A b \in Banks : /\ precharge_counter[b] \in Nat /\ PrechargeReload(b) \in Nat
                          /\ active_counter[b] \in Nat /\ ActiveReload(b) \in Nat
  BY DEF TypeOK, BubbleTypes, ChipTypes, WriteReload, PrechargeReload, ActiveReload, taskTaken
<1>2. ~remoteCke => ~taskTaken
  BY DEF taskTaken
<1>3. /\ write_counter' = Reload(write_counter, WriteReload, taskTaken)
      /\ \A b \in Banks :
           /\ precharge_counter'[b] = Reload(precharge_counter[b], PrechargeReload(b), taskTaken)
           /\ active_counter'[b] = Reload(active_counter[b], ActiveReload(b), taskTaken)
  BY DEF BubbleInserter
<1>4. /\ write_counter' \in Nat /\ write_counter' >= write_counter - 1
      /\ rData # None /\ taskTaken => write_counter' >= WriteReload
      /\ ~remoteCke => write_counter' = write_counter
  BY <1>1, <1>2, <1>3, ReloadBounds
<1>5. ASSUME NEW b \in Banks
      PROVE  /\ precharge_counter'[b] \in Nat /\ precharge_counter'[b] >= precharge_counter[b] - 1
             /\ rData # None /\ taskTaken => precharge_counter'[b] >= PrechargeReload(b)
             /\ ~remoteCke => precharge_counter'[b] = precharge_counter[b]
  <2>1. /\ precharge_counter[b] \in Nat /\ PrechargeReload(b) \in Nat /\ taskTaken \in BOOLEAN
        /\ precharge_counter'[b] = Reload(precharge_counter[b], PrechargeReload(b), taskTaken)
    BY <1>1, <1>3
  <2>2. QED
    BY <1>2, <2>1, ReloadBounds
<1>6. ASSUME NEW b \in Banks
      PROVE  /\ active_counter'[b] \in Nat /\ active_counter'[b] >= active_counter[b] - 1
             /\ rData # None /\ taskTaken => active_counter'[b] >= ActiveReload(b)
             /\ ~remoteCke => active_counter'[b] = active_counter[b]
  <2>1. /\ active_counter[b] \in Nat /\ ActiveReload(b) \in Nat /\ taskTaken \in BOOLEAN
        /\ active_counter'[b] = Reload(active_counter[b], ActiveReload(b), taskTaken)
    BY <1>1, <1>3
  <2>2. QED
    BY <1>2, <2>1, ReloadBounds
<1>7. QED
  BY <1>4, <1>5, <1>6

\* The counters wait for what the ages lack, whatever the chip executes next.
LEMMA ClockedKeepsAges ==
  ASSUME TypeOK, AgesCounted, clkEnable, Chip0!DeviceEdge, BubbleInserter(taskTaken),
         \/ pins' = None
         \/ pins' = rData /\ taskTaken
  PROVE  AgesCounted'
<1>1. /\ \A b \in Banks : sinceActive'[b] = ActiveAge(b) /\ sinceWrite'[b] = WriteAge(b)
      /\ sinceAll'["REFRESH"] = RefreshAge /\ sinceAll'["MODE"] = ModeAge
  BY AgesExecuted
<1>2. /\ \A b \in Banks : ActiveAge(b) \in 1..tRC /\ WriteAge(b) \in 1..tWR
      /\ RefreshAge \in 1..tRFC /\ ModeAge \in 1..tMRD
  BY AgesInRange
<1>3. /\ tRC \in Nat \ {0} /\ tRC <= 3 /\ tRAS \in 0..tRC /\ tWR \in Nat \ {0} /\ tWR <= 2
      /\ tRFC \in Nat \ {0} /\ tRFC <= 4 /\ tMRD \in Nat \ {0} /\ tMRD <= 2
  BY TimingAssumption
<1>4. ASSUME NEW b \in Banks
      PROVE  /\ ActiveAge(b)' + precharge_counter'[b] >= tRAS
             /\ ActiveAge(b)' + active_counter'[b] >= tRC
  <2>1. ActiveAge(b)' = Chip0!Age(ActiveAge(b), Chip0!IsOpOn("ACTIVE", b)', tRC)
    BY <1>1 DEF ActiveAge
  <2>2. CASE Chip0!IsOpOn("ACTIVE", b)'
    <3>1. rData # None /\ taskTaken /\ IsTaskOn("ACTIVE", b)
      BY <2>2 DEF Chip0!IsOpOn, Chip0!IsOp, IsTaskOn, IsTask
    <3>2. PrechargeReload(b) = 2 /\ ActiveReload(b) = 2
      BY <3>1 DEF PrechargeReload, ActiveReload, IsTaskOn, IsTask
    <3>3. precharge_counter'[b] >= 2 /\ active_counter'[b] >= 2
          /\ precharge_counter'[b] \in Nat /\ active_counter'[b] \in Nat
      BY <3>1, <3>2, CountersRun
    <3>4. ActiveAge(b)' = 1
      BY <2>1, <2>2, AgeStarts
    <3>5. QED
      BY <1>3, <3>3, <3>4
  <2>3. CASE ~Chip0!IsOpOn("ACTIVE", b)'
    <3>1. ActiveAge(b)' = Chip0!Age(ActiveAge(b), FALSE, tRC)
      BY <2>1, <2>3 DEF Chip0!Age
    <3>2. /\ ActiveAge(b) + precharge_counter[b] >= tRAS
          /\ ActiveAge(b) + active_counter[b] >= tRC
          /\ precharge_counter[b] \in Nat /\ active_counter[b] \in Nat
      BY DEF AgesCounted, TypeOK, BubbleTypes
    <3>3. /\ precharge_counter'[b] \in Nat /\ precharge_counter'[b] >= precharge_counter[b] - 1
          /\ active_counter'[b] \in Nat /\ active_counter'[b] >= active_counter[b] - 1
      BY CountersRun
    <3>4. tRC \in Nat \ {0} /\ tRAS \in 0..tRC /\ tRC \in 0..tRC /\ ActiveAge(b) \in 1..tRC
      BY <1>2, <1>3
    <3>5. ActiveAge(b)' + precharge_counter'[b] >= tRAS
      BY <3>1, <3>2, <3>3, <3>4, AgeCovers
    <3>6. ActiveAge(b)' + active_counter'[b] >= tRC
      BY <3>1, <3>2, <3>3, <3>4, AgeCovers
    <3>7. QED
      BY <3>5, <3>6
  <2>4. QED
    BY <2>2, <2>3
<1>5. ASSUME NEW b \in Banks
      PROVE  WriteAge(b)' + precharge_counter'[b] >= tWR
  <2>1. WriteAge(b)' = Chip0!Age(WriteAge(b), Chip0!IsOpOn("WRITE", b)', tWR)
    BY <1>1 DEF WriteAge
  <2>2. CASE Chip0!IsOpOn("WRITE", b)'
    <3>1. rData # None /\ taskTaken /\ PrechargeReload(b) = 1
      BY <2>2 DEF Chip0!IsOpOn, Chip0!IsOp, IsTaskOn, IsTask, PrechargeReload
    <3>2. precharge_counter'[b] >= 1 /\ precharge_counter'[b] \in Nat
      BY <3>1, CountersRun
    <3>3. WriteAge(b)' = 1
      BY <2>1, <2>2, AgeStarts
    <3>4. QED
      BY <1>3, <3>2, <3>3
  <2>3. CASE ~Chip0!IsOpOn("WRITE", b)'
    <3>1. WriteAge(b)' = Chip0!Age(WriteAge(b), FALSE, tWR)
      BY <2>1, <2>3 DEF Chip0!Age
    <3>2. WriteAge(b) + precharge_counter[b] >= tWR /\ precharge_counter[b] \in Nat
      BY DEF AgesCounted, TypeOK, BubbleTypes
    <3>3. precharge_counter'[b] \in Nat /\ precharge_counter'[b] >= precharge_counter[b] - 1
      BY CountersRun
    <3>4. tWR \in 0..tWR
      BY <1>3
    <3>5. QED
      BY <1>2, <1>3, <3>1, <3>2, <3>3, <3>4, AgeCovers
  <2>4. QED
    BY <2>2, <2>3
<1>6. ASSUME NEW b \in Banks
      PROVE  /\ RefreshAge' + active_counter'[b] >= tRFC
             /\ ModeAge' + active_counter'[b] >= tMRD
  <2>1. /\ RefreshAge' = Chip0!Age(RefreshAge, Chip0!IsOp("REFRESH")', tRFC)
        /\ ModeAge' = Chip0!Age(ModeAge, Chip0!IsOp("MODE")', tMRD)
    BY <1>1 DEF RefreshAge, ModeAge
  <2>2. /\ RefreshAge + active_counter[b] >= tRFC /\ ModeAge + active_counter[b] >= tMRD
        /\ active_counter[b] \in Nat
        /\ active_counter'[b] \in Nat /\ active_counter'[b] >= active_counter[b] - 1
    BY CountersRun DEF AgesCounted, TypeOK, BubbleTypes
  <2>3. tRFC \in 0..tRFC /\ tMRD \in 0..tMRD
    BY <1>3
  <2>4. RefreshAge' + active_counter'[b] >= tRFC
    <3>1. CASE Chip0!IsOp("REFRESH")'
      <4>1. rData # None /\ taskTaken /\ ActiveReload(b) = 3
        BY <3>1 DEF Chip0!IsOp, IsTask, ActiveReload
      <4>2. active_counter'[b] >= 3
        BY <4>1, CountersRun
      <4>3. RefreshAge' = 1
        BY <2>1, <3>1, AgeStarts
      <4>4. QED
        BY <1>3, <2>2, <4>2, <4>3
    <3>2. CASE ~Chip0!IsOp("REFRESH")'
      <4>1. RefreshAge' = Chip0!Age(RefreshAge, FALSE, tRFC)
        BY <2>1, <3>2 DEF Chip0!Age
      <4>2. QED
        BY <1>2, <1>3, <2>2, <2>3, <4>1, AgeCovers
    <3>3. QED
      BY <3>1, <3>2
  <2>5. ModeAge' + active_counter'[b] >= tMRD
    <3>1. CASE Chip0!IsOp("MODE")'
      <4>1. rData # None /\ taskTaken /\ ActiveReload(b) = 1
        BY <3>1 DEF Chip0!IsOp, IsTask, ActiveReload
      <4>2. active_counter'[b] >= 1
        BY <4>1, CountersRun
      <4>3. ModeAge' = 1
        BY <2>1, <3>1, AgeStarts
      <4>4. QED
        BY <1>3, <2>2, <4>2, <4>3
    <3>2. CASE ~Chip0!IsOp("MODE")'
      <4>1. ModeAge' = Chip0!Age(ModeAge, FALSE, tMRD)
        BY <2>1, <3>2 DEF Chip0!Age
      <4>2. QED
        BY <1>2, <1>3, <2>2, <2>3, <4>1, AgeCovers
    <3>3. QED
      BY <3>1, <3>2
  <2>6. QED
    BY <2>4, <2>5
<1>7. QED
  BY <1>4, <1>5, <1>6 DEF AgesCounted

\* A task that the bubble inserter lets through finds the chip ready for it.
LEMMA IssuedInTime ==
  ASSUME TypeOK, AgesCounted, clkEnable, Chip0!DeviceEdge, taskTaken, pins' = rData
  PROVE  Chip0!TimingRules'
<1>1. /\ \A b \in Banks : sinceActive'[b] = ActiveAge(b) /\ sinceWrite'[b] = WriteAge(b)
      /\ sinceAll'["REFRESH"] = RefreshAge /\ sinceAll'["MODE"] = ModeAge
  BY AgesExecuted
<1>2. /\ \A b \in Banks : ActiveAge(b) \in Nat /\ WriteAge(b) \in Nat
      /\ RefreshAge \in Nat /\ ModeAge \in Nat
  BY AgesInRange
<1>3. \A b \in Banks :
        /\ precharge_counter[b] = 0 => ActiveAge(b) >= tRAS /\ WriteAge(b) >= tWR
        /\ active_counter[b] = 0 => ActiveAge(b) >= tRC /\ RefreshAge >= tRFC /\ ModeAge >= tMRD
  BY <1>2 DEF AgesCounted
<1>4. ~insertBubble /\ rData \in TaskSet \cup {None} /\ 0 \in Banks
  BY SizesAssumption DEF taskTaken, TypeOK, FrontendTypes, Banks
<1>5. ASSUME NEW b \in Banks, Chip0!IsOpOn("ACTIVE", b)' \/ Chip0!IsOp("REFRESH")'
      PROVE  active_counter[b] = 0
  BY <1>4, <1>5 DEF insertBubble, Chip0!IsOpOn, Chip0!IsOp
<1>6. ASSUME NEW b \in Banks, Chip0!IsOp("PRECHARGE_ALL")' \/ Chip0!IsOpOn("PRECHARGE_SINGLE", b)'
      PROVE  precharge_counter[b] = 0
  BY <1>4, <1>6 DEF insertBubble, Chip0!IsOpOn, Chip0!IsOp
<1>7. ASSUME Chip0!IsOp("ACTIVE")' \/ Chip0!IsOp("REFRESH")' \/ Chip0!IsOp("MODE")'
      PROVE  \E b \in Banks : active_counter[b] = 0
  <2>1. CASE Chip0!IsOp("ACTIVE")'
    <3>1. rData.bank \in Banks /\ active_counter[rData.bank] = 0
      BY <1>4, <2>1 DEF insertBubble, Chip0!IsOp, TaskSet
    <3>2. QED
      BY <3>1
  <2>2. CASE Chip0!IsOp("REFRESH")' \/ Chip0!IsOp("MODE")'
    BY <1>4, <2>2 DEF insertBubble, Chip0!IsOp
  <2>3. QED
    BY <1>7, <2>1, <2>2
<1>8. QED
  BY <1>1, <1>3, <1>5, <1>6, <1>7 DEF Chip0!TimingRules

\* The data of a read never meet a write on the bus.
LEMMA ClockedKeepsBus ==
  ASSUME TypeOK, BusAwaited, powerup_done, clkEnable, Chip0!DeviceEdge,
         BubbleInserter(taskTaken), mode' \in {None, CasLatency},
         \/ pins' = None
         \/ pins' = rData /\ taskTaken
  PROVE  /\ Chip0!IsOp("READ")' => write_counter' >= 2
         /\ dqPipe'[1] # None => write_counter' >= 1
         /\ Chip0!BusRules'
<1>1. /\ write_counter \in Nat /\ write_counter' \in Nat /\ write_counter' >= write_counter - 1
      /\ rData # None /\ taskTaken => write_counter' >= WriteReload
  BY CountersRun DEF TypeOK, BubbleTypes
<1>2. dqPipe'[1] = Chip0!Fetched /\ dqPipe'[2] = dqPipe[1]
  BY DEF Chip0!DeviceEdge, Chip0!Execute, Chip0!MaxLatency
<1>3. Chip0!IsOp("READ")' => write_counter' >= 2
  <2>1. Chip0!IsOp("READ")' => rData # None /\ taskTaken /\ WriteReload = 3
    BY DEF Chip0!IsOp, IsTask, WriteReload
  <2>2. QED
    BY <1>1, <2>1
<1>4. dqPipe'[1] # None => write_counter' >= 1
  <2>1. dqPipe'[1] # None => write_counter >= 2
    BY <1>2 DEF Chip0!Fetched, BusAwaited
  <2>2. QED
    BY <1>1, <2>1
<1>5. Chip0!BusRules'
  <2>1. SUFFICES ASSUME Chip0!IsOp("WRITE")'
                 PROVE  Chip0!dq' = None
    BY DEF Chip0!BusRules
  <2>2. write_counter = 0
    BY <2>1 DEF Chip0!IsOp, taskTaken, insertBubble
  <2>3. dqPipe[1] = None
    BY <2>2 DEF BusAwaited
  <2>4. QED
    BY <1>2, <2>3 DEF Chip0!dq, CasLatency
<1>6. QED
  BY <1>3, <1>4, <1>5

\* While the clock is stopped neither the ages nor the counters move.
LEMMA StoppedKeepsSpacing ==
  ASSUME TypeOK, SpacingInv, powerup_done, powerup_done', ~clkEnable, ~remoteCke, pins' = pins,
         Chip0!DeviceEdge, BubbleInserter(taskTaken)
  PROVE  SpacingInv'
<1>1. UNCHANGED <<open, dqPipe, mode, sinceActive, sinceWrite, sinceAll, pins>>
  BY DEF Chip0!DeviceEdge
<1>2. /\ write_counter' = write_counter
      /\ \A b \in Banks : /\ precharge_counter'[b] = precharge_counter[b]
                          /\ active_counter'[b] = active_counter[b]
  BY CountersRun
<1>3. AgesCounted'
  BY <1>1, <1>2 DEF SpacingInv, AgesCounted, ActiveAge, WriteAge, RefreshAge, ModeAge,
                    Chip0!IsOp, Chip0!IsOpOn
<1>4. BusAwaited'
  BY <1>1, <1>2 DEF SpacingInv, BusAwaited, Chip0!IsOp
<1>5. Chip0!TimingRules' /\ Chip0!BusRules'
  BY <1>1 DEF SpacingInv, Chip0!TimingRules, Chip0!BusRules, Chip0!IsOp, Chip0!IsOpOn, Chip0!dq
<1>6. QED
  BY <1>3, <1>4, <1>5 DEF SpacingInv

\* In the wait for power-up, which ends after more cycles than any spacing, no
\* command is issued and the ages catch up.
LEMMA PowerupKeepsSpacing ==
  ASSUME TypeOK, ResetInv, SpacingInv, ~powerup_done, NEW cmd \in Cmds \cup {None},
         NEW rsp_ready \in BOOLEAN, Cycle(cmd, rsp_ready)
  PROVE  SpacingInv'
<1>1. pins' = None
  BY PowerupStep
<1>2. /\ powerup_done' <=> powerup_counter = PowerupMax
      /\ ~powerup_done' => powerup_counter' = powerup_counter + 1
      /\ powerup_counter \in Nat /\ PowerupMax >= 3
  BY PowerupCounts DEF Cycle, Clock, TypeOK
<1>3. powerup_counter >= 2 => clkEnable /\ pins = None
  <2>1. /\ remoteCke /\ (powerup_counter >= 2 => clkEnable = remoteCke)
        /\ powerup_counter >= 1 => pins = None
    BY DEF ResetInv, PowerupQuiet
  <2>2. powerup_counter >= 2 => powerup_counter >= 1
    BY <1>2
  <2>3. QED
    BY <2>1, <2>2, Zenon
<1>4. /\ tRC \in Nat \ {0} /\ tRC <= 3 /\ tRAS <= tRC /\ tRAS \in Nat /\ tWR \in Nat \ {0}
      /\ tWR <= 2 /\ tRFC \in Nat \ {0} /\ tRFC <= 4 /\ tMRD \in Nat \ {0} /\ tMRD <= 2
  BY TimingAssumption
<1>5. Chip0!DeviceEdge /\ BubbleInserter(taskTaken)
  BY DEF Cycle, Clock
<1>6. /\ \A b \in Banks : ActiveAge(b) \in 1..tRC /\ WriteAge(b) \in 1..tWR
      /\ RefreshAge \in 1..tRFC /\ ModeAge \in 1..tMRD
      /\ \A b \in Banks : sinceActive[b] \in 1..tRC /\ sinceWrite[b] \in 1..tWR
      /\ sinceAll["REFRESH"] \in 1..tRFC /\ sinceAll["MODE"] \in 1..tMRD
  BY AgesInRange DEF TypeOK, DeviceTypes
<1> DEFINE Grown(age, awaited, old, max) ==
             /\ age = Chip0!Age(awaited, FALSE, max) \/ ~clkEnable
             /\ age = Chip0!Age(old, FALSE, max) \/ clkEnable
<1>7. ASSUME NEW max \in Nat \ {0}, NEW age, NEW awaited \in 1..max, NEW old \in 1..max,
             Grown(age, awaited, old, max),
             awaited >= max \/ awaited >= powerup_counter
      PROVE  age \in 1..max /\ (age >= max \/ age >= powerup_counter + 1)
  <2>1. CASE clkEnable
    BY <1>2, <1>7, <2>1 DEF Chip0!Age
  <2>2. CASE ~clkEnable
    <3>1. powerup_counter <= 1
      BY <1>2, <1>3, <2>2
    <3>2. QED
      BY <1>2, <1>7, <2>2, <3>1 DEF Chip0!Age
  <2>3. QED
    BY <2>1, <2>2
<1>8. /\ \A b \in Banks : /\ Grown(ActiveAge(b)', ActiveAge(b), sinceActive[b], tRC)
                          /\ Grown(WriteAge(b)', WriteAge(b), sinceWrite[b], tWR)
      /\ Grown(RefreshAge', RefreshAge, sinceAll["REFRESH"], tRFC)
      /\ Grown(ModeAge', ModeAge, sinceAll["MODE"], tMRD)
  <2>1. ~Chip0!IsOp("REFRESH")' /\ ~Chip0!IsOp("MODE")'
        /\ \A b \in Banks : ~Chip0!IsOpOn("ACTIVE", b)' /\ ~Chip0!IsOpOn("WRITE", b)'
    BY <1>1 DEF Chip0!IsOp, Chip0!IsOpOn
  <2>2. /\ \A b \in Banks : /\ ActiveAge(b)' = Chip0!Age(sinceActive'[b], FALSE, tRC)
                            /\ WriteAge(b)' = Chip0!Age(sinceWrite'[b], FALSE, tWR)
        /\ RefreshAge' = Chip0!Age(sinceAll'["REFRESH"], FALSE, tRFC)
        /\ ModeAge' = Chip0!Age(sinceAll'["MODE"], FALSE, tMRD)
    BY <2>1 DEF ActiveAge, WriteAge, RefreshAge, ModeAge, Chip0!Age
  <2>3. CASE clkEnable
    BY <1>5, <2>2, <2>3, AgesExecuted
  <2>4. CASE ~clkEnable
    BY <1>5, <2>2, <2>4 DEF Chip0!DeviceEdge
  <2>5. QED
    BY <2>3, <2>4
<1> HIDE DEF Grown
<1>9. /\ \A b \in Banks :
           /\ ActiveAge(b)' \in 1..tRC
              /\ (ActiveAge(b)' >= tRC \/ ActiveAge(b)' >= powerup_counter + 1)
           /\ WriteAge(b)' \in 1..tWR
              /\ (WriteAge(b)' >= tWR \/ WriteAge(b)' >= powerup_counter + 1)
      /\ RefreshAge' \in 1..tRFC
      /\ RefreshAge' >= tRFC \/ RefreshAge' >= powerup_counter + 1
      /\ ModeAge' \in 1..tMRD
      /\ ModeAge' >= tMRD \/ ModeAge' >= powerup_counter + 1
  <2>1. /\ \A b \in Banks : /\ ActiveAge(b) >= tRC \/ ActiveAge(b) >= powerup_counter
                            /\ WriteAge(b) >= tWR \/ WriteAge(b) >= powerup_counter
        /\ RefreshAge >= tRFC \/ RefreshAge >= powerup_counter
        /\ ModeAge >= tMRD \/ ModeAge >= powerup_counter
    BY DEF SpacingInv, AgesAwaited
  <2>2. QED
    BY <1>4, <1>6, <1>7, <1>8, <2>1
<1>10. CASE powerup_done'
  <2>1. powerup_counter + 1 >= 4
    BY <1>2, <1>10
  <2>2. AgesCounted'
    <3>1. \A b \in Banks : precharge_counter'[b] \in Nat /\ active_counter'[b] \in Nat
      BY <1>5, CountersRun
    <3>2. /\ \A b \in Banks : /\ ActiveAge(b)' \in Nat /\ ActiveAge(b)' >= tRC
                              /\ WriteAge(b)' \in Nat /\ WriteAge(b)' >= tWR
          /\ RefreshAge' \in Nat /\ RefreshAge' >= tRFC
          /\ ModeAge' \in Nat /\ ModeAge' >= tMRD
      BY <1>2, <1>4, <1>9, <2>1
    <3>3. QED
      BY <1>4, <3>1, <3>2 DEF AgesCounted
  <2>3. clkEnable /\ pins = None
    BY <1>2, <1>3, <1>10
  <2>4. dqPipe'[1] = None
    BY <1>5, <2>3 DEF Chip0!DeviceEdge, Chip0!Execute, Chip0!MaxLatency, Chip0!Fetched, Chip0!IsOp
  <2>5. QED
    BY <1>1, <1>10, <2>2, <2>4 DEF SpacingInv, BusAwaited, Chip0!TimingRules, Chip0!BusRules,
                                   Chip0!IsOp, Chip0!IsOpOn
<1>11. CASE ~powerup_done'
  <2>1. AgesAwaited'
    BY <1>2, <1>9, <1>11 DEF AgesAwaited
  <2>2. powerup_counter' >= 3 => dqPipe'[1] = None
    <3>1. powerup_counter' >= 3 => clkEnable /\ pins = None
      BY <1>2, <1>3, <1>11
    <3>2. QED
      BY <1>5, <3>1 DEF Chip0!DeviceEdge, Chip0!Execute, Chip0!MaxLatency, Chip0!Fetched, Chip0!IsOp
  <2>3. QED
    BY <1>1, <1>11, <2>1, <2>2 DEF SpacingInv, BusAwaited, Chip0!TimingRules, Chip0!BusRules,
                                   Chip0!IsOp, Chip0!IsOpOn
<1>12. QED
  BY <1>10, <1>11

\* One cycle keeps the spacing between tasks.
LEMMA CycleKeepsSpacing ==
  ASSUME TypeOK, ResetInv, SpacingInv, NEW cmd \in Cmds \cup {None},
         NEW rsp_ready \in BOOLEAN, Cycle(cmd, rsp_ready)
  PROVE  SpacingInv'
<1>1. CASE ~powerup_done
  BY <1>1, PowerupKeepsSpacing
<1>2. CASE powerup_done
  <2>1. /\ Timers /\ BubbleInserter(taskTaken) /\ Chip(issued, rsp_ready, Chip0!dq)
        /\ Chip0!DeviceEdge /\ ClocksAgree /\ AgesCounted /\ BusAwaited
    BY <1>2 DEF Cycle, Clock, ResetInv, SpacingInv
  <2>2. powerup_done' /\ mode' \in {None, CasLatency}
    BY <1>2, <2>1, CycleKeepsTypes DEF Timers, TypeOK, DeviceTypes
  <2>3. CASE clkEnable
    <3>1. pins' = None \/ (pins' = rData /\ taskTaken)
      BY <2>1, <2>3 DEF Chip, ClocksAgree, issued, taskTaken
    <3>2. AgesCounted'
      BY <2>1, <2>3, <3>1, ClockedKeepsAges
    <3>3. BusAwaited' /\ Chip0!BusRules'
      BY <1>2, <2>1, <2>2, <2>3, <3>1, ClockedKeepsBus DEF BusAwaited
    <3>4. Chip0!TimingRules'
      <4>1. CASE pins' = None
        BY <4>1 DEF Chip0!TimingRules, Chip0!IsOp, Chip0!IsOpOn
      <4>2. CASE pins' = rData /\ taskTaken
        BY <2>1, <2>3, <4>2, IssuedInTime
      <4>3. QED
        BY <3>1, <4>1, <4>2
    <3>5. QED
      BY <2>2, <3>2, <3>3, <3>4 DEF SpacingInv
  <2>4. CASE ~clkEnable
    <3>1. ~remoteCke /\ pins' = pins
      BY <2>1, <2>4 DEF ClocksAgree, Chip
    <3>2. QED
      BY <1>2, <2>1, <2>2, <2>4, <3>1, StoppedKeepsSpacing
  <2>5. QED
    BY <2>3, <2>4
<1>3. QED
  BY <1>1, <1>2

\* After a reset every age is at least the power-up counter, which starts at 0.
LEMMA ResetKeepsSpacing ==
  ASSUME TypeOK, SpacingInv, Reset
  PROVE  SpacingInv'
<1>1. /\ ~powerup_done' /\ powerup_counter' = 0 /\ pins' = pins
      /\ UNCHANGED <<open, dqPipe, mode, sinceActive, sinceWrite, sinceAll>>
  BY DEF Reset, CtrlReset, deviceVars
<1>2. AgesAwaited'
  <2>1. /\ \A b \in Banks : ActiveAge(b) \in Nat /\ WriteAge(b) \in Nat
        /\ RefreshAge \in Nat /\ ModeAge \in Nat
    BY AgesInRange
  <2>2. /\ \A b \in Banks : ActiveAge(b)' = ActiveAge(b) /\ WriteAge(b)' = WriteAge(b)
        /\ RefreshAge' = RefreshAge /\ ModeAge' = ModeAge
    BY <1>1 DEF ActiveAge, WriteAge, RefreshAge, ModeAge, Chip0!IsOp, Chip0!IsOpOn
  <2>3. QED
    BY <1>1, <2>1, <2>2 DEF AgesAwaited
<1>3. BusAwaited'
  BY <1>1 DEF BusAwaited
<1>4. Chip0!TimingRules' /\ Chip0!BusRules'
  BY <1>1 DEF SpacingInv, Chip0!TimingRules, Chip0!BusRules, Chip0!IsOp, Chip0!IsOpOn, Chip0!dq
<1>5. QED
  BY <1>1, <1>2, <1>3, <1>4 DEF SpacingInv

\* At the start nothing is too young,
LEMMA InitialSpacing ==
  ASSUME Init
  PROVE  SpacingInv
<1>1. pins = None /\ ~powerup_done /\ powerup_counter = 0
  BY DEF Init, CtrlInit
<1>2. AgesAwaited
  <2>1. /\ \A b \in Banks : ActiveAge(b) \in Nat /\ WriteAge(b) \in Nat
        /\ RefreshAge \in Nat /\ ModeAge \in Nat
    BY InitialTypes, AgesInRange
  <2>2. QED
    BY <1>1, <2>1 DEF AgesAwaited
<1>3. QED
  BY <1>1, <1>2 DEF SpacingInv, BusAwaited, Chip0!TimingRules, Chip0!BusRules, Chip0!IsOp,
                    Chip0!IsOpOn

\* and every step keeps it so, a reset too.
LEMMA SpacingInvInductive ==
  TypeOK /\ ResetInv /\ SpacingInv /\ [Next \/ Reset]_vars => SpacingInv'
<1> SUFFICES ASSUME TypeOK, ResetInv, SpacingInv, [Next \/ Reset]_vars
             PROVE  SpacingInv'
  OBVIOUS
<1>1. CASE Next
  <2>1. Offers \subseteq Cmds \cup {None}
    BY DEF Offers
  <2>2. QED
    BY <1>1, <2>1, CycleKeepsSpacing DEF Next
<1>2. CASE Reset
  BY <1>2, ResetKeepsSpacing
<1>3. CASE UNCHANGED vars
  BY <1>3 DEF vars, ctrlVars, frontendVars, timingVars, chipVars, deviceVars, SpacingInv,
              AgesCounted, AgesAwaited, BusAwaited, ActiveAge, WriteAge, RefreshAge, ModeAge,
              Chip0!TimingRules, Chip0!BusRules, Chip0!IsOp, Chip0!IsOpOn, Chip0!dq
<1>4. QED
  BY <1>1, <1>2, <1>3

\* Every pair of commands keeps its distance, and a write never meets the data of
\* an earlier read on the bus, whenever the reader stops the clock and whenever
\* the controller is reset.
THEOREM SpacingAlwaysLegal == ResetSpec => []SpacingLegal
<1>1. SpacingInv => SpacingLegal
  BY DEF SpacingInv, SpacingLegal
<1>2. QED
  BY <1>1, TypesCorrect, ResetsForgiven, InitialSpacing, SpacingInvInductive, PTL DEF ResetSpec

(***************************************************************************)
(* Refresh.                                                                *)
(***************************************************************************)
\* The period leaves time for a refresh, wherever in it the request falls.  The
\* timer has been running since the reset, so a first request may be waiting when
\* the boot sequence ends; then there must be time for it in that period.
RefreshInTime ==
  LET booted == PowerupMax + 4 * (BootRefreshMax + 1)
  IN  /\ RefreshMax >= 7
      /\ booted <= RefreshMax \/ (booted % (RefreshMax + 1)) + 4 <= RefreshMax

\* The task in the register is held back for n more cycles at most.
HeldFor(n) ==
  rData # None =>
    /\ rData.task = "MODE" => active_counter[0] <= n
    /\ rData.task = "PRECHARGE_ALL" => \A b \in Banks : precharge_counter[b] <= n
    /\ rData.task = "PRECHARGE_SINGLE" => precharge_counter[rData.bank] <= n
    /\ rData.task = "REFRESH" => \A b \in Banks : active_counter[b] <= n
    /\ rData.task = "ACTIVE" => active_counter[rData.bank] <= n
    /\ rData.task = "WRITE" => write_counter <= n

\* If it is held back that long, and then the closing of the banks for two cycles,
\* the refresh is still emitted before the next tick.
InTime(n) ==
  refresh_counter + n + (IF \E b \in Banks : active[b] THEN 3 ELSE 0) < RefreshMax

\* How long the boot sequence has been going on.
Calm == \A b \in Banks : active_counter[b] = 0 /\ precharge_counter[b] = 0

BootRefreshes == IF state = "BOOT_MODE" THEN BootRefreshMax + 1 ELSE bootCounter

BootedFor(t) ==
  \/ /\ state = "BOOT_PRECHARGE" /\ rData = None /\ Calm
     /\ t = IF powerup_done THEN PowerupMax + 1 ELSE powerup_counter
  \/ /\ state = "BOOT_REFRESH" /\ bootCounter = 0 /\ IsTask("PRECHARGE_ALL") /\ Calm
     /\ t = PowerupMax + 2
  \/ /\ state \in {"BOOT_REFRESH", "BOOT_MODE"} /\ BootRefreshes > 0 /\ IsTask("REFRESH")
     /\ \A b \in Banks : active_counter[b] = active_counter[0]
     /\ BootRefreshes = 1 => active_counter[0] = 0
     /\ t = PowerupMax + 4 * BootRefreshes - 1 - active_counter[0]

TimedFor(t) ==
  refresh_counter = t % (RefreshMax + 1) /\ (refresh_pending => t > RefreshMax)

NeverStopped == ckeInternal /\ remoteCke

RefreshInv ==
  /\ NeverStopped
  /\ state = "RUN" /\ refresh_pending => \E n \in 0..3 : HeldFor(n) /\ InTime(n)
  /\ state # "RUN" => \E t \in Nat : BootedFor(t) /\ TimedFor(t)

\* A reader that takes its data never stops the clock.
LEMMA ClockRuns ==
  ASSUME NeverStopped, NEW STATE op, NEW STATE dq, Chip(op, TRUE, dq)
  PROVE  NeverStopped'
  BY DEF NeverStopped, Chip, CkeNext

\* The timer shows how many cycles have passed.
LEMMA TimerTells ==
  ASSUME TypeOK, NEW t \in Nat, TimedFor(t), Timers,
         refresh_pending' => refresh_pending \/ refreshTick
  PROVE  TimedFor(t + 1)'
<1> DEFINE period == RefreshMax + 1
           q == t \div period
<1>1. period \in Nat \ {0} /\ RefreshMax \in Nat
  BY SizesAssumption
<1>2. t = period * q + (t % period) /\ t % period \in 0..(period - 1) /\ q \in Int
  <2> HIDE DEF period
  <2> QED BY <1>1, DivMod
<1>3. refresh_counter = t % period
  BY DEF TimedFor
<1> HIDE DEF period, q
<1>4. CASE refreshTick
  <2>1. t % period = RefreshMax /\ refresh_counter' = 0
    BY <1>3, <1>4 DEF refreshTick, Timers
  <2>2. t + 1 = period * (q + 1) + 0
    BY <1>1, <1>2, <2>1 DEF period
  <2>3. (period * (q + 1) + 0) % period = 0
    <3>1. 0 \in 0..(period - 1) /\ q + 1 \in Int
      BY <1>1, <1>2
    <3> QED BY <1>1, <3>1, DivUnique
  <2>4. t > RefreshMax \/ t = RefreshMax
    <3>1. q >= 0
      BY <1>1, <1>2
    <3>2. period * q >= 0
      BY <1>1, <1>2, <3>1
    <3> QED BY <1>1, <1>2, <2>1, <3>2
  <2>5. t + 1 > RefreshMax
    BY <1>1, <2>4
  <2>6. refresh_counter' = (t + 1) % period
    BY <2>1, <2>2, <2>3
  <2>7. QED
    BY <2>5, <2>6 DEF TimedFor, period
<1>5. CASE ~refreshTick
  <2>1. t % period # RefreshMax /\ refresh_counter' = (t % period) + 1
    BY <1>3, <1>5 DEF refreshTick, Timers
  <2>2. (t % period) + 1 \in 0..(period - 1) /\ t + 1 = period * q + ((t % period) + 1)
    <3>1. RefreshMax = period - 1
      BY <1>1 DEF period
    <3>2. period * q \in Int
      BY <1>1, <1>2
    <3> QED BY <1>1, <1>2, <2>1, <3>1, <3>2
  <2>3. (period * q + ((t % period) + 1)) % period = (t % period) + 1
    BY <1>1, <1>2, <2>2, DivUnique
  <2>4. refresh_counter' = (t + 1) % period
    BY <2>1, <2>2, <2>3
  <2>5. refresh_pending' => t + 1 > RefreshMax
    BY <1>1, <1>5 DEF TimedFor
  <2>6. QED
    BY <2>4, <2>5 DEF TimedFor, period
<1>6. QED
  BY <1>4, <1>5

\* A task that is not held back is taken, and one that is waits a cycle less.
LEMMA WaitShrinks ==
  ASSUME TypeOK, NeverStopped, NEW n \in 0..3, HeldFor(n), BubbleInserter(taskTaken),
         ~rspReady, rData' = rData
  PROVE  n # 0 /\ HeldFor(n - 1)'
<1>1. rData # None /\ insertBubble /\ ~taskTaken
  BY DEF rspReady, taskTaken, NeverStopped
<1>2. /\ write_counter \in 0..3 /\ precharge_counter \in [Banks -> 0..2]
      /\ active_counter \in [Banks -> 0..3] /\ 0 \in Banks
      /\ rData \in TaskSet
  BY <1>1, SizesAssumption DEF TypeOK, BubbleTypes, FrontendTypes, Banks
<1>3. rData.task \in {"ACTIVE", "PRECHARGE_SINGLE"} => rData.bank \in Banks
  BY <1>2 DEF TaskSet
<1>4. n # 0
  BY <1>1, <1>2, <1>3 DEF HeldFor, insertBubble
<1>5. /\ write_counter' = IF write_counter = 0 THEN 0 ELSE write_counter - 1
      /\ \A b \in Banks :
           /\ precharge_counter'[b] = IF precharge_counter[b] = 0 THEN 0 ELSE precharge_counter[b] - 1
           /\ active_counter'[b] = IF active_counter[b] = 0 THEN 0 ELSE active_counter[b] - 1
  BY <1>1, <1>2 DEF BubbleInserter, Reload, Dec, NeverStopped
<1>6. HeldFor(n - 1)'
  BY <1>2, <1>3, <1>4, <1>5 DEF HeldFor
<1>7. QED
  BY <1>4, <1>6

\* No task is held back for more than three cycles, a closing of the banks for two.
LEMMA WaitsAreShort ==
  ASSUME TypeOK
  PROVE  HeldFor(3) /\ (IsTask("PRECHARGE_ALL") => HeldFor(2))
<1>1. /\ write_counter \in 0..3 /\ precharge_counter \in [Banks -> 0..2]
      /\ active_counter \in [Banks -> 0..3] /\ 0 \in Banks
      /\ rData \in TaskSet \cup {None}
  BY SizesAssumption DEF TypeOK, BubbleTypes, FrontendTypes, Banks
<1>2. rData # None /\ rData.task \in {"ACTIVE", "PRECHARGE_SINGLE"} => rData.bank \in Banks
  BY <1>1 DEF TaskSet
<1>3. QED
  BY <1>1, <1>2 DEF HeldFor, IsTask

\* Once the boot sequence is over: a request is served before the next tick.
LEMMA RunningInTime ==
  ASSUME TypeOK, TypeOK', NeverStopped, state = "RUN", RefreshMax >= 7,
         refresh_pending => \E n \in 0..3 : HeldFor(n) /\ InTime(n),
         NEW cmd \in Cmds \cup {None}, Timers, Frontend(cmd, rspReady), BubbleInserter(taskTaken)
  PROVE  /\ state' = "RUN"
         /\ refresh_pending' => \E n \in 0..3 : HeldFor(n)' /\ InTime(n)'
<1>1. /\ HeldFor(3)' /\ (IsTask("PRECHARGE_ALL")' => HeldFor(2)')
      /\ refresh_counter \in 0..RefreshMax /\ RefreshMax \in Nat
  BY WaitsAreShort, SizesAssumption, PTL DEF TypeOK, TimerTypes
<1>2. CASE ~refresh_pending
  <2>1. state' = "RUN" /\ (refresh_pending' => refreshTick)
    BY <1>2 DEF Frontend, Powerup, BootPrecharge, BootRefresh, BootMode, RefreshPrecharge, Refresh,
                Precharge, Activate, Access, Idle, Stalled, KeepPending
  <2>2. refreshTick => InTime(3)'
    BY <1>1 DEF Timers, refreshTick, InTime
  <2>3. QED
    BY <1>1, <2>1, <2>2
<1>3. CASE refresh_pending
  <2>1. PICK n \in 0..3 : HeldFor(n) /\ InTime(n)
    BY <1>3
  <2>2. refresh_counter # RefreshMax /\ refresh_counter' = refresh_counter + 1
    BY <1>1, <2>1 DEF InTime, Timers, refreshTick
  <2>3. CASE ~rspReady
    <3>1. state' = "RUN" /\ rData' = rData /\ active' = active
      BY <2>3 DEF Frontend, Stalled
    <3>2. n - 1 \in 0..3 /\ HeldFor(n - 1)'
      BY <2>1, <2>3, <3>1, WaitShrinks
    <3>3. InTime(n - 1)'
      BY <1>1, <2>1, <2>2, <3>1 DEF InTime
    <3>4. QED
      BY <3>1, <3>2, <3>3
  <2>4. CASE rspReady /\ RefreshPrecharge
    <3>1. /\ state' = "RUN" /\ IsTask("PRECHARGE_ALL")'
          /\ \E b \in Banks : active[b]
          /\ ~\E b \in Banks : active'[b]
      BY <2>4, TasksOfTheController, NoneAssumption DEF RefreshPrecharge, Emit, Task, IsTask
    <3>2. InTime(2)'
      BY <1>1, <2>1, <2>2, <3>1 DEF InTime
    <3>3. QED
      BY <1>1, <3>1, <3>2
  <2>5. CASE rspReady /\ Refresh
    BY <2>5 DEF Refresh
  <2>6. QED
    BY <1>3, <2>3, <2>4, <2>5
       DEF Frontend, Powerup, BootPrecharge, BootRefresh, BootMode, Precharge, Activate, Access,
           Idle, Serving
<1>4. QED
  BY <1>2, <1>3

\* What the counters do when nothing or a closing of the banks is in the register,
\* and when it is a refresh.
LEMMA CountersInBoot ==
  ASSUME TypeOK, NeverStopped, BubbleInserter(taskTaken)
  PROVE  /\ Calm /\ (rData = None \/ IsTask("PRECHARGE_ALL")) => Calm'
         /\ IsTask("REFRESH") /\ taskTaken => \A b \in Banks : active_counter'[b] = 3
         /\ IsTask("REFRESH") /\ ~taskTaken =>
              \A b \in Banks : active_counter'[b] =
                 IF active_counter[b] = 0 THEN 0 ELSE active_counter[b] - 1
<1>1. /\ precharge_counter \in [Banks -> 0..2] /\ active_counter \in [Banks -> 0..3]
  BY DEF TypeOK, BubbleTypes
<1>2. Calm /\ (rData = None \/ IsTask("PRECHARGE_ALL")) => Calm'
  BY <1>1 DEF BubbleInserter, Calm, Reload, Dec, PrechargeReload, ActiveReload, IsTask, IsTaskOn
<1>3. IsTask("REFRESH") => \A b \in Banks : ActiveReload(b) = 3
  BY DEF ActiveReload, IsTask
<1>4. IsTask("REFRESH") /\ taskTaken => \A b \in Banks : active_counter'[b] = 3
  BY <1>1, <1>3 DEF BubbleInserter, Reload, Dec, IsTask
<1>5. IsTask("REFRESH") /\ ~taskTaken =>
         \A b \in Banks : active_counter'[b] =
            IF active_counter[b] = 0 THEN 0 ELSE active_counter[b] - 1
  BY <1>1 DEF BubbleInserter, Reload, Dec, NeverStopped
<1>6. QED
  BY <1>2, <1>4, <1>5

\* The wait for power-up, and its end.
LEMMA BootWaits ==
  ASSUME TypeOK, NeverStopped, state = "BOOT_PRECHARGE", bootCounter = 0, NEW t \in Nat, BootedFor(t),
         NEW cmd \in Cmds \cup {None}, Timers, Frontend(cmd, rspReady), BubbleInserter(taskTaken)
  PROVE  state' # "RUN" /\ BootedFor(t + 1)'
<1>1. rData = None /\ Calm /\ t = (IF powerup_done THEN PowerupMax + 1 ELSE powerup_counter)
  BY DEF BootedFor
<1>2. rspReady /\ Calm'
  BY <1>1, CountersInBoot DEF rspReady
<1>3. CASE powerup_done
  <2>1. BootPrecharge
    BY <1>2, <1>3 DEF Frontend, Powerup, BootPrecharge, BootRefresh, BootMode, RefreshPrecharge,
                      Refresh, Precharge, Activate, Access, Idle, Serving
  <2>2. state' = "BOOT_REFRESH" /\ bootCounter' = 0 /\ IsTask("PRECHARGE_ALL")'
    BY <2>1, TasksOfTheController, NoneAssumption DEF BootPrecharge, Emit, Task, IsTask
  <2>3. t + 1 = PowerupMax + 2
    BY <1>1, <1>3, SizesAssumption
  <2>4. QED
    BY <1>2, <2>2, <2>3 DEF BootedFor
<1>4. CASE ~powerup_done
  <2>1. Powerup
    BY <1>2, <1>4 DEF Frontend, Powerup, BootPrecharge, BootRefresh, BootMode, RefreshPrecharge,
                      Refresh, Precharge, Activate, Access, Idle, Serving
  <2>2. state' = "BOOT_PRECHARGE" /\ rData' = None
    BY <2>1 DEF Powerup, Emit
  <2>3. t + 1 = IF powerup_done' THEN PowerupMax + 1 ELSE powerup_counter'
    BY <1>1, <1>4, PowerupCounts DEF TypeOK
  <2>4. QED
    BY <1>2, <2>2, <2>3 DEF BootedFor
<1>5. QED
  BY <1>3, <1>4

\* The refreshes of the boot sequence: the first two follow on the closing of the
\* banks, each other is held back for three cycles.
LEMMA BootCounts ==
  ASSUME TypeOK, NeverStopped, state \in {"BOOT_REFRESH", "BOOT_MODE"}, NEW t \in Nat, BootedFor(t),
         NEW cmd \in Cmds \cup {None}, Timers, Frontend(cmd, rspReady), BubbleInserter(taskTaken)
  PROVE  \/ state' # "RUN" /\ BootedFor(t + 1)'
         \/ state' = "RUN" /\ t + 1 = PowerupMax + 4 * (BootRefreshMax + 1) /\ active' = active
<1>1. /\ BootRefreshMax \in Nat /\ PowerupMax \in Nat /\ bootCounter \in 0..BootRefreshMax
      /\ active_counter \in [Banks -> 0..3] /\ 0 \in Banks /\ active_counter[0] \in 0..3
  BY SizesAssumption DEF TypeOK, FrontendTypes, BubbleTypes, Banks
<1>2. taskTaken <=> ~insertBubble
  BY DEF taskTaken, NeverStopped
<1>3. ASSUME rspReady, state = "BOOT_REFRESH"
      PROVE  /\ state' \in {"BOOT_REFRESH", "BOOT_MODE"} /\ IsTask("REFRESH")'
             /\ BootRefreshes' = bootCounter + 1
  <2>1. BootRefresh
    BY <1>3 DEF Frontend, Powerup, BootPrecharge, BootRefresh, BootMode, RefreshPrecharge,
                Refresh, Precharge, Activate, Access, Idle, Serving
  <2>2. IsTask("REFRESH")'
    BY <2>1, TasksOfTheController, NoneAssumption DEF BootRefresh, Emit, Task, IsTask
  <2>3. bootCounter # BootRefreshMax => (bootCounter + 1) % (BootRefreshMax + 1) = bootCounter + 1
    BY <1>1
  <2>4. QED
    BY <1>1, <1>3, <2>1, <2>2, <2>3 DEF BootRefresh, BootRefreshes
<1>4. CASE IsTask("PRECHARGE_ALL") /\ bootCounter = 0 /\ state = "BOOT_REFRESH" /\ Calm
           /\ t = PowerupMax + 2
  <2>1. rspReady
    BY <1>2, <1>4 DEF rspReady, insertBubble, IsTask, Calm
  <2>2. Calm'
    BY <1>4, CountersInBoot
  <2>3. t + 1 = PowerupMax + 4 * BootRefreshes' - 1 - active_counter'[0] /\ BootRefreshes' = 1
    BY <1>1, <1>3, <1>4, <2>1, <2>2 DEF Calm
  <2>4. active_counter'[0] = 0 /\ \A b \in Banks : active_counter'[b] = active_counter'[0]
    BY <1>1, <2>2 DEF Calm
  <2>5. BootRefreshes' > 0
    BY <2>3
  <2>6. QED
    BY <1>3, <1>4, <2>1, <2>3, <2>4, <2>5 DEF BootedFor
<1>5. CASE /\ BootRefreshes > 0 /\ IsTask("REFRESH")
           /\ \A b \in Banks : active_counter[b] = active_counter[0]
           /\ BootRefreshes = 1 => active_counter[0] = 0
           /\ t = PowerupMax + 4 * BootRefreshes - 1 - active_counter[0]
  <2>1. BootRefreshes \in Nat
    BY <1>1 DEF BootRefreshes
  <2>2. CASE active_counter[0] # 0
    <3>1. ~rspReady /\ ~taskTaken
      BY <1>1, <1>2, <1>5, <2>2 DEF rspReady, insertBubble, IsTask
    <3>2. state' = state /\ bootCounter' = bootCounter /\ rData' = rData
      BY <3>1 DEF Frontend, Stalled
    <3>3. \A b \in Banks : active_counter'[b] = active_counter[0] - 1
      BY <1>1, <1>5, <2>2, <3>1, CountersInBoot
    <3>4. BootRefreshes' = BootRefreshes /\ IsTask("REFRESH")'
      BY <1>5, <3>2 DEF BootRefreshes, IsTask
    <3>5. t + 1 = PowerupMax + 4 * BootRefreshes' - 1 - active_counter'[0]
      BY <1>1, <1>5, <2>1, <3>3, <3>4
    <3>6. QED
      BY <1>1, <1>5, <2>2, <3>2, <3>3, <3>4, <3>5 DEF BootedFor
  <2>3. CASE active_counter[0] = 0
    <3>1. rspReady /\ taskTaken
      BY <1>2, <1>5, <2>3 DEF rspReady, insertBubble, IsTask
    <3>2. \A b \in Banks : active_counter'[b] = 3
      BY <1>5, <3>1, CountersInBoot
    <3>3. CASE state = "BOOT_REFRESH"
      <4>1. BootRefreshes' = BootRefreshes + 1
        BY <1>3, <3>1, <3>3 DEF BootRefreshes
      <4>2. t + 1 = PowerupMax + 4 * BootRefreshes' - 1 - active_counter'[0]
        BY <1>1, <1>5, <2>1, <2>3, <3>2, <4>1
      <4>3. BootRefreshes' > 0 /\ BootRefreshes' # 1
        BY <1>5, <2>1, <4>1
      <4>4. \A b \in Banks : active_counter'[b] = active_counter'[0]
        BY <1>1, <3>2
      <4>5. QED
        BY <1>3, <3>1, <3>3, <4>2, <4>3, <4>4 DEF BootedFor
    <3>4. CASE state = "BOOT_MODE"
      <4>1. state' = "RUN" /\ active' = active
        BY <3>1, <3>4 DEF Frontend, Powerup, BootPrecharge, BootRefresh, BootMode, RefreshPrecharge,
                          Refresh, Precharge, Activate, Access, Idle, Serving
      <4>2. QED
        BY <1>1, <1>5, <2>3, <3>4, <4>1 DEF BootRefreshes
    <3>5. QED
      BY <3>3, <3>4
  <2>4. QED
    BY <2>2, <2>3
<1>6. QED
  BY <1>4, <1>5 DEF BootedFor

\* From the boot sequence to the first commands.
LEMMA BootInTime ==
  ASSUME TypeOK, TypeOK', ClosedAtBoot, NeverStopped, state # "RUN", bootCounter = 0 \/ state # "BOOT_PRECHARGE",
         RefreshInTime, NEW t \in Nat, BootedFor(t), TimedFor(t),
         NEW cmd \in Cmds \cup {None}, Timers, Frontend(cmd, rspReady), BubbleInserter(taskTaken)
  PROVE  /\ state' = "RUN" /\ refresh_pending' => \E n \in 0..3 : HeldFor(n)' /\ InTime(n)'
         /\ state' # "RUN" => \E s \in Nat : BootedFor(s)' /\ TimedFor(s)'
<1>1. TimedFor(t + 1)'
  <2>1. refresh_pending' => refresh_pending \/ refreshTick
    BY DEF Frontend, Powerup, BootPrecharge, BootRefresh, BootMode, RefreshPrecharge, Refresh,
           Precharge, Activate, Access, Idle, Stalled, KeepPending
  <2>2. QED
    BY <2>1, TimerTells
<1>2. state \in {"BOOT_PRECHARGE", "BOOT_REFRESH", "BOOT_MODE"}
  BY DEF TypeOK, FrontendTypes
<1>3. CASE state' # "RUN" /\ BootedFor(t + 1)'
  BY <1>1, <1>3
<1>4. CASE state' = "RUN" /\ t + 1 = PowerupMax + 4 * (BootRefreshMax + 1) /\ active' = active
  <2>1. refresh_pending' => refresh_counter' + 4 <= RefreshMax
    BY <1>1, <1>4, SizesAssumption DEF TimedFor, RefreshInTime
  <2>2. ~\E b \in Banks : active'[b]
    BY <1>4 DEF ClosedAtBoot
  <2>3. refresh_counter' \in Nat /\ RefreshMax \in Nat
    BY SizesAssumption DEF TypeOK, TimerTypes
  <2>4. refresh_pending' => InTime(3)'
    <3>1. (IF \E b \in Banks : active'[b] THEN 3 ELSE 0) = 0
      BY <2>2
    <3>2. \A c, m \in Nat : c + 4 <= m => c + 3 + 0 < m
      OBVIOUS
    <3>3. QED
      BY <2>1, <2>3, <3>1, <3>2 DEF InTime
  <2>5. HeldFor(3)'
    BY WaitsAreShort, PTL
  <2>6. QED
    BY <1>4, <2>4, <2>5
<1>5. QED
  BY <1>2, <1>3, <1>4, BootWaits, BootCounts

\* One cycle with a reader that takes its data.
LEMMA RefreshInvStep ==
  ASSUME RefreshInTime, TypeOK, TypeOK', ResetInv, BootInv, RefreshInv, [PromptNext]_vars
  PROVE  RefreshInv'
<1>1. CASE UNCHANGED vars
  BY <1>1 DEF vars, ctrlVars, frontendVars, timingVars, chipVars, RefreshInv, NeverStopped, HeldFor,
              InTime, BootedFor, TimedFor, Calm, BootRefreshes, IsTask
<1>2. CASE PromptNext
  <2>1. PICK cmd \in Cmds \cup {None} : Cycle(cmd, TRUE)
    BY <1>2 DEF PromptNext, Offers
  <2>2. /\ Timers /\ Frontend(cmd, rspReady) /\ BubbleInserter(taskTaken)
        /\ Chip(issued, TRUE, Chip0!dq)
    BY <2>1 DEF Cycle, Clock
  <2>3. NeverStopped /\ NeverStopped'
    BY <2>2, ClockRuns DEF RefreshInv
  <2>4. ClosedAtBoot /\ (bootCounter = 0 \/ state # "BOOT_PRECHARGE")
    BY DEF ResetInv, BootInv
  <2>5. CASE state = "RUN"
    BY <2>2, <2>3, <2>5, RunningInTime DEF RefreshInv, RefreshInTime
  <2>6. CASE state # "RUN"
    <3>1. PICK t \in Nat : BootedFor(t) /\ TimedFor(t)
      BY <2>6 DEF RefreshInv
    <3>2. QED
      BY <2>2, <2>3, <2>4, <2>6, <3>1, BootInTime DEF RefreshInv
  <2>7. QED
    BY <2>5, <2>6
<1>3. QED
  BY <1>1, <1>2

LEMMA InitialRefreshInv == Init => RefreshInv
<1> SUFFICES ASSUME Init
             PROVE  RefreshInv
  OBVIOUS
<1>1. /\ NeverStopped /\ state = "BOOT_PRECHARGE" /\ rData = None /\ Calm
      /\ powerup_done = FALSE /\ powerup_counter = 0 /\ refresh_counter = 0 /\ refresh_pending = FALSE
  BY DEF Init, CtrlInit, NeverStopped, Calm
<1>2. BootedFor(0)
  BY <1>1 DEF BootedFor
<1>3. 0 % (RefreshMax + 1) = 0
  BY SizesAssumption
<1>4. TimedFor(0)
  BY <1>1, <1>3 DEF TimedFor
<1>5. QED
  BY <1>1, <1>2, <1>4 DEF RefreshInv

\* A prompt reader is a reader, and its controller is not reset.
LEMMA PromptIsSpec == PromptSpec => ResetSpec
<1>1. [PromptNext]_vars => [Next \/ Reset]_vars
  BY DEF PromptNext, Next
<1>2. QED
  BY <1>1, PTL DEF PromptSpec, ResetSpec

\* No tick of the refresh timer finds a refresh still due, if the reader takes its
\* data and the periods of the timers fit.
THEOREM RefreshesAlwaysInTime ==
  ASSUME RefreshInTime
  PROVE  PromptSpec => NoRefreshLost
<1>1. TypeOK /\ TypeOK' /\ ResetInv /\ BootInv /\ RefreshInv /\ [PromptNext]_vars => RefreshInv'
  BY RefreshInvStep
<1>2. RefreshInv => ~(state = "RUN" /\ refreshTick /\ refresh_pending)
  <2> SUFFICES ASSUME RefreshInv, state = "RUN", refresh_pending
               PROVE  ~refreshTick
    OBVIOUS
  <2>1. PICK n \in 0..3 : InTime(n)
    BY DEF RefreshInv
  <2>2. QED
    BY <2>1, SizesAssumption DEF InTime, refreshTick
<1>3. ResetSpec => []BootInv
  BY TypesCorrect, ResetsForgiven, InitialBootInv, BootInvInductive, PTL DEF ResetSpec
<1>4. PromptSpec => []RefreshInv
  BY <1>1, <1>3, PromptIsSpec, TypesCorrect, ResetsForgiven, InitialRefreshInv, PTL DEF PromptSpec
<1>5. QED
  BY <1>2, <1>4, PTL DEF NoRefreshLost

\* The periods of the code fit.
LEMMA PeriodsOfTheCode ==
  RefreshMax = 390 /\ PowerupMax = 8191 /\ BootRefreshMax = 7 => RefreshInTime
  BY DEF RefreshInTime
=============================================================================
