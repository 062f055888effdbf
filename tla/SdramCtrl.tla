----------------------------- MODULE SdramCtrl ------------------------------
(***************************************************************************)
(* The SDRAM controller of AxiSdramCtrl.sv (module SdramCtrl), cycle by    *)
(* cycle: one step is one rising edge of clk, and the actions Frontend,    *)
(* BubbleInserter, Chip and Fifo!Clock are the registers of its four       *)
(* stages, all of which load at that edge.                                 *)
(*                                                                         *)
(*   frontend        turns bus commands, the refresh timer and the boot    *)
(*                   sequence into SDRAM tasks                             *)
(*   bubbleInserter  holds a task back until the per-bank timing counters  *)
(*                   have run out                                          *)
(*   chip            drives the pins, counts the reads in flight and stops *)
(*                   the clock enable (CKE) when the reader is not ready   *)
(*   backup FIFO     keeps the data that CKE could not stop in time        *)
(*                                                                         *)
(* Abstractions.  An address is a bank, a row and a column; a write        *)
(* carries a value, or None when its byte mask selects no byte (DQM high); *)
(* ctx is the id and last flag that come back with read data.  A task      *)
(* carries only the fields it uses.  readHistory and the context delay     *)
(* line are one shift register: a stage holds the ctx of a read or None.   *)
(***************************************************************************)
EXTENDS Integers, Sequences

CONSTANTS NBanks,          \* 4 in the code
          Rows, Cols,      \* 13 and 10 bits in the code
          Values,          \* data words
          Contexts,        \* AXI id and last flag of a read
          None,            \* an idle wire, an empty register
          RefreshMax,      \* 9'h186: the refresh timer counts 0..RefreshMax
          PowerupMax,      \* 13'h1fff: cycles before the boot sequence
          BootRefreshMax   \* 3'b111: the boot sequence refreshes 8 times

Banks == 0..(NBanks - 1)

\* Mutant: the mode word asks for a latency of 3, one more than the history has.
CasLatencyThree == 3

\* 3'b010, written into ADDR[6:4] by MODE.
CasLatency == 2

ASSUME SizesAssumption ==
  /\ NBanks \in Nat \ {0}
  /\ RefreshMax \in Nat
  /\ PowerupMax \in Nat
  /\ BootRefreshMax \in Nat

\* A bus command (io_bus_cmd): an address and either data or a context.
ReadCmds  == [write : {FALSE}, bank : Banks, row : Rows, col : Cols,
              data : {None}, ctx : Contexts]
WriteCmds == [write : {TRUE}, bank : Banks, row : Rows, col : Cols,
              data : Values \cup {None}, ctx : {None}]
Cmds      == ReadCmds \cup WriteCmds

\* A task record: SdramCtrlBackendTask and the fields of its payload.
Task(name, bank, arg, data, ctx) ==
  [task |-> name, bank |-> bank, arg |-> arg, data |-> data, ctx |-> ctx]

TaskSet ==
       [task : {"PRECHARGE_ALL", "REFRESH"}, bank : {None}, arg : {None},
        data : {None}, ctx : {None}]
  \cup [task : {"MODE"}, bank : {None}, arg : {CasLatency}, data : {None}, ctx : {None}]
  \cup [task : {"PRECHARGE_SINGLE"}, bank : Banks, arg : {None}, data : {None}, ctx : {None}]
  \cup [task : {"ACTIVE"}, bank : Banks, arg : Rows, data : {None}, ctx : {None}]
  \cup [task : {"READ"}, bank : Banks, arg : Cols, data : {None}, ctx : Contexts]
  \cup [task : {"WRITE"}, bank : Banks, arg : Cols, data : Values \cup {None}, ctx : {None}]

\* What the backup FIFO and the bus response carry.
Responses == [ctx : Contexts, data : Values \cup {None}]

ASSUME NoneAssumption ==
  /\ None \notin Contexts
  /\ None \notin Values
  /\ None \notin Rows \cup Cols
  /\ None \notin TaskSet /\ None \notin Responses
  /\ None # CasLatency

VARIABLES
  refresh_counter, refresh_pending,     \* the refresh timer
  powerup_counter, powerup_done,
  state,                                \* frontend_state
  bootCounter,                          \* frontend_bootRefreshCounter
  active, row,                          \* frontend_banks_*: open? which row?
  rData,                                \* frontend_rsp_m2sPipe: a task or None
  write_counter, precharge_counter, active_counter,  \* bubbleInserter_timings
  readHistory,                          \* 1..4: reads on their way back
  ckeInternal, remoteCke,               \* CKE one and two cycles ago
  ckePin, pins,                         \* chip_sdram_CKE, the command pins
  dq_read,                              \* chip_sdram_DQ_read
  ram, pushPtr, popPtr, risingOccupancy \* chip_backupIn_fifo

frontendVars == <<refresh_counter, refresh_pending, powerup_counter, powerup_done,
                  state, bootCounter, active, row, rData>>
timingVars   == <<write_counter, precharge_counter, active_counter>>
chipVars     == <<readHistory, ckeInternal, remoteCke, ckePin, pins, dq_read>>
fifoVars     == <<ram, pushPtr, popPtr, risingOccupancy>>
ctrlVars     == <<frontendVars, timingVars, chipVars, fifoVars>>

Fifo == INSTANCE StreamFifoLowLatency WITH Payloads <- Responses

(***************************************************************************)
(* bubbleInserter: is the task in rData held back?  What is issued?        *)
(***************************************************************************)
insertBubble ==
  /\ rData # None
  /\ \/ rData.task = "MODE" /\ active_counter[0] # 0
     \/ rData.task = "PRECHARGE_ALL" /\ \E b \in Banks : precharge_counter[b] # 0
     \/ rData.task = "PRECHARGE_SINGLE" /\ precharge_counter[rData.bank] # 0
     \/ rData.task = "REFRESH" /\ \E b \in Banks : active_counter[b] # 0
     \/ rData.task = "ACTIVE" /\ active_counter[rData.bank] # 0
     \/ rData.task = "WRITE" /\ write_counter # 0

\* chip_cmd: the task offered to the chip stage.
issued == IF insertBubble THEN None ELSE rData

\* bubbleInserter_cmd_ready, and the ready of the register in front of it.
taskTaken == remoteCke /\ ~insertBubble
rspReady  == rData = None \/ taskTaken

\* Mutant: the counters run on while the chip's clock is stopped.
DecWhileStopped(c) == IF c # 0 THEN c - 1 ELSE c

\* A counter runs down while the chip is clocked; a task that is taken may
\* raise it again.  A reload of 0 raises nothing.
Dec(c) == IF c # 0 /\ remoteCke THEN c - 1 ELSE c
Reload(c, val, taken) == IF rData # None /\ taken /\ c <= val THEN val ELSE Dec(c)

IsTask(name)      == rData # None /\ rData.task = name
IsTaskOn(name, b) == IsTask(name) /\ rData.bank = b

WriteReload        == IF IsTask("READ") THEN 3 ELSE 0
PrechargeReload(b) == IF IsTaskOn("ACTIVE", b) THEN 2
                      ELSE IF IsTaskOn("WRITE", b) THEN 1 ELSE 0
\* Mutant: the refresh cycle time is one clock short.
ActiveReloadShort(b) == IF IsTask("MODE") THEN 1
                        ELSE IF IsTask("REFRESH") \/ IsTaskOn("ACTIVE", b) THEN 2 ELSE 0

ActiveReload(b)    == IF IsTask("MODE") THEN 1
                      ELSE IF IsTask("REFRESH") THEN 3
                      ELSE IF IsTaskOn("ACTIVE", b) THEN 2 ELSE 0

BubbleInserter(taken) ==
  /\ write_counter' = Reload(write_counter, WriteReload, taken)
  /\ precharge_counter' =
       [b \in Banks |-> Reload(precharge_counter[b], PrechargeReload(b), taken)]
  /\ active_counter' =
       [b \in Banks |-> Reload(active_counter[b], ActiveReload(b), taken)]

(***************************************************************************)
(* The timers of the frontend.                                             *)
(***************************************************************************)
\* Mutant: the refresh period is off by one, past the width of the counter.
refreshTickLate == refresh_counter > RefreshMax

refreshTick == refresh_counter = RefreshMax

Timers ==
  /\ refresh_counter' = IF refreshTick THEN 0 ELSE refresh_counter + 1
  /\ powerup_counter' = IF powerup_done THEN powerup_counter
                        ELSE (powerup_counter + 1) % (PowerupMax + 1)
  /\ powerup_done' = (powerup_done \/ powerup_counter = PowerupMax)

(***************************************************************************)
(* The frontend, by the task it emits.  Every action below is the case in  *)
(* which the register rData can be loaded (rspReady).                      *)
(***************************************************************************)
KeepPending == refresh_pending' = (refresh_pending \/ refreshTick)

Emit(task) == rData' = task

Powerup ==
  /\ state = "BOOT_PRECHARGE" /\ ~powerup_done
  /\ Emit(None)
  /\ KeepPending
  /\ UNCHANGED <<state, bootCounter, active, row>>

\* Mutant: the boot sequence relies on all banks being closed already.
BootPrechargeSkipped ==
  /\ state = "BOOT_PRECHARGE" /\ powerup_done
  /\ Emit(None)
  /\ state' = "BOOT_REFRESH"
  /\ KeepPending
  /\ UNCHANGED <<bootCounter, active, row>>

BootPrecharge ==
  /\ state = "BOOT_PRECHARGE" /\ powerup_done
  /\ Emit(Task("PRECHARGE_ALL", None, None, None, None))
  /\ state' = "BOOT_REFRESH"
  /\ KeepPending
  /\ UNCHANGED <<bootCounter, active, row>>

\* Mutant: one refresh of the boot sequence is left out.
BootRefreshShort ==
  /\ state = "BOOT_REFRESH"
  /\ Emit(Task("REFRESH", None, None, None, None))
  /\ state' = IF bootCounter + 1 = BootRefreshMax THEN "BOOT_MODE" ELSE state
  /\ bootCounter' = (bootCounter + 1) % (BootRefreshMax + 1)
  /\ KeepPending
  /\ UNCHANGED <<active, row>>

BootRefresh ==
  /\ state = "BOOT_REFRESH"
  /\ Emit(Task("REFRESH", None, None, None, None))
  /\ state' = IF bootCounter = BootRefreshMax THEN "BOOT_MODE" ELSE state
  /\ bootCounter' = (bootCounter + 1) % (BootRefreshMax + 1)
  /\ KeepPending
  /\ UNCHANGED <<active, row>>

BootMode ==
  /\ state = "BOOT_MODE"
  /\ Emit(Task("MODE", None, CasLatency, None, None))
  /\ state' = "RUN"
  /\ KeepPending
  /\ UNCHANGED <<bootCounter, active, row>>

\* A refresh is due: close every bank first.
RefreshPrecharge ==
  /\ state = "RUN" /\ refresh_pending
  /\ \E b \in Banks : active[b]
  /\ Emit(Task("PRECHARGE_ALL", None, None, None, None))
  /\ active' = [b \in Banks |-> FALSE]
  /\ KeepPending
  /\ UNCHANGED <<state, bootCounter, row>>

\* Mutant: the refresh does not clear the request.
RefreshNotCleared ==
  /\ state = "RUN" /\ refresh_pending
  /\ \A b \in Banks : ~active[b]
  /\ Emit(Task("REFRESH", None, None, None, None))
  /\ KeepPending
  /\ UNCHANGED <<state, bootCounter, active, row>>

\* The refresh itself.  This assignment comes after the one that sets
\* refresh_pending in the same block, so it wins over a tick of the timer.
Refresh ==
  /\ state = "RUN" /\ refresh_pending
  /\ \A b \in Banks : ~active[b]
  /\ Emit(Task("REFRESH", None, None, None, None))
  /\ refresh_pending' = FALSE
  /\ UNCHANGED <<state, bootCounter, active, row>>

Serving(cmd) == state = "RUN" /\ ~refresh_pending /\ cmd # None

RowConflict(cmd) == active[cmd.bank] /\ row[cmd.bank] # cmd.row
\* Mutant: any open row will do.
RowHitAny(cmd) == active[cmd.bank]

RowHit(cmd)      == active[cmd.bank] /\ row[cmd.bank] = cmd.row

Precharge(cmd) ==
  /\ Serving(cmd) /\ RowConflict(cmd)
  /\ Emit(Task("PRECHARGE_SINGLE", cmd.bank, None, None, None))
  /\ active' = [active EXCEPT ![cmd.bank] = FALSE]
  /\ KeepPending
  /\ UNCHANGED <<state, bootCounter, row>>

\* Mutant: the row register is not loaded.
RowLoadedNever(cmd) == row

\* The row register of a bank that is to be opened.
RowLoaded(cmd) == [row EXCEPT ![cmd.bank] = cmd.row]

\* Mutant: the bank is not marked open.
ActivateUnmarked(cmd) ==
  /\ Serving(cmd) /\ ~active[cmd.bank]
  /\ Emit(Task("ACTIVE", cmd.bank, cmd.row, None, None))
  /\ row' = RowLoaded(cmd)
  /\ KeepPending
  /\ UNCHANGED <<state, bootCounter, active>>

Activate(cmd) ==
  /\ Serving(cmd) /\ ~active[cmd.bank]
  /\ Emit(Task("ACTIVE", cmd.bank, cmd.row, None, None))
  /\ active' = [active EXCEPT ![cmd.bank] = TRUE]
  /\ row' = RowLoaded(cmd)
  /\ KeepPending
  /\ UNCHANGED <<state, bootCounter>>

\* The only case in which the bus command is consumed (io_bus_cmd_ready).
Access(cmd) ==
  /\ Serving(cmd) /\ RowHit(cmd)
  /\ Emit(IF cmd.write THEN Task("WRITE", cmd.bank, cmd.col, cmd.data, None)
                       ELSE Task("READ", cmd.bank, cmd.col, None, cmd.ctx))
  /\ KeepPending
  /\ UNCHANGED <<state, bootCounter, active, row>>

Idle(cmd) ==
  /\ state = "RUN" /\ ~refresh_pending /\ cmd = None
  /\ Emit(None)
  /\ KeepPending
  /\ UNCHANGED <<state, bootCounter, active, row>>

\* rData is occupied: nothing moves, except that the row register of a closed
\* bank follows the command that is waiting to open it.
Stalled(cmd) ==
  /\ row' = IF Serving(cmd) /\ ~active[cmd.bank]
            THEN RowLoaded(cmd) ELSE row
  /\ KeepPending
  /\ UNCHANGED <<state, bootCounter, active, rData>>

Frontend(cmd, ready) ==
  \/ /\ ready
     /\ \/ Powerup \/ BootPrecharge \/ BootRefresh \/ BootMode
        \/ RefreshPrecharge \/ Refresh
        \/ Precharge(cmd) \/ Activate(cmd) \/ Access(cmd) \/ Idle(cmd)
  \/ ~ready /\ Stalled(cmd)

CmdReady(cmd) == Serving(cmd) /\ RowHit(cmd) /\ rspReady

(***************************************************************************)
(* The chip stage.  dq is what the SDRAM drives on the data pins.          *)
(***************************************************************************)
HistoryStages == 1..4

ReadContext(op) == IF op # None /\ op.task = "READ" THEN op.ctx ELSE None

\* Is a read being issued or on its way back?
ReadsInFlight(op) ==
  ReadContext(op) # None \/ \E i \in HistoryStages : readHistory[i] # None

\* Mutants: only the read about to be pushed stops the clock; the clock stops for
\* every read.
CkeNextLate(op, rsp_ready)   == ~(readHistory[4] # None /\ ~rsp_ready)
CkeNextAlways(op, rsp_ready) == ~ReadsInFlight(op)

\* sdramCkeNext: stop the chip when the reader is not ready for what comes.
CkeNext(op, rsp_ready) == ~(ReadsInFlight(op) /\ ~rsp_ready)

\* backupIn: the data of the oldest read, pushed when the chip is clocked.
backupIn == IF readHistory[4] # None /\ remoteCke
            THEN [ctx |-> readHistory[4], data |-> dq_read] ELSE None

Chip(op, rsp_ready, dq) ==
  /\ ckeInternal' = CkeNext(op, rsp_ready)
  /\ remoteCke' = ckeInternal
  /\ ckePin' = CkeNext(op, rsp_ready)
  /\ IF remoteCke
     THEN /\ readHistory' = [i \in HistoryStages |->
                               IF i = 1 THEN ReadContext(op) ELSE readHistory[i - 1]]
          /\ pins' = op
          /\ dq_read' = dq
     ELSE UNCHANGED <<readHistory, pins, dq_read>>

\* io_bus_rsp
RspValid   == Fifo!PopValid(backupIn)
RspPayload == Fifo!PopPayload(backupIn)

(***************************************************************************)
(* One clock cycle, and the asynchronous reset.                            *)
(***************************************************************************)
Clock(cmd, rsp_ready, dq) ==
  /\ Timers
  /\ Frontend(cmd, rspReady)
  /\ BubbleInserter(taskTaken)
  /\ Chip(issued, rsp_ready, dq)
  /\ Fifo!Clock(backupIn, rsp_ready)

\* Rows, pins, DQ register and FIFO RAM have no reset value; after power-up
\* they settle during the power-up wait, on a deselected chip.
CtrlInit ==
  /\ refresh_counter = 0 /\ refresh_pending = FALSE
  /\ powerup_counter = 0 /\ powerup_done = FALSE
  /\ state = "BOOT_PRECHARGE" /\ bootCounter = 0
  /\ active = [b \in Banks |-> FALSE]
  /\ row \in [Banks -> Rows]
  /\ rData = None
  /\ write_counter = 0
  /\ precharge_counter = [b \in Banks |-> 0]
  /\ active_counter = [b \in Banks |-> 0]
  /\ readHistory = [i \in HistoryStages |-> None]
  /\ ckeInternal = TRUE /\ remoteCke = TRUE
  /\ ckePin = TRUE /\ pins = None /\ dq_read = None
  /\ Fifo!Init

\* Mutant: the reset forgets the open banks.
CtrlResetBanksKept ==
  /\ refresh_counter' = 0 /\ refresh_pending' = FALSE
  /\ powerup_counter' = 0 /\ powerup_done' = FALSE
  /\ state' = "BOOT_PRECHARGE" /\ bootCounter' = 0
  /\ rData' = None
  /\ write_counter' = 0
  /\ precharge_counter' = [b \in Banks |-> 0]
  /\ active_counter' = [b \in Banks |-> 0]
  /\ readHistory' = [i \in HistoryStages |-> None]
  /\ ckeInternal' = TRUE /\ remoteCke' = TRUE
  /\ Fifo!Reset
  /\ UNCHANGED <<active, row, ckePin, pins, dq_read>>

CtrlReset ==
  /\ refresh_counter' = 0 /\ refresh_pending' = FALSE
  /\ powerup_counter' = 0 /\ powerup_done' = FALSE
  /\ state' = "BOOT_PRECHARGE" /\ bootCounter' = 0
  /\ active' = [b \in Banks |-> FALSE]
  /\ rData' = None
  /\ write_counter' = 0
  /\ precharge_counter' = [b \in Banks |-> 0]
  /\ active_counter' = [b \in Banks |-> 0]
  /\ readHistory' = [i \in HistoryStages |-> None]
  /\ ckeInternal' = TRUE /\ remoteCke' = TRUE
  /\ Fifo!Reset
  /\ UNCHANGED <<row, ckePin, pins, dq_read>>
=============================================================================
