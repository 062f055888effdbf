----------------------------- MODULE MmcDriver -----------------------------
(***************************************************************************)
(* The SD driver of mmc.c over the controller and the card: mmc_init and   *)
(* mmc_bread as one action for each command whose completion the driver    *)
(* awaits (pc names it), each with the code up to the next command.        *)
(*                                                                         *)
(* The driver runs alone, but not in step with the card: a data transfer   *)
(* goes on after a command that failed, and its end is seen by whichever   *)
(* command polls the data status next.                                     *)
(***************************************************************************)
EXTENDS SdController

CONSTANTS
    SizeMod,        \* size_t wraps at this value (2^32)
    BMax,           \* blocks of one transfer (256)
    OpCondPolls,    \* times AppSendOpCond is repeated (1000)
    StatusPolls,    \* times SendStatus is repeated (1000)
    StatusRetries,  \* failures of SendStatus it survives (5)
    ScrRetries,     \* times AppSendScr is repeated (3)
    SwitchTries,    \* times SwitchFunc is tried while busy (4)
    CardKinds,      \* the cards that may be in the slot
    Requests,       \* the reads a program may ask for
    MaxFaults, MaxInits, MaxReads   \* bounds of a run

ASSUME DriverAssumption ==
    /\ {SizeMod, BMax, SwitchTries} \subseteq Nat \ {0}
    /\ {OpCondPolls, StatusPolls, StatusRetries, ScrRetries,
        MaxFaults, MaxInits, MaxReads} \subseteq Nat
    /\ CardKinds \subseteq Kinds
    /\ Requests \subseteq [start : 0 .. SizeMod - 1, count : 0 .. SizeMod - 1]

VARIABLES
    card, ctl,      \* the card and the controller
    mmc,            \* struct mmc: what the driver knows of the card
    pc,             \* the command, or the data, that is awaited
    polls, retries, \* loop counters of the function that runs
    csdHeard,       \* mmc_startup: SendCsd was answered
    req,            \* mmc_bread: blocks asked for, left, and the next one
    buf,            \* the caller's buffer, by block
    result,         \* what the last call returned
    faults, inits, reads,   \* counted up to their bounds
    negotiated,     \* history: the operating conditions were agreed on
    suspect         \* history: a command with data failed since a reset

vars == <<card, ctl, mmc, pc, polls, retries, csdHeard, req, buf, result,
          faults, inits, reads, negotiated, suspect>>

Versions == {"unknown", "sd10", "sd110", "sd2"}
MmcType == [hasInit : BOOLEAN, version : Versions, hc : BOOLEAN,
            rca : {0, CardRca}, four : BOOLEAN, width : {1, 4},
            capacity : 0 .. SizeMod - 1]

Calls == {"goIdle", "ifCond", "opCondApp", "opCond", "allSendCid", "relAddr",
          "csd", "status", "select", "scrApp", "scr", "scrData", "switch",
          "switchData", "widthApp", "width", "setBlockLen", "read",
          "readData", "stop"}

Results == {"none", "initOk", "initFailed", "read", "nothing"}

(* Everything has a value of its type.                                     *)
TypeOK ==
    /\ card \in CardType
    /\ ctl \in ControllerType
    /\ mmc \in MmcType
    /\ pc \in Calls \cup {"caller"}
    /\ polls \in Nat /\ retries \in Nat
    /\ csdHeard \in BOOLEAN
    /\ req \in [start : 0 .. SizeMod - 1, count : 0 .. SizeMod - 1,
                todo : 0 .. SizeMod - 1, at : Nat]
    /\ buf \in [0 .. req.count - 1 -> Int]
    /\ result \in Results
    /\ faults \in 0 .. MaxFaults
    /\ inits \in 0 .. MaxInits
    /\ reads \in 0 .. MaxReads
    /\ negotiated \in BOOLEAN /\ suspect \in BOOLEAN

Init ==
    /\ card \in {PoweredUp(kind) : kind \in CardKinds}
    /\ ctl = PoweredUpController
    /\ mmc = [hasInit |-> FALSE, version |-> "unknown", hc |-> FALSE,
              rca |-> 0, four |-> FALSE, width |-> 1, capacity |-> 0]
    /\ pc = "caller"
    /\ polls = 0 /\ retries = 0
    /\ csdHeard = FALSE
    /\ req = [start |-> 0, count |-> 0, todo |-> 0, at |-> 0]
    /\ buf = [i \in 0 .. -1 |-> -1]
    /\ result = "none"
    /\ faults = 0 /\ inits = 0 /\ reads = 0
    /\ negotiated = FALSE /\ suspect = FALSE

-----------------------------------------------------------------------------
(* ocsdc_send_cmd: what may become of a command.                           *)
Outcomes(cmd, arg) == Exchanges(card, cmd, arg, faults, MaxFaults)

(* Without data: the response is rsp.                                      *)
Send(cmd, arg, Then(_)) ==
    \E x \in Outcomes(cmd, arg) :
        /\ card' = x.card
        /\ faults' = x.faults
        /\ Then(x.rsp)

(* With data, up to the response: without one the data are not waited for, *)
(* and the engine stays as the command has left it.                        *)
SendWithData(cmd, arg, what, blocks, to, Then(_)) ==
    /\ ctl' = Arm(ctl, what, blocks, to)
    /\ Send(cmd, arg,
            LAMBDA rsp : suspect' = (suspect \/ ~rsp.heard) /\ Then(rsp))

(* ocsdc_data_finish: the status is awaited, cleared, and tells the        *)
(* outcome.                                                                *)
TransferOver == ctl.status # "none"
FinishData(Then(_)) == TransferOver /\ Then(ctl.status = "done")

Goto(call) == pc' = call
Return(value) == pc' = "caller" /\ result' = value

(* mmc_init after mmc_startup has failed.                                  *)
FailInit == Return("initFailed") /\ mmc' = [mmc EXCEPT !.hasInit = FALSE]

SdKnown == mmc.version # "unknown"

-----------------------------------------------------------------------------
(* mmc_init, called as sdc_example.c does it: has_init is cleared first,   *)
(* as mmc_init would return at once otherwise.  The registers are set up,  *)
(* and setting the clock resets the controller.                            *)
CallInit ==
    /\ pc = "caller" /\ inits < MaxInits
    /\ ctl' = SetClock(SetBusWidth(ClearDataStatus(ctl), 1), FALSE)
    /\ mmc' = [mmc EXCEPT !.hasInit = FALSE, !.width = 1]
    /\ negotiated' = FALSE /\ suspect' = FALSE
    /\ inits' = inits + 1
    /\ Goto("goIdle") /\ result' = "none"
    /\ UNCHANGED <<card, polls, retries, csdHeard, req, buf, faults, reads>>

(* mmc_go_idle: no response is expected, so nothing can go wrong.          *)
GoIdleState ==
    /\ pc = "goIdle"
    /\ Send(GoIdle, 0, LAMBDA rsp : Goto("ifCond"))
    /\ UNCHANGED <<ctl, mmc, polls, retries, csdHeard, req, buf, result,
                   inits, reads, negotiated, suspect>>

(* mmc_send_if_cond: its failure is not looked at.                         *)
IfCond ==
    /\ pc = "ifCond"
    /\ Send(SendIfCond, 0, LAMBDA rsp :
           mmc' = [mmc EXCEPT !.version = IF rsp.heard THEN "sd2" ELSE @])
    /\ Goto("opCondApp")
    /\ polls' = OpCondPolls
    /\ UNCHANGED <<ctl, retries, csdHeard, req, buf, result, inits, reads,
                   negotiated, suspect>>

(* sd_send_op_cond, first command of a turn of its loop.  ocsdc_send_cmd   *)
(* returns -1 and never TIMEOUT, so mmc_init goes on with mmc_startup.     *)
OpCondApp ==
    /\ pc = "opCondApp"
    /\ Send(AppCmd, 0, LAMBDA rsp :
           Goto(IF rsp.heard THEN "opCond" ELSE "allSendCid"))
    /\ UNCHANGED <<ctl, mmc, polls, retries, csdHeard, req, buf, result,
                   inits, reads, negotiated, suspect>>

(* Mutant: the polls are not counted.                                      *)
OpCondUncounted ==
    /\ pc = "opCond"
    /\ Send(AppSendOpCond, IF mmc.version = "sd2" THEN 1 ELSE 0, LAMBDA rsp :
           \/ /\ rsp.heard /\ rsp.busy
              /\ Goto("opCondApp")
              /\ UNCHANGED <<mmc, negotiated>>
           \/ /\ rsp.heard /\ ~rsp.busy
              /\ mmc' = [mmc EXCEPT !.version = IF @ = "sd2" THEN @ ELSE "sd10",
                                    !.hc = rsp.ccs, !.rca = 0]
              /\ negotiated' = TRUE
              /\ Goto("allSendCid")
           \/ ~rsp.heard /\ Goto("allSendCid") /\ UNCHANGED <<mmc, negotiated>>)
    /\ UNCHANGED <<ctl, polls, retries, csdHeard, req, buf, result, inits,
                   reads, suspect>>

(* sd_send_op_cond, second command: a busy card is asked again while polls *)
(* last; a card that is ready at the last poll counts as unusable.         *)
OpCond ==
    /\ pc = "opCond"
    /\ Send(AppSendOpCond, IF mmc.version = "sd2" THEN 1 ELSE 0, LAMBDA rsp :
           \/ /\ rsp.heard /\ rsp.busy /\ polls > 0
              /\ polls' = polls - 1
              /\ Goto("opCondApp")
              /\ UNCHANGED <<mmc, negotiated>>
           \/ /\ rsp.heard /\ ~rsp.busy /\ polls > 0
              /\ mmc' = [mmc EXCEPT !.version = IF @ = "sd2" THEN @ ELSE "sd10",
                                    !.hc = rsp.ccs, !.rca = 0]
              /\ negotiated' = TRUE
              /\ Goto("allSendCid")
              /\ UNCHANGED polls
           \/ /\ ~rsp.heard \/ polls = 0
              /\ Goto("allSendCid")
              /\ UNCHANGED <<mmc, polls, negotiated>>)
    /\ UNCHANGED <<ctl, retries, csdHeard, req, buf, result, inits, reads,
                   suspect>>

-----------------------------------------------------------------------------
(* mmc_startup, the steps that end the initialisation when they fail.      *)
Startup(call, cmd, arg, next) ==
    /\ pc = call
    /\ Send(cmd, arg, LAMBDA rsp :
           \/ rsp.heard /\ Goto(next) /\ UNCHANGED <<mmc, result>>
           \/ ~rsp.heard /\ FailInit)
    /\ UNCHANGED <<ctl, csdHeard, req, buf, inits, reads, negotiated, suspect>>

Identify == /\ Startup("allSendCid", AllSendCid, 0, "relAddr")
            /\ UNCHANGED <<polls, retries>>

RelAddr ==
    /\ pc = "relAddr"
    /\ Send(SendRelativeAddr, mmc.rca, LAMBDA rsp :
           \/ /\ rsp.heard /\ Goto("csd")
              /\ mmc' = [mmc EXCEPT !.rca = IF SdKnown THEN rsp.rca ELSE @]
              /\ UNCHANGED result
           \/ ~rsp.heard /\ FailInit)
    /\ UNCHANGED <<ctl, polls, retries, csdHeard, req, buf, inits, reads,
                   negotiated, suspect>>

(* The answer of SendCsd is looked at after mmc_send_status only.          *)
Csd ==
    /\ pc = "csd"
    /\ Send(SendCsd, mmc.rca, LAMBDA rsp : csdHeard' = rsp.heard)
    /\ Goto("status")
    /\ polls' = StatusPolls /\ retries' = StatusRetries
    /\ UNCHANGED <<ctl, mmc, req, buf, result, inits, reads, negotiated,
                   suspect>>

(* The capacity of the card-specific data in bytes, as size_t holds it.    *)
(* The two capacity classes lay the data out differently: a driver that is *)
(* wrong about the class reads some other number.                          *)
Capacities == IF mmc.hc = card.kind.hc
              THEN {(card.kind.blocks * BlockLen) % SizeMod}
              ELSE {0, BlockLen % SizeMod, SizeMod - 1}

(* mmc_send_status, whose own result mmc_startup ignores.  A status that   *)
(* is not ready may also hold an error bit, which ends the loop as well.   *)
Status ==
    /\ pc = "status"
    /\ Send(SendStatus, mmc.rca, LAMBDA rsp :
         LET again == polls > 0 /\ IF rsp.heard THEN rsp.busy ELSE retries > 0
             over  == rsp.heard \/ ~again
         IN \/ /\ again
               /\ polls' = polls - 1
               /\ retries' = IF rsp.heard THEN retries ELSE retries - 1
               /\ UNCHANGED <<pc, mmc, result>>
            \/ /\ over /\ csdHeard
               /\ \E n \in Capacities : mmc' = [mmc EXCEPT !.capacity = n]
               /\ Goto("select")
               /\ UNCHANGED <<polls, retries, result>>
            \/ /\ over /\ ~csdHeard
               /\ FailInit
               /\ UNCHANGED <<polls, retries>>)
    /\ UNCHANGED <<ctl, csdHeard, req, buf, inits, reads, negotiated, suspect>>

Select == /\ Startup("select", SelectCard, mmc.rca, "scrApp")
          /\ UNCHANGED <<polls, retries>>

-----------------------------------------------------------------------------
(* sd_change_freq: AppCmd is sent once, AppSendScr up to 1 + ScrRetries    *)
(* times.                                                                  *)
ScrApp == /\ Startup("scrApp", AppCmd, mmc.rca, "scr")
          /\ retries' = ScrRetries
          /\ UNCHANGED polls

RetryScr ==
    \/ /\ retries > 0 /\ retries' = retries - 1
       /\ Goto("scr")
       /\ UNCHANGED <<mmc, result>>
    \/ /\ retries = 0 /\ FailInit /\ UNCHANGED retries

Scr ==
    /\ pc = "scr"
    /\ SendWithData(AppSendScr, 0, "scr", 1, 0, LAMBDA rsp :
           \/ rsp.heard /\ Goto("scrData") /\ UNCHANGED <<mmc, result, retries>>
           \/ ~rsp.heard /\ RetryScr)
    /\ UNCHANGED <<polls, csdHeard, req, buf, inits, reads, negotiated>>

(* mmc_startup once the card's and the host's capabilities are known: a    *)
(* card with four data lines is switched to them, then the clock is raised *)
(* and the initialisation is complete.                                     *)
FinishStartup(c, m) ==
    /\ ctl' = SetClock(SetBusWidth(c, m.width), TRUE)
    /\ mmc' = [m EXCEPT !.hasInit = TRUE]
    /\ suspect' = FALSE
    /\ Return("initOk")

(* The register tells the version and the bus of the card.  A version 1.0  *)
(* card is not asked for its switch function.                              *)
ScrVersion == [spec \in 0 .. 2 |-> CASE spec = 0 -> "sd10"
                                      [] spec = 1 -> "sd110"
                                      [] spec = 2 -> "sd2"]

ScrData ==
    /\ pc = "scrData"
    /\ FinishData(LAMBDA done :
         LET c == ClearDataStatus(ctl)
             m == [mmc EXCEPT !.version = ScrVersion[card.kind.spec],
                              !.four = card.kind.four]
         IN \/ /\ done /\ m.version # "sd10"
               /\ Goto("switch")
               /\ mmc' = m /\ ctl' = c /\ polls' = SwitchTries
               /\ UNCHANGED <<result, retries, suspect>>
            \/ /\ done /\ m.version = "sd10" /\ m.four
               /\ Goto("widthApp")
               /\ mmc' = m /\ ctl' = c
               /\ UNCHANGED <<result, retries, polls, suspect>>
            \/ /\ done /\ m.version = "sd10" /\ ~m.four
               /\ FinishStartup(c, m)
               /\ UNCHANGED <<retries, polls>>
            \/ /\ ~done
               /\ RetryScr /\ ctl' = c
               /\ UNCHANGED <<polls, suspect>>)
    /\ UNCHANGED <<card, csdHeard, req, buf, faults, inits, reads, negotiated>>

(* sd_switch, asked only whether the card has a high speed mode.           *)
Switch ==
    /\ pc = "switch"
    /\ SendWithData(SwitchFunc, 0, "func", 1, 0, LAMBDA rsp :
           \/ rsp.heard /\ Goto("switchData") /\ UNCHANGED <<mmc, result>>
           \/ ~rsp.heard /\ FailInit)
    /\ UNCHANGED <<polls, retries, csdHeard, req, buf, inits, reads, negotiated>>

(* While the mode is busy the question is repeated.  The host has no high  *)
(* speed mode, so whatever the answer the card is not switched.            *)
SwitchData ==
    /\ pc = "switchData"
    /\ FinishData(LAMBDA done :
         LET c == ClearDataStatus(ctl)
         IN \/ /\ done /\ polls > 1
               /\ Goto("switch")
               /\ polls' = polls - 1
               /\ ctl' = c
               /\ UNCHANGED <<mmc, result, suspect>>
            \/ /\ done /\ mmc.four
               /\ Goto("widthApp")
               /\ ctl' = c
               /\ UNCHANGED <<mmc, result, polls, suspect>>
            \/ /\ done /\ ~mmc.four
               /\ FinishStartup(c, mmc)
               /\ UNCHANGED polls
            \/ /\ ~done
               /\ FailInit /\ ctl' = c
               /\ UNCHANGED <<polls, suspect>>)
    /\ UNCHANGED <<card, retries, csdHeard, req, buf, faults, inits, reads,
                   negotiated>>

WidthApp == /\ Startup("widthApp", AppCmd, mmc.rca, "width")
            /\ UNCHANGED <<polls, retries>>

(* Mutant: the controller's width follows the command, not its response.   *)
WidthUnanswered ==
    /\ pc = "width"
    /\ Send(AppSetBusWidth, 2,
            LAMBDA rsp : FinishStartup(ctl, [mmc EXCEPT !.width = 4]))
    /\ UNCHANGED <<polls, retries, csdHeard, req, buf, inits, reads, negotiated>>

Width ==
    /\ pc = "width"
    /\ Send(AppSetBusWidth, 2, LAMBDA rsp :
           \/ rsp.heard /\ FinishStartup(ctl, [mmc EXCEPT !.width = 4])
           \/ ~rsp.heard /\ FailInit /\ UNCHANGED <<ctl, suspect>>)
    /\ UNCHANGED <<polls, retries, csdHeard, req, buf, inits, reads, negotiated>>

-----------------------------------------------------------------------------
(* Mutant: the last block is counted as one more.                          *)
InBoundsLate(r) == (r.start + r.count) % SizeMod <= mmc.capacity \div BlockLen + 1

(* mmc_bread: the request is checked against the capacity, in size_t.      *)
InBounds(r) == (r.start + r.count) % SizeMod <= mmc.capacity \div BlockLen

CallRead ==
    /\ pc = "caller" /\ mmc.hasInit /\ reads < MaxReads
    /\ \E r \in Requests :
         /\ req' = [start |-> r.start, count |-> r.count, todo |-> r.count,
                    at |-> r.start]
         /\ buf' = [i \in 0 .. r.count - 1 |-> -1]
         /\ IF r.count # 0 /\ InBounds(r)
            THEN Goto("setBlockLen") /\ result' = "none"
            ELSE Return("nothing")
    /\ reads' = reads + 1
    /\ UNCHANGED <<card, ctl, mmc, polls, retries, csdHeard, faults, inits,
                   negotiated, suspect>>

BlockLength ==
    /\ pc = "setBlockLen"
    /\ Send(SetBlockLen, BlockLen, LAMBDA rsp :
           \/ rsp.heard /\ Goto("read") /\ UNCHANGED result
           \/ ~rsp.heard /\ Return("nothing"))
    /\ UNCHANGED <<ctl, mmc, polls, retries, csdHeard, req, buf, inits, reads,
                   negotiated, suspect>>

(* mmc_read_blocks on the next chunk.                                      *)
Chunk == IF req.todo > BMax THEN BMax ELSE req.todo

(* Mutant: the command for one block is used for the last chunk, too.      *)
ReadBlocksSingle ==
    /\ pc = "read"
    /\ SendWithData(IF req.todo > BMax THEN ReadMultiple ELSE ReadSingle,
                    IF mmc.hc THEN req.at ELSE (req.at * BlockLen) % SizeMod,
                    "block", Chunk, req.count - req.todo, LAMBDA rsp :
           \/ rsp.heard /\ Goto("readData") /\ UNCHANGED result
           \/ ~rsp.heard /\ Return("nothing"))
    /\ UNCHANGED <<mmc, polls, retries, csdHeard, req, buf, inits, reads,
                   negotiated>>

ReadBlocks ==
    /\ pc = "read"
    /\ SendWithData(IF Chunk > 1 THEN ReadMultiple ELSE ReadSingle,
                    IF mmc.hc THEN req.at ELSE (req.at * BlockLen) % SizeMod,
                    "block", Chunk, req.count - req.todo, LAMBDA rsp :
           \/ rsp.heard /\ Goto("readData") /\ UNCHANGED result
           \/ ~rsp.heard /\ Return("nothing"))
    /\ UNCHANGED <<mmc, polls, retries, csdHeard, req, buf, inits, reads,
                   negotiated>>

(* Mutant: every chunk is taken for a full one.                            *)
NextChunkFull ==
    /\ req' = [req EXCEPT !.todo = @ - BMax, !.at = @ + BMax]
    /\ IF req.todo > Chunk THEN Goto("read") /\ UNCHANGED result
       ELSE Return("read")

(* Mutant: the address does not follow the blocks read.                    *)
NextChunkSamePlace ==
    /\ req' = [req EXCEPT !.todo = @ - Chunk]
    /\ IF req.todo > Chunk THEN Goto("read") /\ UNCHANGED result
       ELSE Return("read")

NextChunk ==
    /\ req' = [req EXCEPT !.todo = @ - Chunk, !.at = @ + Chunk]
    /\ IF req.todo > Chunk THEN Goto("read") /\ UNCHANGED result
       ELSE Return("read")

(* Mutant: a multiple read is not stopped.                                 *)
ReadDataUnstopped ==
    /\ pc = "readData"
    /\ FinishData(LAMBDA done :
           \/ done /\ NextChunk
           \/ ~done /\ Return("nothing") /\ UNCHANGED req)
    /\ ctl' = ClearDataStatus(ctl)
    /\ UNCHANGED <<card, mmc, polls, retries, csdHeard, buf, faults, inits,
                   reads, negotiated, suspect>>

ReadData ==
    /\ pc = "readData"
    /\ FinishData(LAMBDA done :
           \/ done /\ Chunk > 1 /\ Goto("stop") /\ UNCHANGED <<req, result>>
           \/ done /\ Chunk = 1 /\ NextChunk
           \/ ~done /\ Return("nothing") /\ UNCHANGED req)
    /\ ctl' = ClearDataStatus(ctl)
    /\ UNCHANGED <<card, mmc, polls, retries, csdHeard, buf, faults, inits,
                   reads, negotiated, suspect>>

(* The response of StopTransmission is awaited until the card is no longer *)
(* busy.                                                                   *)
Stop ==
    /\ pc = "stop"
    /\ Send(StopTransmission, 0, LAMBDA rsp :
           \/ rsp.heard /\ NextChunk
           \/ ~rsp.heard /\ Return("nothing") /\ UNCHANGED req)
    /\ UNCHANGED <<ctl, mmc, polls, retries, csdHeard, buf, inits, reads,
                   negotiated, suspect>>

-----------------------------------------------------------------------------
(* The card sends what it has been asked for, whether or not the driver    *)
(* waits; on its way a payload may be damaged.                             *)
CardSends ==
    /\ CanSend(card)
    /\ \E intact \in BOOLEAN :
         /\ ~intact => faults < MaxFaults
         /\ faults' = IF intact THEN faults ELSE faults + 1
         /\ ctl' = Receive(ctl, card, intact)
         /\ buf' = Stored(ctl, card, intact, buf)
    /\ card' = AfterBlock(card)
    /\ UNCHANGED <<mmc, pc, polls, retries, csdHeard, req, result, inits, reads,
                   negotiated, suspect>>

DriverStep ==
    \/ GoIdleState \/ IfCond \/ OpCondApp \/ OpCond
    \/ Identify \/ RelAddr \/ Csd \/ Status \/ Select
    \/ ScrApp \/ Scr \/ ScrData \/ Switch \/ SwitchData \/ WidthApp \/ Width
    \/ BlockLength \/ ReadBlocks \/ ReadData \/ Stop

Next == CallInit \/ CallRead \/ DriverStep \/ CardSends

Spec == Init /\ [][Next]_vars

(* The driver runs to its next wait, and the card sends what it has been   *)
(* asked for; nobody makes a program call the driver.                      *)
FairSpec == Spec /\ WF_vars(DriverStep) /\ WF_vars(CardSends)

-----------------------------------------------------------------------------
(* An initialised driver, the controller and the card agree: the card is   *)
(* selected under the address the driver uses, and both sides of the data  *)
(* bus have the same width, whatever was lost on the way (mmc_init,        *)
(* mmc_startup).                                                           *)
InitMeansTransfer ==
    mmc.hasInit =>
        /\ card.state \in {"tran", "data"}
        /\ card.rca = mmc.rca
        /\ ctl.width = card.width /\ mmc.width = card.width
        /\ ctl.fast

(* As long as nothing is lost or damaged, a command that the card rejects  *)
(* in the state it is in is one of an initialisation whose operating       *)
(* conditions were not agreed on, as mmc_startup runs on after             *)
(* sd_send_op_cond has given up, and that initialisation does not succeed: *)
(* an initialised driver has sent none, agreed or not (mmc_startup,        *)
(* mmc_bread).                                                             *)
CommandsLegal == card.rejected /\ faults = 0 => ~negotiated /\ ~mmc.hasInit

Wrapped == req.start + req.count >= SizeMod

(* mmc_bread returns the blocks it was asked for: exactly those of the     *)
(* card at that address, complete and in order, also over several chunks   *)
(* and after failed reads.  Without agreed operating conditions, after a   *)
(* data command failed since the last software reset, or when the sum of   *)
(* start and count wraps, it need not.                                     *)
ReadsExact ==
    result = "read" /\ negotiated /\ ~suspect /\ ~Wrapped =>
        buf = [i \in 0 .. req.count - 1 |-> req.start + i]

(* A request that passes the check of mmc_bread, made modulo SizeMod       *)
(* against a capacity modulo SizeMod, ends on the card, or its end wraps   *)
(* and is taken for a place on the card: such a request is sent to the     *)
(* card though its blocks lie beyond it, and no other is.  The driver must *)
(* have the class of the card right, which it has when the operating       *)
(* conditions were agreed on; else the capacity it reads is another        *)
(* number.                                                                 *)
ReadsInside ==
    pc = "read" /\ mmc.hc = card.kind.hc =>
        \/ req.start + req.count <= card.kind.blocks
        \/ Wrapped /\ (req.start + req.count) % SizeMod <= card.kind.blocks

(* A call of mmc_init returns, whatever the card and the bus do.           *)
InitReturns == (pc = "goIdle") ~> (pc = "caller")

(* A call of mmc_bread returns, unless its data command, or one before it  *)
(* since the last software reset, failed: there is no data timeout.  A     *)
(* request whose end wraps need not return, either, as it asks for blocks  *)
(* beyond the card, which never come; nor need one to a card whose         *)
(* operating conditions were not agreed on, for the same reason.           *)
ReadReturns ==
    (pc = "setBlockLen" /\ negotiated /\ ~Wrapped)
        ~> (pc = "caller" \/ suspect)
=============================================================================
