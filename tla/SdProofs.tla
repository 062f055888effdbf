------------------------------ MODULE SdProofs ------------------------------
(***************************************************************************)
(* Proofs about MmcDriver, for any cards, any width of size_t, any sizes   *)
(* of blocks and transfers and any number of faults: the types of its      *)
(* state; that an initialised driver, the controller and the card agree;   *)
(* that the driver asks the card only for blocks the card has, that what a *)
(* read returns is what it was asked for, and that without faults the card *)
(* accepts all commands.                                                   *)
(*                                                                         *)
(* InitMeansTransfer is not inductive: what the card is like when the      *)
(* initialisation ends follows from how far the driver has come.  Agreed   *)
(* adds that: the width of the bus while the driver initialises, the card  *)
(* being selected from SelectCard on, and whether it takes command 6 for   *)
(* the bus width or for the switch function.                               *)
(***************************************************************************)
EXTENDS MmcDriver, TLAPS

InitCalls == {"goIdle", "ifCond", "opCondApp", "opCond", "allSendCid",
              "relAddr", "csd", "status", "select", "scrApp", "scr", "scrData",
              "switch", "switchData", "widthApp", "width"}
SelectedCalls == {"scrApp", "scr", "scrData", "switch", "switchData",
                  "widthApp", "width"}
ReadCalls == {"setBlockLen", "read", "readData", "stop"}

(* Only a card in the data state sends, and a card leaves the wide bus     *)
(* with its reset.                                                         *)
Sane(c) ==
    /\ c.stream # NoStream => c.state = "data"
    /\ c.state \in {"idle", "ready", "ident", "stby"} => c.width = 1

Agreed ==
    /\ Sane(card)
    /\ pc \in InitCalls => ~mmc.hasInit /\ mmc.width = 1 /\ ctl.width = 1
    /\ pc \in SelectedCalls =>
         card.state \in {"tran", "data"} /\ card.rca = mmc.rca /\ card.width = 1
    /\ pc \in {"scrData", "switch", "switchData"} => ~card.app
    /\ pc = "width" => card.app
    /\ InitMeansTransfer

(* While a read goes on there are blocks left to read.                     *)
Typed == TypeOK /\ (pc \in ReadCalls => req.todo \in 1 .. req.count)

IInv == Typed /\ Agreed

-----------------------------------------------------------------------------
(* Lemmas about the card and the command line.                             *)

USE DEF GoIdle, AllSendCid, SendRelativeAddr, SwitchFunc, SelectCard,
        SendIfCond, SendCsd, StopTransmission, SendStatus, SetBlockLen,
        ReadSingle, ReadMultiple, AppCmd, AppSendOpCond, AppSendScr,
        AppSetBusWidth, Outcomes, TransferOver

ResponseType == [heard : BOOLEAN, busy : BOOLEAN, ccs : BOOLEAN,
                 rca : {0, CardRca}]

(* What the named assumptions say of the bounds.                          *)
LEMMA Bounds ==
    /\ SizeMod \in Nat \ {0} /\ BMax \in Nat \ {0} /\ SwitchTries \in Nat \ {0}
    /\ OpCondPolls \in Nat /\ StatusPolls \in Nat /\ StatusRetries \in Nat
    /\ ScrRetries \in Nat /\ MaxFaults \in Nat /\ MaxInits \in Nat
    /\ MaxReads \in Nat
BY DriverAssumption

(* Addresses stay natural numbers when they are divided, sizes stay within *)
(* size_t.                                                                 *)
LEMMA Division ==
    ASSUME NEW n \in Nat PROVE n \div BlockLen \in Nat
BY BlockLenAssumption

(* A value of size_t.                                                     *)
LEMMA Remainder ==
    ASSUME NEW n \in Int PROVE n % SizeMod \in 0 .. SizeMod - 1
BY DriverAssumption

(* A card that accepts a command, case by case.                            *)
LEMMA EffectsTyped ==
    ASSUME NEW c0 \in CardType, Sane(c0), NEW cmd, NEW arg \in Nat,
           Accepts(c0, cmd, arg), NEW h \in Effects(c0, cmd, arg)
    PROVE  h.card \in CardType /\ h.rsp \in ResponseType /\ Sane(h.card)
<1> DEFINE c == [c0 EXCEPT !.app = FALSE]
<1>1. c \in CardType /\ Sane(c)
  BY DEF CardType, Sane
<1>2. Ack \in ResponseType
      /\ \A busy, ccs \in BOOLEAN, rca \in {0, CardRca} :
            Response(busy, ccs, rca) \in ResponseType
  BY DEF Ack, Response, ResponseType
<1>3. ASSUME NEW what \in Payloads, NEW block \in Nat, NEW multi \in BOOLEAN
      PROVE  Sending(c, what, block, multi) \in CardType
             /\ Sane(Sending(c, what, block, multi))
  BY <1>1, ZenonT(30) DEF Sending, CardType, CardStates, Streams, Sane
<1>4. CASE cmd = SendIfCond
  <2>1. h = [card |-> [c EXCEPT !.ifCond = TRUE], rsp |-> Ack]
    BY <1>4 DEF Effects
  <2> QED BY <2>1, <1>1, <1>2 DEF CardType, Sane
<1>5. CASE cmd = AppCmd
  <2>1. h = [card |-> [c EXCEPT !.app = TRUE], rsp |-> Ack]
    BY <1>5 DEF Effects
  <2> QED BY <2>1, <1>1, <1>2 DEF CardType, Sane
<1>6. CASE cmd = AppSendOpCond
  <2> DEFINE ready == [c EXCEPT !.state = "ready"]
             answer(busy, ccs) == [heard |-> TRUE, busy |-> busy,
                                   ccs |-> ccs, rca |-> 0]
             waiting == answer(TRUE, FALSE)
             agreed == answer(FALSE, c0.kind.hc)
  <2>1. c0.state = "idle" /\ c0.kind.hc \in BOOLEAN
    BY <1>6 DEF Accepts, LegalIn, CardType, Kinds
  <2>2. \/ h = [card |-> c, rsp |-> waiting]
        \/ h = [card |-> ready, rsp |-> agreed]
    BY <1>6 DEF Effects, Response, CardType
  <2>3. waiting \in ResponseType /\ agreed \in ResponseType
    BY <2>1 DEF ResponseType
  <2>4. ready \in CardType /\ Sane(ready)
    BY <1>1, <2>1 DEF CardType, Sane, CardStates
  <2> HIDE DEF c, ready, waiting, agreed
  <2> QED BY <2>2, <2>3, <2>4, <1>1
<1>7. CASE cmd = AllSendCid
  <2>1. h = [card |-> [c EXCEPT !.state = "ident"], rsp |-> Ack]
    BY <1>7 DEF Effects
  <2>2. c.state = "ready"
    BY <1>7 DEF Accepts, LegalIn, CardType
  <2> QED BY <2>1, <2>2, <1>1, <1>2 DEF CardType, Sane, CardStates
<1>8. CASE cmd = SendRelativeAddr
  <2>1. h = [card |-> [c EXCEPT !.state = "stby", !.rca = CardRca],
             rsp |-> Response(FALSE, FALSE, CardRca)]
    BY <1>8 DEF Effects, Response
  <2>2. c.state \in {"ident", "stby"}
    BY <1>8 DEF Accepts, LegalIn, CardType
  <2> QED BY <2>1, <2>2, <1>1, <1>2 DEF CardType, Sane, CardStates
<1>9. CASE cmd = SendStatus
  <2>1. \E busy \in BOOLEAN : h = [card |-> c, rsp |-> Response(busy, FALSE, 0)]
    BY <1>9 DEF Effects, Response
  <2> QED BY <2>1, <1>1, <1>2 DEF Response, ResponseType
<1>10. CASE cmd = SelectCard
  <2>1. h = [card |-> [c EXCEPT !.state = "tran"], rsp |-> Ack]
    BY <1>10 DEF Effects
  <2>2. c.state = "stby"
    BY <1>10 DEF Accepts, LegalIn, CardType
  <2> QED BY <2>1, <2>2, <1>1, <1>2 DEF CardType, Sane, CardStates
<1>11. CASE cmd = StopTransmission
  <2>1. h = [card |-> [c EXCEPT !.state = "tran", !.stream = NoStream],
             rsp |-> Ack]
    BY <1>11 DEF Effects
  <2> QED BY <2>1, <1>1, <1>2 DEF CardType, Sane, CardStates, Streams
<1>12. CASE cmd = AppSetBusWidth
  <2>1. \/ h = [card |-> [c EXCEPT !.width = 4], rsp |-> Ack]
        \/ h = [card |-> Sending(c, "func", 0, FALSE), rsp |-> Ack]
    BY <1>12 DEF Effects, Sending
  <2>2. c.state = "tran"
    BY <1>12 DEF Accepts, LegalIn, CardType
  <2>3. [c EXCEPT !.width = 4] \in CardType /\ Sane([c EXCEPT !.width = 4])
    BY <1>1, <2>2 DEF CardType, Sane
  <2>4. Sending(c, "func", 0, FALSE) \in CardType
        /\ Sane(Sending(c, "func", 0, FALSE))
    BY <1>3 DEF Payloads
  <2> QED BY <2>1, <2>3, <2>4, <1>2 DEF Sending
<1>13. CASE cmd = AppSendScr
  <2>1. h = [card |-> Sending(c, "scr", 0, FALSE), rsp |-> Ack]
    BY <1>13 DEF Effects, Sending
  <2> QED BY <2>1, <1>2, <1>3 DEF Payloads
<1>14. CASE cmd \in {ReadSingle, ReadMultiple}
  <2>1. h = [card |-> Read(c, arg, cmd = ReadMultiple), rsp |-> Ack]
    BY <1>14 DEF Effects
  <2>2. Addressed(c, arg) \in Nat
    BY Division DEF Addressed
  <2> QED BY <2>1, <2>2, <1>1, <1>2, <1>3 DEF Payloads, Read
<1>15. CASE cmd \notin {SendIfCond, AppCmd, AppSendOpCond, AllSendCid,
                        SendRelativeAddr, SendStatus, SelectCard,
                        StopTransmission, AppSetBusWidth, AppSendScr,
                        ReadSingle, ReadMultiple}
  <2>1. h = [card |-> c, rsp |-> Ack]
    BY <1>15 DEF Effects
  <2> QED BY <2>1, <1>1, <1>2
<1> QED BY <1>4, <1>5, <1>6, <1>7, <1>8, <1>9, <1>10, <1>11, <1>12, <1>13,
           <1>14, <1>15

(* Any command on the command line, whether or not it or its response is   *)
(* lost; a response is heard only if the card accepted the command.        *)
LEMMA ExchangeTyped ==
    ASSUME card \in CardType, Sane(card), faults \in 0 .. MaxFaults,
           NEW cmd, NEW arg \in Nat,
           NEW x \in Exchanges(card, cmd, arg, faults, MaxFaults)
    PROVE  /\ x.card \in CardType /\ Sane(x.card)
           /\ x.faults \in 0 .. MaxFaults
           /\ x.rsp \in ResponseType
<1>1. NoResponse \in ResponseType /\ ~NoResponse.heard
  BY DEF NoResponse, ResponseType
<1>2. ASSUME NEW h \in Handle(card, cmd, arg)
      PROVE  h.card \in CardType /\ Sane(h.card) /\ h.rsp \in ResponseType
  <2>1. CASE cmd = GoIdle
    <3>1. h = [card |-> Reset(card), rsp |-> NoResponse]
      BY <2>1 DEF Handle
    <3>2. Reset(card) \in CardType /\ Sane(Reset(card))
      BY DEF Reset, PoweredUp, CardType, CardStates, Streams, Sane
    <3> QED BY <3>1, <3>2, <1>1
  <2>2. CASE cmd # GoIdle /\ Accepts(card, cmd, arg)
    BY <2>2, EffectsTyped DEF Handle
  <2>3. CASE cmd # GoIdle /\ ~Accepts(card, cmd, arg)
    <3>1. h = [card |-> [card EXCEPT !.app = FALSE,
                                     !.rejected = @ \/ cmd # SendIfCond],
               rsp |-> NoResponse]
      BY <2>3 DEF Handle
    <3> QED BY <3>1, <1>1 DEF CardType, Sane
  <2> QED BY <2>1, <2>2, <2>3
<1> QED BY <1>1, <1>2, DriverAssumption DEF Exchanges

(* A command whose response is heard was accepted; otherwise the card has  *)
(* handled it or never received it.                                        *)
LEMMA ExchangeForm ==
    ASSUME NEW cmd, NEW arg,
           NEW x \in Exchanges(card, cmd, arg, faults, MaxFaults)
    PROVE  /\ \/ x.card = card
              \/ \E h \in Handle(card, cmd, arg) : x.card = h.card
           /\ x.rsp.heard => \E h \in Effects(card, cmd, arg) :
                 /\ cmd # GoIdle /\ Accepts(card, cmd, arg)
                 /\ x.card = h.card /\ x.rsp = h.rsp
<1>1. ~NoResponse.heard
  BY DEF NoResponse
<1>2. ASSUME NEW h \in Handle(card, cmd, arg), h.rsp.heard
      PROVE  cmd # GoIdle /\ Accepts(card, cmd, arg)
             /\ h \in Effects(card, cmd, arg)
  BY <1>1, <1>2 DEF Handle
<1> QED BY <1>1, <1>2 DEF Exchanges

(* A card that is selected stays so, with its address and its bus width,   *)
(* under every command but GoIdle and the one that sets the bus width.     *)
LEMMA StaysSelected ==
    ASSUME card \in CardType, NEW cmd, NEW arg,
           cmd \in {AppCmd, AppSendScr, SwitchFunc, SetBlockLen, ReadSingle,
                   ReadMultiple, StopTransmission},
           cmd = SwitchFunc => ~card.app,
           card.state \in {"tran", "data"},
           NEW x \in Exchanges(card, cmd, arg, faults, MaxFaults)
    PROVE  /\ x.card.state \in {"tran", "data"}
           /\ x.card.rca = card.rca /\ x.card.width = card.width
           /\ cmd # AppCmd => (x.card.app => card.app)
           /\ x.rsp.heard => (x.card.app <=> cmd = AppCmd)
<1> DEFINE c == [card EXCEPT !.app = FALSE]
<1>1. ASSUME NEW h \in Effects(card, cmd, arg)
      PROVE  /\ h.card.state \in {"tran", "data"}
             /\ h.card.rca = card.rca /\ h.card.width = card.width
             /\ h.card.app <=> cmd = AppCmd
  <2>1. CASE cmd = AppCmd
    <3>1. h.card = [c EXCEPT !.app = TRUE]
      BY <2>1 DEF Effects
    <3> QED BY <3>1, <2>1 DEF CardType
  <2>2. CASE cmd = StopTransmission
    <3>1. h.card = [c EXCEPT !.state = "tran", !.stream = NoStream]
      BY <2>2 DEF Effects
    <3> QED BY <3>1, <2>2 DEF CardType
  <2>3. CASE cmd = SetBlockLen
    <3>1. h.card = c
      BY <2>3 DEF Effects
    <3> QED BY <3>1, <2>3 DEF CardType
  <2>4. CASE cmd = AppSendScr
    <3>1. h.card = Sending(c, "scr", 0, FALSE)
      BY <2>4 DEF Effects, Sending
    <3> QED BY <3>1, <2>4 DEF CardType, Sending
  <2>5. CASE cmd = SwitchFunc
    <3>1. h.card = Sending(c, "func", 0, FALSE)
      BY <2>5 DEF Effects, Sending
    <3> QED BY <3>1, <2>5 DEF CardType, Sending
  <2>6. CASE cmd \in {ReadSingle, ReadMultiple}
    <3>1. h.card = Read(c, arg, cmd = ReadMultiple)
      BY <2>6 DEF Effects, Read, Sending
    <3> QED BY <3>1, <2>6 DEF CardType, Read, Sending
  <2> QED BY <2>1, <2>2, <2>3, <2>4, <2>5, <2>6
<1>2. ASSUME NEW h \in Handle(card, cmd, arg)
      PROVE  /\ h.card.state \in {"tran", "data"}
             /\ h.card.rca = card.rca /\ h.card.width = card.width
             /\ cmd # AppCmd => ~h.card.app
  <2>1. CASE Accepts(card, cmd, arg)
    BY <2>1, <1>1 DEF Handle
  <2>2. CASE ~Accepts(card, cmd, arg)
    <3>1. h = [card |-> [card EXCEPT !.app = FALSE,
                                     !.rejected = @ \/ cmd # SendIfCond],
               rsp |-> NoResponse]
      BY <2>2 DEF Handle
    <3> QED BY <3>1 DEF CardType
  <2> QED BY <2>1, <2>2
<1> QED BY <1>1, <1>2, ExchangeForm

(* The two commands after which a card is selected, or has a wide bus.     *)
LEMMA BecomesSelected ==
    ASSUME card \in CardType, Sane(card), NEW arg,
           NEW x \in Exchanges(card, SelectCard, arg, faults, MaxFaults),
           x.rsp.heard
    PROVE  x.card.state = "tran" /\ x.card.rca = arg /\ x.card.width = 1
<1>1. PICK h \in Effects(card, SelectCard, arg) :
          Accepts(card, SelectCard, arg) /\ x.card = h.card
  BY ExchangeForm
<1>2. h.card = [card EXCEPT !.app = FALSE, !.state = "tran"]
  BY DEF Effects, CardType
<1>3. card.state = "stby" /\ card.rca = arg
  BY <1>1 DEF Accepts, LegalIn
<1> QED BY <1>1, <1>2, <1>3 DEF CardType, Sane

(* ACMD6 that is answered has made the card use four lines.               *)
LEMMA BecomesWide ==
    ASSUME card \in CardType, card.app, NEW arg,
           NEW x \in Exchanges(card, AppSetBusWidth, arg, faults, MaxFaults),
           x.rsp.heard
    PROVE  x.card.width = 4 /\ x.card.rca = card.rca /\ x.card.state = card.state
<1>1. PICK h \in Effects(card, AppSetBusWidth, arg) : x.card = h.card
  BY ExchangeForm
<1>2. h.card = [card EXCEPT !.app = FALSE, !.width = 4]
  BY DEF Effects, CardType
<1> QED BY <1>1, <1>2 DEF CardType

-----------------------------------------------------------------------------
(* What the actions have in common.                                        *)

(* A step of the driver that sends a command without data.                 *)
LEMMA SendTyped ==
    ASSUME IInv, NEW cmd, NEW arg \in Nat,
           NEW x \in Exchanges(card, cmd, arg, faults, MaxFaults),
           card' = x.card, faults' = x.faults
    PROVE  /\ card' \in CardType /\ Sane(card')
           /\ faults' \in 0 .. MaxFaults
           /\ x.rsp \in ResponseType
BY ExchangeTyped DEF IInv, Typed, TypeOK, Agreed

(* The registers of the controller keep their types.                       *)
LEMMA ControllerTyped ==
    ASSUME NEW c \in ControllerType
    PROVE  /\ \A fast \in BOOLEAN : SetClock(c, fast) \in ControllerType
           /\ \A width \in {1, 4} : SetBusWidth(c, width) \in ControllerType
           /\ ClearDataStatus(c) \in ControllerType
           /\ \A what \in Payloads, left \in Nat \ {0}, to \in Nat :
                 /\ Arm(c, what, left, to) \in ControllerType
                 /\ Arm(c, what, left, to).width = c.width
                 /\ Arm(c, what, left, to).fast = c.fast
           /\ \A d, intact : /\ Receive(c, d, intact) \in ControllerType
                            /\ Receive(c, d, intact).width = c.width
                            /\ Receive(c, d, intact).fast = c.fast
<1> USE DEF ControllerType, Engines, Idle, Statuses
<1>1. /\ \A fast \in BOOLEAN : SetClock(c, fast) \in ControllerType
      /\ \A width \in {1, 4} : SetBusWidth(c, width) \in ControllerType
      /\ ClearDataStatus(c) \in ControllerType
  BY DEF SetClock, SetBusWidth, ClearDataStatus
<1>2. ASSUME NEW what \in Payloads, NEW left \in Nat \ {0}, NEW to \in Nat
      PROVE  /\ Arm(c, what, left, to) \in ControllerType
             /\ Arm(c, what, left, to).width = c.width
             /\ Arm(c, what, left, to).fast = c.fast
  BY DEF Arm
<1>3. ASSUME NEW d, NEW intact
      PROVE  /\ Receive(c, d, intact) \in ControllerType
             /\ Receive(c, d, intact).width = c.width
             /\ Receive(c, d, intact).fast = c.fast
  <2>1. CASE c.engine = Idle
    BY <2>1 DEF Receive
  <2>2. CASE c.engine # Idle /\ ~(intact /\ Fits(c, d))
    BY <2>2 DEF Receive
  <2>3. CASE c.engine # Idle /\ intact /\ Fits(c, d) /\ c.engine.left = 1
    BY <2>3 DEF Receive
  <2>4. CASE c.engine # Idle /\ intact /\ Fits(c, d) /\ c.engine.left # 1
    <3> DEFINE e == [c.engine EXCEPT !.left = @ - 1, !.to = @ + 1]
    <3>1. c.engine \in [what : Payloads, left : Nat \ {0}, to : Nat]
      BY <2>4
    <3>2. e \in [what : Payloads, left : Nat \ {0}, to : Nat]
      <4>1. c.engine.left \in Nat \ {0} /\ c.engine.left # 1
        BY <2>4, <3>1
      <4>2. c.engine.left - 1 \in Nat \ {0} /\ c.engine.to + 1 \in Nat
        BY <4>1, <3>1
      <4>3. e = [c.engine EXCEPT !.left = c.engine.left - 1,
                                 !.to = c.engine.to + 1]
        OBVIOUS
      <4> QED BY <4>2, <4>3, <3>1
    <3>3. Receive(c, d, intact) = [c EXCEPT !.engine = e]
      BY <2>4, <3>1 DEF Receive
    <3> HIDE DEF e
    <3> QED BY <3>2, <3>3
  <2> QED BY <2>1, <2>2, <2>3, <2>4
<1> QED BY <1>1, <1>2, <1>3

-----------------------------------------------------------------------------
(* The types.                                                              *)

(* A card that goes on sends the next block.                               *)
LEMMA NextBlock ==
    ASSUME NEW t \in [what : Payloads, block : Nat, multi : BOOLEAN]
    PROVE  [t EXCEPT !.block = @ + 1] \in [what : Payloads, block : Nat, multi : BOOLEAN]
OBVIOUS

(* Every step keeps the types.                                            *)
LEMMA TypedStep ==
    ASSUME IInv, Next PROVE Typed'
<1> USE DEF IInv, Typed, TypeOK, ReadCalls, Calls, Results, Goto, Return
<1>1. mmc.rca \in Nat
  BY CardRcaAssumption DEF MmcType
<1>2. CASE CallInit
  <2>1. ctl' \in ControllerType
    BY <1>2, ControllerTyped DEF CallInit
  <2>2. mmc' \in MmcType
    BY <1>2 DEF CallInit, MmcType
  <2>3. inits' \in 0 .. MaxInits
    <3>1. inits < MaxInits /\ inits' = inits + 1
      BY <1>2 DEF CallInit
    <3> QED BY <3>1, Bounds
  <2> QED BY <1>2, <2>1, <2>2, <2>3 DEF CallInit
<1>3. CASE GoIdleState
  <2>1. PICK x \in Exchanges(card, GoIdle, 0, faults, MaxFaults) :
           card' = x.card /\ faults' = x.faults /\ Goto("ifCond")
    BY <1>3 DEF GoIdleState, Send
  <2> QED BY <1>3, <2>1, SendTyped DEF GoIdleState
<1>4. CASE IfCond
  <2>1. PICK x \in Exchanges(card, SendIfCond, 0, faults, MaxFaults) :
           /\ card' = x.card /\ faults' = x.faults
           /\ mmc' = [mmc EXCEPT !.version = IF x.rsp.heard THEN "sd2" ELSE @]
    BY <1>4 DEF IfCond, Send
  <2>2. mmc' \in MmcType
    BY <2>1 DEF MmcType, Versions
  <2> QED BY <1>4, <2>1, <2>2, SendTyped, Bounds DEF IfCond
<1>5. CASE OpCondApp
  <2>1. PICK x \in Exchanges(card, AppCmd, 0, faults, MaxFaults) :
           /\ card' = x.card /\ faults' = x.faults
           /\ pc' \in {"opCond", "allSendCid"}
    BY <1>5 DEF OpCondApp, Send
  <2> QED BY <1>5, <2>1, SendTyped DEF OpCondApp
<1>6. CASE OpCond
  <2> DEFINE arg == IF mmc.version = "sd2" THEN 1 ELSE 0
  <2>1. PICK x \in Exchanges(card, AppSendOpCond, arg, faults, MaxFaults) :
           /\ card' = x.card /\ faults' = x.faults
           /\ \/ /\ polls > 0 /\ polls' = polls - 1
                 /\ Goto("opCondApp") /\ UNCHANGED <<mmc, negotiated>>
              \/ /\ mmc' = [mmc EXCEPT
                              !.version = IF @ = "sd2" THEN @ ELSE "sd10",
                              !.hc = x.rsp.ccs, !.rca = 0]
                 /\ negotiated' = TRUE
                 /\ Goto("allSendCid") /\ UNCHANGED polls
              \/ Goto("allSendCid") /\ UNCHANGED <<mmc, polls, negotiated>>
    BY <1>6 DEF OpCond, Send
  <2>2. x.rsp.ccs \in BOOLEAN /\ card' \in CardType /\ faults' \in 0 .. MaxFaults
    BY <2>1, SendTyped DEF ResponseType
  <2>3. mmc' \in MmcType
    BY <2>1, <2>2 DEF MmcType, Versions
  <2>4. pc' \in {"opCondApp", "allSendCid"} /\ polls' \in Nat
    BY <2>1
  <2>5. negotiated' \in BOOLEAN
    BY <2>1
  <2> QED BY <1>6, <2>2, <2>3, <2>4, <2>5 DEF OpCond
<1>7. ASSUME NEW call, NEW cmd, NEW arg \in Nat, NEW next \in Calls \ ReadCalls,
             Startup(call, cmd, arg, next), UNCHANGED polls, retries' \in Nat
      PROVE  Typed'
  <2>1. PICK x \in Exchanges(card, cmd, arg, faults, MaxFaults) :
           /\ card' = x.card /\ faults' = x.faults
           /\ \/ Goto(next) /\ UNCHANGED <<mmc, result>>
              \/ FailInit
    BY <1>7 DEF Startup, Send
  <2>2. mmc' \in MmcType /\ result' \in Results
        /\ pc' \in (Calls \ ReadCalls) \cup {"caller"}
    BY <2>1 DEF FailInit, MmcType
  <2> QED BY <1>7, <2>1, <2>2, SendTyped DEF Startup
<1>8. CASE Identify
  BY <1>7, <1>8 DEF Identify
<1>9. CASE RelAddr
  <2>1. PICK x \in Exchanges(card, SendRelativeAddr, mmc.rca, faults, MaxFaults) :
           /\ card' = x.card /\ faults' = x.faults
           /\ \/ /\ Goto("csd")
                 /\ mmc' = [mmc EXCEPT !.rca = IF SdKnown THEN x.rsp.rca ELSE @]
                 /\ UNCHANGED result
              \/ FailInit
    BY <1>9 DEF RelAddr, Send
  <2>2. x.rsp.rca \in {0, CardRca} /\ card' \in CardType /\ faults' \in 0 .. MaxFaults
    BY <1>1, <2>1, SendTyped DEF ResponseType
  <2>3. mmc' \in MmcType /\ result' \in Results /\ pc' \in {"csd", "caller"}
    BY <2>1, <2>2 DEF FailInit, MmcType
  <2> QED BY <1>9, <2>2, <2>3 DEF RelAddr
<1>10. CASE Csd
  <2>1. PICK x \in Exchanges(card, SendCsd, mmc.rca, faults, MaxFaults) :
           card' = x.card /\ faults' = x.faults /\ csdHeard' = x.rsp.heard
    BY <1>10 DEF Csd, Send
  <2>2. csdHeard' \in BOOLEAN /\ card' \in CardType /\ faults' \in 0 .. MaxFaults
    BY <1>1, <2>1, SendTyped DEF ResponseType
  <2> QED BY <1>10, <2>2, Bounds DEF Csd
<1>11. CASE Status
  <2>1. PICK x \in Exchanges(card, SendStatus, mmc.rca, faults, MaxFaults) :
           /\ card' = x.card /\ faults' = x.faults
           /\ \/ /\ polls > 0 /\ polls' = polls - 1
                 /\ x.rsp.heard \/ retries > 0
                 /\ retries' = IF x.rsp.heard THEN retries ELSE retries - 1
                 /\ UNCHANGED <<pc, mmc, result>>
              \/ /\ \E n \in Capacities : mmc' = [mmc EXCEPT !.capacity = n]
                 /\ Goto("select") /\ UNCHANGED <<polls, retries, result>>
              \/ FailInit /\ UNCHANGED <<polls, retries>>
    BY <1>11 DEF Status, Send
  <2>2. card' \in CardType /\ faults' \in 0 .. MaxFaults
    BY <1>1, <2>1, SendTyped
  <2>3. Capacities \subseteq 0 .. SizeMod - 1
    <3>1. card.kind.blocks * BlockLen \in Int
      BY BlockLenAssumption DEF CardType, Kinds
    <3>2. (card.kind.blocks * BlockLen) % SizeMod \in 0 .. SizeMod - 1
      BY <3>1, Remainder
    <3>3. BlockLen % SizeMod \in 0 .. SizeMod - 1
      <4>1. BlockLen \in Int
        BY BlockLenAssumption
      <4> QED BY <4>1, Remainder
    <3>4. {0, SizeMod - 1} \subseteq 0 .. SizeMod - 1
      BY Bounds
    <3> QED BY <3>2, <3>3, <3>4 DEF Capacities
  <2>4. mmc' \in MmcType /\ result' \in Results /\ pc' \in {pc, "select", "caller"}
    BY <2>1, <2>3 DEF FailInit, MmcType
  <2>5. polls' \in Nat /\ retries' \in Nat
    BY <2>1, SMTT(30)
  <2> QED BY <1>11, <2>2, <2>4, <2>5 DEF Status
<1>12. CASE Select
  BY <1>1, <1>7, <1>12 DEF Select
<1>13. CASE ScrApp
  <2>1. ScrRetries \in Nat /\ "scr" \in Calls \ ReadCalls
    BY Bounds
  <2> QED BY <1>1, <1>7, <1>13, <2>1 DEF ScrApp, AppCmd
<1>14. CASE Scr
  <2>1. PICK x \in Exchanges(card, AppSendScr, 0, faults, MaxFaults) :
           /\ card' = x.card /\ faults' = x.faults
           /\ ctl' = Arm(ctl, "scr", 1, 0)
           /\ suspect' = (suspect \/ ~x.rsp.heard)
           /\ \/ Goto("scrData") /\ UNCHANGED <<mmc, result, retries>>
              \/ RetryScr
    BY <1>14 DEF Scr, SendWithData, Send
  <2>2. /\ card' \in CardType /\ faults' \in 0 .. MaxFaults
        /\ suspect' \in BOOLEAN
    BY <2>1, SendTyped DEF ResponseType
  <2>3. ctl' \in ControllerType
    <3>1. {"scr", "func"} \subseteq Payloads /\ 1 \in Nat \ {0} /\ 0 \in Nat
      BY DEF Payloads
    <3> QED BY <2>1, <3>1, ControllerTyped
  <2>4. /\ mmc' \in MmcType /\ result' \in Results
        /\ pc' \in {"scr", "scrData", "caller"}
    BY <2>1 DEF RetryScr, FailInit, MmcType
  <2>5. retries' \in Nat
    BY <2>1 DEF RetryScr
  <2> QED BY <1>14, <2>2, <2>3, <2>4, <2>5 DEF Scr
<1>15. ASSUME NEW c \in ControllerType, NEW m \in MmcType, FinishStartup(c, m)
       PROVE  /\ ctl' \in ControllerType /\ mmc' \in MmcType
              /\ suspect' = FALSE /\ pc' = "caller" /\ result' = "initOk"
  BY <1>15, ControllerTyped DEF FinishStartup, MmcType
<1>16. CASE ScrData
  <2> DEFINE c == ClearDataStatus(ctl)
             m == [mmc EXCEPT !.version = ScrVersion[card.kind.spec],
                              !.four = card.kind.four]
  <2>1. c \in ControllerType
    BY ControllerTyped
  <2>2. m \in MmcType
    <3>1. card.kind.spec \in 0 .. 2 /\ card.kind.four \in BOOLEAN
      BY DEF CardType, Kinds
    <3>2. \A spec \in 0 .. 2 : ScrVersion[spec] \in Versions
      BY DEF ScrVersion, Versions
    <3> QED BY <3>1, <3>2 DEF MmcType
  <2>3. \/ /\ pc' \in {"switch", "widthApp"}
           /\ mmc' = m /\ ctl' = c /\ polls' \in {polls, SwitchTries}
           /\ UNCHANGED <<result, retries, suspect>>
        \/ FinishStartup(c, m) /\ UNCHANGED <<retries, polls>>
        \/ RetryScr /\ ctl' = c /\ UNCHANGED <<polls, suspect>>
    BY <1>16 DEF ScrData, FinishData
  <2> HIDE DEF c, m
  <2>4. ctl' \in ControllerType /\ mmc' \in MmcType
    BY <1>15, <2>1, <2>2, <2>3 DEF RetryScr, FailInit, MmcType
  <2>5. /\ pc' \in {"scr", "switch", "widthApp", "caller"}
        /\ result' \in Results
    BY <2>3 DEF FinishStartup, RetryScr, FailInit
  <2>6. polls' \in Nat /\ retries' \in Nat
    BY <2>3, Bounds DEF RetryScr
  <2>7. suspect' \in BOOLEAN
    BY <2>3 DEF FinishStartup
  <2> QED BY <1>16, <2>4, <2>5, <2>6, <2>7 DEF ScrData
<1>17. CASE Switch
  <2>1. PICK x \in Exchanges(card, SwitchFunc, 0, faults, MaxFaults) :
           /\ card' = x.card /\ faults' = x.faults
           /\ ctl' = Arm(ctl, "func", 1, 0)
           /\ suspect' = (suspect \/ ~x.rsp.heard)
           /\ \/ Goto("switchData") /\ UNCHANGED <<mmc, result>>
              \/ FailInit
    BY <1>17 DEF Switch, SendWithData, Send
  <2>2. /\ card' \in CardType /\ faults' \in 0 .. MaxFaults
        /\ suspect' \in BOOLEAN
    BY <2>1, SendTyped DEF ResponseType
  <2>3. ctl' \in ControllerType
    <3>1. {"scr", "func"} \subseteq Payloads /\ 1 \in Nat \ {0} /\ 0 \in Nat
      BY DEF Payloads
    <3> QED BY <2>1, <3>1, ControllerTyped
  <2>4. /\ mmc' \in MmcType /\ result' \in Results
        /\ pc' \in {"switchData", "caller"}
    BY <2>1 DEF FailInit, MmcType
  <2> QED BY <1>17, <2>2, <2>3, <2>4 DEF Switch
<1>18. CASE SwitchData
  <2> DEFINE c == ClearDataStatus(ctl)
  <2>1. c \in ControllerType
    BY ControllerTyped
  <2>2. \/ /\ polls > 1 /\ Goto("switch") /\ polls' = polls - 1
           /\ ctl' = c /\ UNCHANGED <<mmc, result, suspect>>
        \/ /\ Goto("widthApp")
           /\ ctl' = c /\ UNCHANGED <<mmc, result, polls, suspect>>
        \/ FinishStartup(c, mmc) /\ UNCHANGED polls
        \/ FailInit /\ ctl' = c /\ UNCHANGED <<polls, suspect>>
    BY <1>18 DEF SwitchData, FinishData
  <2> HIDE DEF c
  <2>3. ctl' \in ControllerType /\ mmc' \in MmcType
    BY <1>15, <2>1, <2>2 DEF FailInit, MmcType
  <2>4. pc' \in {"switch", "widthApp", "caller"} /\ result' \in Results
    BY <2>2 DEF FinishStartup, FailInit
  <2>5. polls' \in Nat
    BY <2>2
  <2>6. suspect' \in BOOLEAN
    BY <2>2 DEF FinishStartup
  <2> QED BY <1>18, <2>3, <2>4, <2>5, <2>6 DEF SwitchData
<1>19. CASE WidthApp
  <2>1. "width" \in Calls \ ReadCalls
    OBVIOUS
  <2> QED BY <1>1, <1>7, <1>19, <2>1 DEF WidthApp, AppCmd
<1>20. CASE Width
  <2> DEFINE m == [mmc EXCEPT !.width = 4]
  <2>1. PICK x \in Exchanges(card, AppSetBusWidth, 2, faults, MaxFaults) :
           /\ card' = x.card /\ faults' = x.faults
           /\ \/ FinishStartup(ctl, m)
              \/ FailInit /\ UNCHANGED <<ctl, suspect>>
    BY <1>20 DEF Width, Send
  <2>2. m \in MmcType
    BY DEF MmcType
  <2> HIDE DEF m
  <2>3. ctl' \in ControllerType /\ mmc' \in MmcType
    BY <1>15, <2>1, <2>2 DEF FailInit, MmcType
  <2>4. /\ pc' = "caller" /\ result' \in Results
        /\ card' \in CardType /\ faults' \in 0 .. MaxFaults
    BY <2>1, SendTyped DEF FinishStartup, FailInit
  <2>5. suspect' \in BOOLEAN
    BY <2>1 DEF FinishStartup
  <2> QED BY <1>20, <2>3, <2>4, <2>5 DEF Width
<1>21. CASE CallRead
  <2>1. PICK r \in Requests :
           /\ req' = [start |-> r.start, count |-> r.count, todo |-> r.count,
                      at |-> r.start]
           /\ buf' = [i \in 0 .. r.count - 1 |-> -1]
           /\ \/ r.count # 0 /\ Goto("setBlockLen") /\ result' = "none"
              \/ Return("nothing")
    BY <1>21 DEF CallRead
  <2>2. r.start \in 0 .. SizeMod - 1 /\ r.count \in 0 .. SizeMod - 1
    BY DriverAssumption
  <2>3. /\ req' \in [start : 0 .. SizeMod - 1, count : 0 .. SizeMod - 1,
                    todo : 0 .. SizeMod - 1, at : Nat]
        /\ req'.count = r.count /\ req'.todo = r.count
    BY <2>1, <2>2, Bounds
  <2>4. buf' \in [0 .. req'.count - 1 -> Int]
    BY <2>1, <2>3
  <2>5. /\ pc' \in {"setBlockLen", "caller"} /\ result' \in Results
        /\ pc' = "setBlockLen" => req'.todo \in 1 .. req'.count
    BY <2>1, <2>2, <2>3
  <2>6. reads' \in 0 .. MaxReads
    BY <1>21, Bounds DEF CallRead
  <2> QED BY <1>21, <2>3, <2>4, <2>5, <2>6 DEF CallRead
<1>22. CASE BlockLength
  <2>1. PICK x \in Exchanges(card, SetBlockLen, BlockLen, faults, MaxFaults) :
           /\ card' = x.card /\ faults' = x.faults
           /\ \/ Goto("read") /\ UNCHANGED result
              \/ Return("nothing")
    BY <1>22 DEF BlockLength, Send
  <2>2. card' \in CardType /\ faults' \in 0 .. MaxFaults
    BY <2>1, SendTyped, BlockLenAssumption
  <2>3. pc' \in {"read", "caller"} /\ result' \in Results
    BY <2>1
  <2> QED BY <1>22, <2>2, <2>3 DEF BlockLength
<1>23. ASSUME pc \in ReadCalls
       PROVE  Chunk \in Nat \ {0} /\ Chunk <= req.todo
  BY <1>23, Bounds DEF Chunk
<1>24. CASE ReadBlocks
  <2> DEFINE cmd == IF Chunk > 1 THEN ReadMultiple ELSE ReadSingle
             arg == IF mmc.hc THEN req.at ELSE (req.at * BlockLen) % SizeMod
  <2>1. PICK x \in Exchanges(card, cmd, arg, faults, MaxFaults) :
           /\ card' = x.card /\ faults' = x.faults
           /\ ctl' = Arm(ctl, "block", Chunk, req.count - req.todo)
           /\ suspect' = (suspect \/ ~x.rsp.heard)
           /\ \/ Goto("readData") /\ UNCHANGED result
              \/ Return("nothing")
    BY <1>24 DEF ReadBlocks, SendWithData, Send
  <2>2. arg \in Nat
    <3>1. req.at * BlockLen \in Int
      BY BlockLenAssumption
    <3>2. (req.at * BlockLen) % SizeMod \in 0 .. SizeMod - 1
      BY <3>1, Remainder
    <3> QED BY <3>2
  <2> HIDE DEF cmd, arg
  <2>3. /\ card' \in CardType /\ faults' \in 0 .. MaxFaults
        /\ suspect' \in BOOLEAN
    BY <2>1, <2>2, SendTyped DEF ResponseType
  <2>4. ctl' \in ControllerType
    <3>1. "block" \in Payloads
      BY DEF Payloads
    <3>2. req.count - req.todo \in Nat /\ Chunk \in Nat \ {0}
      BY <1>23, <1>24 DEF ReadBlocks
    <3> QED BY <2>1, <3>1, <3>2, ControllerTyped
  <2>5. pc' \in {"readData", "caller"} /\ result' \in Results
    BY <2>1
  <2> QED BY <1>24, <2>3, <2>4, <2>5 DEF ReadBlocks
<1>25. ASSUME pc \in ReadCalls, NextChunk
       PROVE  /\ req' \in [start : 0 .. SizeMod - 1, count : 0 .. SizeMod - 1,
                          todo : 0 .. SizeMod - 1, at : Nat]
              /\ req'.count = req.count
              /\ pc' \in {"read", "caller"} /\ result' \in Results
              /\ pc' = "read" => req'.todo \in 1 .. req'.count
  <2>1. /\ req' = [req EXCEPT !.todo = @ - Chunk, !.at = @ + Chunk]
        /\ pc' \in {"read", "caller"} /\ result' \in Results
        /\ pc' = "read" => req.todo > Chunk
    BY <1>25 DEF NextChunk
  <2>2. Chunk \in Nat \ {0} /\ Chunk <= req.todo
    BY <1>23, <1>25
  <2>3. req.todo - Chunk \in 0 .. SizeMod - 1 /\ req.at + Chunk \in Nat
    BY <2>2, Bounds
  <2>4. req.todo > Chunk => req.todo - Chunk \in 1 .. req.count
    BY <1>25, <2>2
  <2>5. /\ req' \in [start : 0 .. SizeMod - 1, count : 0 .. SizeMod - 1,
                    todo : 0 .. SizeMod - 1, at : Nat]
        /\ req'.count = req.count /\ req'.todo = req.todo - Chunk
    BY <2>1, <2>3
  <2> QED BY <2>1, <2>4, <2>5
<1>26. CASE ReadData
  <2>1. \/ Goto("stop") /\ UNCHANGED <<req, result>>
        \/ NextChunk
        \/ Return("nothing") /\ UNCHANGED req
    BY <1>26 DEF ReadData, FinishData
  <2>2. ctl' \in ControllerType
    BY <1>26, ControllerTyped DEF ReadData
  <2> QED BY <1>25, <1>26, <2>1, <2>2 DEF ReadData
<1>27. CASE Stop
  <2>1. PICK x \in Exchanges(card, StopTransmission, 0, faults, MaxFaults) :
           /\ card' = x.card /\ faults' = x.faults
           /\ \/ NextChunk
              \/ Return("nothing") /\ UNCHANGED req
    BY <1>27 DEF Stop, Send
  <2>2. card' \in CardType /\ faults' \in 0 .. MaxFaults
    BY <2>1, SendTyped
  <2> QED BY <1>25, <1>27, <2>1, <2>2 DEF Stop
<1>28. CASE CardSends
  <2>1. PICK intact \in BOOLEAN :
           /\ ~intact => faults < MaxFaults
           /\ faults' = IF intact THEN faults ELSE faults + 1
           /\ ctl' = Receive(ctl, card, intact)
           /\ buf' = Stored(ctl, card, intact, buf)
    BY <1>28 DEF CardSends
  <2>2. ctl' \in ControllerType
    BY <2>1, ControllerTyped
  <2>3. faults' \in 0 .. MaxFaults
    BY <2>1, Bounds
  <2>4. card' \in CardType
    <3>1. CASE ~card.stream.multi
      BY <1>28, <3>1 DEF CardSends, AfterBlock, CardType, CardStates, Streams
    <3>2. CASE card.stream.multi
      <4> DEFINE s == [card.stream EXCEPT !.block = @ + 1]
      <4>1. card' = [card EXCEPT !.stream = s]
        BY <1>28, <3>2 DEF CardSends, AfterBlock, CardType
      <4>2. card.stream \in [what : Payloads, block : Nat, multi : BOOLEAN]
        BY <1>28 DEF CardSends, CanSend, CardType, Streams
      <4>3. s \in [what : Payloads, block : Nat, multi : BOOLEAN]
        BY <4>2, NextBlock
      <4> HIDE DEF s
      <4> QED BY <4>1, <4>3 DEF CardType, Streams
    <3> QED BY <3>1, <3>2
  <2>5. buf' \in [0 .. req.count - 1 -> Int]
    <3>1. card.stream.block \in Nat
      BY DEF CardType, Streams, NoStream
    <3> QED BY <2>1, <3>1 DEF Stored
  <2> QED BY <1>28, <2>2, <2>3, <2>4, <2>5 DEF CardSends
<1> QED BY <1>2, <1>3, <1>4, <1>5, <1>6, <1>8, <1>9, <1>10, <1>11, <1>12,
           <1>13, <1>14, <1>16, <1>17, <1>18, <1>19, <1>20, <1>21, <1>22,
           <1>24, <1>26, <1>27, <1>28 DEF Next, DriverStep

-----------------------------------------------------------------------------
(* The agreement.                                                          *)

(* Every step keeps what an initialised driver knows of its card.         *)
LEMMA AgreedStep ==
    ASSUME IInv, Next PROVE Agreed'
<1> USE DEF IInv, Typed, TypeOK, Agreed, InitMeansTransfer, InitCalls,
            SelectedCalls, ReadCalls, Goto, Return
<1>1. mmc.rca \in Nat
  BY CardRcaAssumption DEF MmcType
(* Four kinds of steps: before the card is selected, after it, the last    *)
(* step of the initialisation, and those of a read.                        *)
<1>2. ASSUME Sane(card'), pc \in InitCalls,
             ctl'.width = ctl.width, mmc'.width = mmc.width, ~mmc'.hasInit,
             pc' \in (InitCalls \ SelectedCalls) \cup {"caller"}
      PROVE  Agreed'
  BY <1>2
<1>3. ASSUME Sane(card'), pc \in SelectedCalls,
             card'.state \in {"tran", "data"},
             card'.rca = card.rca, card'.width = card.width,
             ctl'.width = ctl.width, mmc'.width = mmc.width,
             mmc'.rca = mmc.rca, ~mmc'.hasInit,
             pc' \in SelectedCalls \cup {"caller"},
             pc' \in {"scrData", "switch", "switchData"} => ~card'.app,
             pc' = "width" => card'.app
      PROVE  Agreed'
  BY <1>3
<1>4. ASSUME NEW c \in ControllerType, NEW m \in MmcType, FinishStartup(c, m),
             Sane(card'), card'.state \in {"tran", "data"},
             card'.rca = m.rca, card'.width = m.width
      PROVE  Agreed'
  <2>1. /\ ctl'.width = m.width /\ ctl'.fast
        /\ mmc'.rca = m.rca /\ mmc'.width = m.width /\ pc' = "caller"
    BY <1>4 DEF FinishStartup, SetClock, SetBusWidth, ControllerType, MmcType
  <2> QED BY <1>4, <2>1
<1>5. ASSUME Sane(card'), pc \in ReadCalls \cup {"caller"},
             card.state \in {"tran", "data"} =>
                 /\ card'.state \in {"tran", "data"}
                 /\ card'.rca = card.rca /\ card'.width = card.width,
             ctl'.width = ctl.width, ctl'.fast = ctl.fast, mmc' = mmc,
             pc' \in ReadCalls \cup {"caller"}
      PROVE  Agreed'
  BY <1>5
<1>6. CASE CallInit
  <2>1. /\ ctl'.width = 1 /\ ~mmc'.hasInit /\ mmc'.width = 1 /\ pc' = "goIdle"
        /\ card' = card
    BY <1>6 DEF CallInit, SetClock, SetBusWidth, ClearDataStatus,
       ControllerType, MmcType
  <2> QED BY <2>1
<1>7. CASE GoIdleState
  <2>1. PICK x \in Exchanges(card, GoIdle, 0, faults, MaxFaults) :
           /\ card' = x.card /\ faults' = x.faults
           /\ Goto("ifCond")
    BY <1>7 DEF GoIdleState, Send
  <2>2. Sane(card')
    BY <1>1, <2>1, SendTyped
  <2>3. /\ mmc'.hasInit = FALSE /\ mmc'.width = mmc.width
        /\ pc' \in {"ifCond"}
    BY <1>7, <2>1 DEF GoIdleState, FailInit, MmcType
  <2> QED BY <1>2, <1>7, <2>2, <2>3 DEF GoIdleState
<1>8. CASE IfCond
  <2>1. PICK x \in Exchanges(card, SendIfCond, 0, faults, MaxFaults) :
           /\ card' = x.card /\ faults' = x.faults
           /\ mmc' = [mmc EXCEPT !.version = IF x.rsp.heard THEN "sd2" ELSE @]
    BY <1>8 DEF IfCond, Send
  <2>2. Sane(card')
    BY <1>1, <2>1, SendTyped
  <2>3. /\ mmc'.hasInit = FALSE /\ mmc'.width = mmc.width
        /\ pc' \in {"opCondApp"}
    BY <1>8, <2>1 DEF IfCond, FailInit, MmcType
  <2> QED BY <1>2, <1>8, <2>2, <2>3 DEF IfCond
<1>9. CASE OpCondApp
  <2>1. PICK x \in Exchanges(card, AppCmd, 0, faults, MaxFaults) :
           /\ card' = x.card /\ faults' = x.faults
           /\ pc' \in {"opCond", "allSendCid"}
    BY <1>9 DEF OpCondApp, Send
  <2>2. Sane(card')
    BY <1>1, <2>1, SendTyped
  <2>3. /\ mmc'.hasInit = FALSE /\ mmc'.width = mmc.width
        /\ pc' \in {"opCond", "allSendCid"}
    BY <1>9, <2>1 DEF OpCondApp, FailInit, MmcType
  <2> QED BY <1>2, <1>9, <2>2, <2>3 DEF OpCondApp
<1>10. CASE OpCond
  <2> DEFINE arg == IF mmc.version = "sd2" THEN 1 ELSE 0
  <2>1. PICK x \in Exchanges(card, AppSendOpCond, arg, faults, MaxFaults) :
           /\ card' = x.card /\ faults' = x.faults
           /\ \/ Goto("opCondApp") /\ UNCHANGED mmc
              \/ /\ mmc' = [mmc EXCEPT
                              !.version = IF @ = "sd2" THEN @ ELSE "sd10",
                              !.hc = x.rsp.ccs, !.rca = 0]
                 /\ Goto("allSendCid")
              \/ Goto("allSendCid") /\ UNCHANGED mmc
    BY <1>10 DEF OpCond, Send
  <2>2. Sane(card')
    BY <2>1, SendTyped
  <2>3. /\ mmc'.hasInit = FALSE /\ mmc'.width = mmc.width
        /\ pc' \in {"opCondApp", "allSendCid"}
    BY <1>10, <2>1 DEF OpCond, MmcType
  <2> QED BY <1>2, <1>10, <2>2, <2>3 DEF OpCond
<1>11. CASE Identify
  <2>1. PICK x \in Exchanges(card, AllSendCid, 0, faults, MaxFaults) :
           /\ card' = x.card /\ faults' = x.faults
           /\ \/ Goto("relAddr") /\ UNCHANGED mmc
              \/ FailInit
    BY <1>11 DEF Identify, Send, Startup
  <2>2. Sane(card')
    BY <1>1, <2>1, SendTyped
  <2>3. /\ mmc'.hasInit = FALSE /\ mmc'.width = mmc.width
        /\ pc' \in {"relAddr", "caller"}
    BY <1>11, <2>1 DEF Identify, Startup, FailInit, MmcType
  <2> QED BY <1>2, <1>11, <2>2, <2>3 DEF Identify, Startup
<1>12. CASE RelAddr
  <2>1. PICK x \in Exchanges(card, SendRelativeAddr, mmc.rca, faults, MaxFaults) :
           /\ card' = x.card /\ faults' = x.faults
           /\ \/ /\ Goto("csd")
                 /\ mmc' = [mmc EXCEPT !.rca = IF SdKnown THEN x.rsp.rca ELSE @]
              \/ FailInit
    BY <1>12 DEF RelAddr, Send
  <2>2. Sane(card')
    BY <1>1, <2>1, SendTyped
  <2>3. /\ mmc'.hasInit = FALSE /\ mmc'.width = mmc.width
        /\ pc' \in {"csd", "caller"}
    BY <1>12, <2>1 DEF RelAddr, FailInit, MmcType
  <2> QED BY <1>2, <1>12, <2>2, <2>3 DEF RelAddr
<1>13. CASE Csd
  <2>1. PICK x \in Exchanges(card, SendCsd, mmc.rca, faults, MaxFaults) :
           /\ card' = x.card /\ faults' = x.faults
           /\ Goto("status")
    BY <1>13 DEF Csd, Send
  <2>2. Sane(card')
    BY <1>1, <2>1, SendTyped
  <2>3. /\ mmc'.hasInit = FALSE /\ mmc'.width = mmc.width
        /\ pc' \in {"status"}
    BY <1>13, <2>1 DEF Csd, FailInit, MmcType
  <2> QED BY <1>2, <1>13, <2>2, <2>3 DEF Csd
<1>14. CASE Status
  <2>1. PICK x \in Exchanges(card, SendStatus, mmc.rca, faults, MaxFaults) :
           /\ card' = x.card /\ faults' = x.faults
           /\ \/ UNCHANGED <<pc, mmc>>
              \/ /\ \E n \in Capacities : mmc' = [mmc EXCEPT !.capacity = n]
                 /\ Goto("select")
              \/ FailInit
    BY <1>14 DEF Status, Send
  <2>2. Sane(card')
    BY <1>1, <2>1, SendTyped
  <2>3. /\ mmc'.hasInit = FALSE /\ mmc'.width = mmc.width
        /\ pc' \in {"status", "select", "caller"}
    BY <1>14, <2>1 DEF Status, FailInit, MmcType
  <2> QED BY <1>2, <1>14, <2>2, <2>3 DEF Status
<1>15. CASE Select
  <2>1. PICK x \in Exchanges(card, SelectCard, mmc.rca, faults, MaxFaults) :
           /\ card' = x.card /\ faults' = x.faults
           /\ \/ x.rsp.heard /\ Goto("scrApp") /\ UNCHANGED mmc
              \/ FailInit
    BY <1>15 DEF Select, Startup, Send
  <2>2. Sane(card')
    BY <1>1, <2>1, SendTyped
  <2>3. CASE FailInit
    BY <1>2, <1>15, <2>2, <2>3 DEF Select, Startup, FailInit, MmcType
  <2>4. CASE x.rsp.heard /\ Goto("scrApp") /\ UNCHANGED mmc
    <3>1. card'.state = "tran" /\ card'.rca = mmc.rca /\ card'.width = 1
      BY <2>1, <2>4, BecomesSelected
    <3> QED BY <1>15, <2>2, <2>4, <3>1 DEF Select, Startup
  <2> QED BY <2>1, <2>3, <2>4
<1>16. CASE ScrApp
  <2>1. PICK x \in Exchanges(card, AppCmd, mmc.rca, faults, MaxFaults) :
           /\ card' = x.card /\ faults' = x.faults
           /\ (Goto("scr") /\ UNCHANGED mmc) \/ FailInit
    BY <1>16 DEF ScrApp, Startup, Send
  <2>2. Sane(card')
    BY <1>1, <2>1, SendTyped
  <2>3. card.state \in {"tran", "data"} /\ card.rca = mmc.rca /\ card.width = 1
    BY <1>16 DEF ScrApp, Startup
  <2>4. /\ card'.state \in {"tran", "data"}
        /\ card'.rca = card.rca /\ card'.width = card.width
    BY <2>1, <2>3, StaysSelected
  <2>5. ~mmc'.hasInit /\ mmc'.width = mmc.width /\ mmc'.rca = mmc.rca
        /\ pc' \in {"scr", "caller"}
    BY <1>16, <2>1 DEF ScrApp, Startup, FailInit, MmcType
  <2> QED BY <1>3, <1>16, <2>2, <2>4, <2>5 DEF ScrApp, Startup
<1>17. \A to \in Nat, what \in Payloads, left \in Nat \ {0} :
          Arm(ctl, what, left, to).width = ctl.width
          /\ Arm(ctl, what, left, to).fast = ctl.fast
  BY ControllerTyped
<1>18. /\ {"scr", "func", "block"} \subseteq Payloads /\ 1 \in Nat \ {0} /\ 0 \in Nat
  BY DEF Payloads
<1>19. CASE Scr
  <2>1. PICK x \in Exchanges(card, AppSendScr, 0, faults, MaxFaults) :
           /\ card' = x.card /\ faults' = x.faults
           /\ ctl' = Arm(ctl, "scr", 1, 0)
           /\ \/ x.rsp.heard /\ Goto("scrData") /\ UNCHANGED mmc
              \/ RetryScr
    BY <1>19 DEF Scr, SendWithData, Send
  <2>2. Sane(card')
    BY <1>1, <2>1, SendTyped
  <2>3. card.state \in {"tran", "data"} /\ card.rca = mmc.rca /\ card.width = 1
    BY <1>19 DEF Scr
  <2>4. /\ card'.state \in {"tran", "data"}
        /\ card'.rca = card.rca /\ card'.width = card.width
        /\ x.rsp.heard => ~card'.app
    BY <2>1, <2>3, StaysSelected
  <2>5. /\ ~mmc'.hasInit /\ mmc'.width = mmc.width /\ mmc'.rca = mmc.rca
        /\ pc' \in {"scrData", "scr", "caller"}
        /\ pc' = "scrData" => x.rsp.heard
    BY <1>19, <2>1 DEF Scr, RetryScr, FailInit, MmcType
  <2>6. ctl'.width = ctl.width
    BY <1>17, <1>18, <2>1
  <2> QED BY <1>3, <1>19, <2>2, <2>4, <2>5, <2>6 DEF Scr
<1>20. CASE ScrData
  <2> DEFINE c == ClearDataStatus(ctl)
             m == [mmc EXCEPT !.version = ScrVersion[card.kind.spec],
                              !.four = card.kind.four]
  <2>1. c \in ControllerType /\ c.width = ctl.width
    BY ControllerTyped DEF ClearDataStatus, ControllerType
  <2>2. m \in MmcType
    <3>1. card.kind.spec \in 0 .. 2 /\ card.kind.four \in BOOLEAN
      BY DEF CardType, Kinds
    <3>2. \A spec \in 0 .. 2 : ScrVersion[spec] \in Versions
      BY DEF ScrVersion, Versions
    <3> QED BY <3>1, <3>2 DEF MmcType
  <2>3. m.hasInit = mmc.hasInit /\ m.width = mmc.width /\ m.rca = mmc.rca
    BY DEF MmcType
  <2>4. /\ card' = card /\ pc = "scrData"
        /\ \/ pc' \in {"switch", "widthApp"} /\ mmc' = m /\ ctl' = c
           \/ FinishStartup(c, m)
           \/ RetryScr /\ ctl' = c
    BY <1>20 DEF ScrData, FinishData
  <2> HIDE DEF c, m
  <2>5. CASE FinishStartup(c, m)
    BY <1>4, <2>1, <2>2, <2>3, <2>4, <2>5
  <2>6. CASE RetryScr /\ ctl' = c
    <3>1. ~mmc'.hasInit /\ mmc'.width = mmc.width /\ mmc'.rca = mmc.rca
          /\ pc' \in {"scr", "caller"}
      BY <2>4, <2>6 DEF RetryScr, FailInit, MmcType
    <3> QED BY <1>3, <2>1, <2>4, <2>6, <3>1
  <2>7. CASE pc' \in {"switch", "widthApp"} /\ mmc' = m /\ ctl' = c
    BY <1>3, <2>1, <2>3, <2>4, <2>7
  <2> QED BY <2>4, <2>5, <2>6, <2>7
<1>21. CASE Switch
  <2>1. PICK x \in Exchanges(card, SwitchFunc, 0, faults, MaxFaults) :
           /\ card' = x.card /\ faults' = x.faults
           /\ ctl' = Arm(ctl, "func", 1, 0)
           /\ \/ x.rsp.heard /\ Goto("switchData") /\ UNCHANGED mmc
              \/ FailInit
    BY <1>21 DEF Switch, SendWithData, Send
  <2>2. Sane(card')
    BY <1>1, <2>1, SendTyped
  <2>3. card.state \in {"tran", "data"} /\ card.rca = mmc.rca /\ card.width = 1
    BY <1>21 DEF Switch
  <2>4. ~card.app
    BY <1>21 DEF Switch
  <2>5. /\ card'.state \in {"tran", "data"}
        /\ card'.rca = card.rca /\ card'.width = card.width
        /\ x.rsp.heard => ~card'.app
    BY <2>1, <2>3, <2>4, StaysSelected
  <2>6. /\ ~mmc'.hasInit /\ mmc'.width = mmc.width /\ mmc'.rca = mmc.rca
        /\ pc' \in {"switchData", "caller"}
        /\ pc' = "switchData" => x.rsp.heard
    BY <1>21, <2>1 DEF Switch, FailInit, MmcType
  <2>7. ctl'.width = ctl.width
    BY <1>17, <1>18, <2>1
  <2> QED BY <1>3, <1>21, <2>2, <2>5, <2>6, <2>7 DEF Switch
<1>22. CASE SwitchData
  <2> DEFINE c == ClearDataStatus(ctl)
  <2>1. c \in ControllerType /\ c.width = ctl.width
    BY ControllerTyped DEF ClearDataStatus, ControllerType
  <2>2. /\ card' = card /\ pc = "switchData"
        /\ \/ pc' \in {"switch", "widthApp"} /\ mmc' = mmc /\ ctl' = c
           \/ FinishStartup(c, mmc)
           \/ FailInit /\ ctl' = c
    BY <1>22 DEF SwitchData, FinishData
  <2> HIDE DEF c
  <2>3. CASE FinishStartup(c, mmc)
    BY <1>4, <2>1, <2>2, <2>3
  <2>4. CASE FailInit /\ ctl' = c
    <3>1. ~mmc'.hasInit /\ mmc'.width = mmc.width /\ mmc'.rca = mmc.rca
          /\ pc' = "caller"
      BY <2>4 DEF FailInit, MmcType
    <3> QED BY <1>3, <2>1, <2>2, <2>4, <3>1
  <2>5. CASE pc' \in {"switch", "widthApp"} /\ mmc' = mmc /\ ctl' = c
    BY <1>3, <2>1, <2>2, <2>5
  <2> QED BY <2>2, <2>3, <2>4, <2>5
<1>23. CASE WidthApp
  <2>1. PICK x \in Exchanges(card, AppCmd, mmc.rca, faults, MaxFaults) :
           /\ card' = x.card /\ faults' = x.faults
           /\ (x.rsp.heard /\ Goto("width") /\ UNCHANGED mmc) \/ FailInit
    BY <1>23 DEF WidthApp, Startup, Send
  <2>2. Sane(card')
    BY <1>1, <2>1, SendTyped
  <2>3. card.state \in {"tran", "data"} /\ card.rca = mmc.rca /\ card.width = 1
    BY <1>23 DEF WidthApp, Startup
  <2>4. /\ card'.state \in {"tran", "data"}
        /\ card'.rca = card.rca /\ card'.width = card.width
        /\ x.rsp.heard => card'.app
    BY <2>1, <2>3, StaysSelected
  <2>5. /\ ~mmc'.hasInit /\ mmc'.width = mmc.width /\ mmc'.rca = mmc.rca
        /\ pc' \in {"width", "caller"}
        /\ pc' = "width" => x.rsp.heard
    BY <1>23, <2>1 DEF WidthApp, Startup, FailInit, MmcType
  <2> QED BY <1>3, <1>23, <2>2, <2>4, <2>5 DEF WidthApp, Startup
<1>24. CASE Width
  <2> DEFINE m == [mmc EXCEPT !.width = 4]
  <2>1. PICK x \in Exchanges(card, AppSetBusWidth, 2, faults, MaxFaults) :
           /\ card' = x.card /\ faults' = x.faults
           /\ \/ x.rsp.heard /\ FinishStartup(ctl, m)
              \/ FailInit /\ UNCHANGED ctl
    BY <1>24 DEF Width, Send
  <2>2. Sane(card')
    BY <2>1, SendTyped
  <2>3. /\ card.state \in {"tran", "data"} /\ card.rca = mmc.rca
        /\ card.app /\ pc = "width"
    BY <1>24 DEF Width
  <2>4. m \in MmcType /\ m.width = 4 /\ m.rca = mmc.rca
    BY DEF MmcType
  <2> HIDE DEF m
  <2>5. CASE x.rsp.heard /\ FinishStartup(ctl, m)
    <3>1. card'.width = 4 /\ card'.rca = card.rca /\ card'.state = card.state
      BY <2>1, <2>3, <2>5, BecomesWide
    <3> QED BY <1>4, <2>2, <2>3, <2>4, <2>5, <3>1
  <2>6. CASE FailInit /\ UNCHANGED ctl
    <3>1. ~mmc'.hasInit /\ pc' = "caller"
      BY <2>6 DEF FailInit, MmcType
    <3> QED BY <2>2, <3>1
  <2> QED BY <2>1, <2>5, <2>6
<1>25. CASE CallRead
  BY <1>5, <1>25 DEF CallRead
<1>26. CASE BlockLength
  <2>1. PICK x \in Exchanges(card, SetBlockLen, BlockLen, faults, MaxFaults) :
           /\ card' = x.card /\ faults' = x.faults
           /\ pc' \in {"read", "caller"}
    BY <1>26 DEF BlockLength, Send
  <2>2. Sane(card')
    BY <2>1, SendTyped, BlockLenAssumption
  <2>3. card.state \in {"tran", "data"} =>
            /\ card'.state \in {"tran", "data"}
            /\ card'.rca = card.rca /\ card'.width = card.width
    BY <2>1, StaysSelected
  <2> QED BY <1>5, <1>26, <2>1, <2>2, <2>3 DEF BlockLength
<1>27. CASE ReadBlocks
  <2> DEFINE cmd == IF Chunk > 1 THEN ReadMultiple ELSE ReadSingle
             arg == IF mmc.hc THEN req.at ELSE (req.at * BlockLen) % SizeMod
  <2>1. PICK x \in Exchanges(card, cmd, arg, faults, MaxFaults) :
           /\ card' = x.card /\ faults' = x.faults
           /\ ctl' = Arm(ctl, "block", Chunk, req.count - req.todo)
           /\ pc' \in {"readData", "caller"}
    BY <1>27 DEF ReadBlocks, SendWithData, Send
  <2>2. arg \in Nat
    <3>1. req.at * BlockLen \in Int
      BY BlockLenAssumption
    <3>2. (req.at * BlockLen) % SizeMod \in 0 .. SizeMod - 1
      BY <3>1, Remainder
    <3> QED BY <3>2
  <2>3. cmd \in {ReadSingle, ReadMultiple}
    OBVIOUS
  <2> HIDE DEF cmd, arg
  <2>4. Sane(card')
    BY <2>1, <2>2, SendTyped
  <2>5. card.state \in {"tran", "data"} =>
            /\ card'.state \in {"tran", "data"}
            /\ card'.rca = card.rca /\ card'.width = card.width
    BY <2>1, <2>3, StaysSelected
  <2>6. ctl'.width = ctl.width /\ ctl'.fast = ctl.fast
    <3>1. req.count - req.todo \in Nat /\ Chunk \in Nat \ {0}
      <4>1. req.todo \in 1 .. req.count /\ req.count \in Nat
        BY <1>27 DEF ReadBlocks
      <4> QED BY <4>1, Bounds DEF Chunk
    <3> QED BY <1>17, <1>18, <2>1, <3>1
  <2> QED BY <1>5, <1>27, <2>1, <2>4, <2>5, <2>6 DEF ReadBlocks
<1>28. CASE ReadData
  <2>1. pc' \in {"stop", "read", "caller"}
    BY <1>28 DEF ReadData, FinishData, NextChunk
  <2>2. ctl'.width = ctl.width /\ ctl'.fast = ctl.fast
    BY <1>28 DEF ReadData, ClearDataStatus, ControllerType
  <2> QED BY <1>5, <1>28, <2>1, <2>2 DEF ReadData
<1>29. CASE Stop
  <2>1. PICK x \in Exchanges(card, StopTransmission, 0, faults, MaxFaults) :
           /\ card' = x.card /\ faults' = x.faults
           /\ pc' \in {"read", "caller"}
    BY <1>29 DEF Stop, Send, NextChunk
  <2>2. Sane(card')
    BY <2>1, SendTyped
  <2>3. card.state \in {"tran", "data"} =>
            /\ card'.state \in {"tran", "data"}
            /\ card'.rca = card.rca /\ card'.width = card.width
    BY <2>1, StaysSelected
  <2> QED BY <1>5, <1>29, <2>1, <2>2, <2>3 DEF Stop
<1>30. CASE CardSends
  <2>1. ctl'.width = ctl.width /\ ctl'.fast = ctl.fast
    BY <1>30, ControllerTyped DEF CardSends
  <2>2. /\ card.state = "data"
        /\ card'.state \in {"tran", "data"} /\ card'.app = card.app
        /\ card'.rca = card.rca /\ card'.width = card.width
        /\ Sane(card')
    BY <1>30 DEF CardSends, CanSend, AfterBlock, CardType, Sane
  <2> QED BY <1>30, <2>1, <2>2 DEF CardSends
<1> QED BY <1>6, <1>7, <1>8, <1>9, <1>10, <1>11, <1>12, <1>13, <1>14, <1>15,
           <1>16, <1>19, <1>20, <1>21, <1>22, <1>23, <1>24, <1>25, <1>26,
           <1>27, <1>28, <1>29, <1>30 DEF Next, DriverStep

-----------------------------------------------------------------------------
(* The inductive invariant, and the properties that follow from it.        *)

(* The invariant holds in every reachable state.                          *)
LEMMA Invariance == Spec => []IInv
<1>1. Init => IInv
  <2>1. ASSUME Init PROVE Typed
    <3>1. card \in CardType
      <4>1. PICK kind \in CardKinds : card = PoweredUp(kind)
        BY <2>1 DEF Init
      <4>2. kind \in Kinds
        BY DriverAssumption
      <4> QED BY <4>1, <4>2 DEF PoweredUp, CardType, CardStates, Streams
    <3>2. ctl \in ControllerType
      BY <2>1 DEF Init, PoweredUpController, ControllerType, Engines, Idle,
         Statuses
    <3>3. mmc \in MmcType
      BY <2>1, Bounds DEF Init, MmcType, Versions
    <3>4. req \in [start : 0 .. SizeMod - 1, count : 0 .. SizeMod - 1,
                  todo : 0 .. SizeMod - 1, at : Nat]
      BY <2>1, Bounds DEF Init
    <3>5. buf \in [0 .. req.count - 1 -> Int]
      BY <2>1 DEF Init
    <3>6. faults \in 0 .. MaxFaults /\ inits \in 0 .. MaxInits
          /\ reads \in 0 .. MaxReads
      BY <2>1, Bounds DEF Init
    <3>7. pc = "caller" /\ result \in Results /\ polls \in Nat /\ retries \in Nat
          /\ csdHeard \in BOOLEAN /\ negotiated \in BOOLEAN /\ suspect \in BOOLEAN
      BY <2>1 DEF Init, Results
    <3> QED BY <3>1, <3>2, <3>3, <3>4, <3>5, <3>6, <3>7
            DEF Typed, TypeOK, ReadCalls
  <2>2. ASSUME Init PROVE Agreed
    BY <2>2 DEF Init, PoweredUp, Agreed, Sane, InitCalls, SelectedCalls,
       InitMeansTransfer
  <2> QED BY <2>1, <2>2 DEF IInv
<1>2. IInv /\ [Next]_vars => IInv'
  <2>1. CASE Next
    BY <2>1, TypedStep, AgreedStep DEF IInv
  <2>2. CASE UNCHANGED vars
    BY <2>2 DEF vars, IInv, Typed, TypeOK, Agreed, InitMeansTransfer
  <2> QED BY <2>1, <2>2
<1> QED BY <1>1, <1>2, PTL DEF Spec

(* Driver, controller and card keep to their types: a transfer is never    *)
(* armed with no blocks, and neither the chunks left of a read nor a loop  *)
(* counter goes below zero (mmc_bread, sd_send_op_cond, mmc_send_status).  *)
THEOREM DriverTyped == Spec => []TypeOK
<1>1. IInv => TypeOK
  BY DEF IInv, Typed
<1> QED BY <1>1, Invariance, PTL

(* After mmc_init has succeeded the card is selected under the address the *)
(* driver uses, and card, controller and driver have the same bus width,   *)
(* for any card, any sizes and any faults (mmc_startup).                   *)
THEOREM InitialisedAgrees == Spec => []InitMeansTransfer
<1>1. IInv => InitMeansTransfer
  BY DEF IInv, Agreed
<1> QED BY <1>1, Invariance, PTL

-----------------------------------------------------------------------------
(* Reading.  Three things have to be followed through the driver: what it  *)
(* knows of the card's capacity (Inside), what the data engine of the      *)
(* controller is doing (Engine), and how the blocks the card sends line up *)
(* with the request (Exact).  Legal follows the card through the states of *)
(* the initialisation and of a read as long as nothing has gone wrong.     *)

DataCalls == {"scrData", "switchData", "readData"}

(* The capacity class is known once the operating conditions are agreed    *)
(* on, the capacity, for a driver that has the class right, once the       *)
(* card-specific data have been read, and a request being read has passed  *)
(* the check.                                                              *)
Inside ==
    /\ negotiated => mmc.hc = card.kind.hc
    /\ mmc.hc = card.kind.hc /\ (mmc.hasInit \/ pc \in {"select"} \cup SelectedCalls) =>
         mmc.capacity = (card.kind.blocks * BlockLen) % SizeMod
    /\ pc \in ReadCalls => mmc.hasInit /\ InBounds(req)

(* While no data command has failed the engine is at work only when the    *)
(* driver awaits data, and either it is, or it has reported.               *)
Engine ==
    ~suspect =>
        IF pc \in DataCalls THEN ctl.engine = Idle <=> ctl.status # "none"
        ELSE ctl.engine = Idle /\ ctl.status = "none"

(* The first n blocks of the buffer are those asked for.                   *)
HasBlocks(b, start, n) == \A i \in 0 .. n - 1 : b[i] = start + i
Filled(n) == HasBlocks(buf, req.start, n)

Got == req.count - req.todo

(* The blocks received fill the buffer up to where the engine writes next, *)
(* which is where the card sends from.                                     *)
Exact ==
    /\ result = "read" => pc = "caller"
    /\ pc \in ReadCalls => req.at = req.start + Got
    /\ negotiated /\ ~suspect /\ ~Wrapped =>
         /\ pc \in {"setBlockLen", "read"} => Filled(Got)
         /\ pc = "stop" => Filled(Got + Chunk)
         /\ pc = "readData" /\ ctl.status = "done" => Filled(Got + Chunk)
         /\ pc = "readData" /\ ctl.engine # Idle =>
              /\ ctl.engine.what = "block"
              /\ ctl.engine.to >= Got
              /\ ctl.engine.to + ctl.engine.left = Got + Chunk
              /\ card.stream = [what |-> "block",
                                block |-> req.start + ctl.engine.to,
                                multi |-> Chunk > 1]
              /\ Filled(ctl.engine.to)
         /\ result = "read" => Filled(req.count)

(* Without faults the card is where the driver expects it.  (A read of     *)
(* blocks the card does not have is acknowledged, and no data follow.)     *)
StreamExpected ==
    /\ card.stream # NoStream =>
         /\ card.stream.multi <=> pc = "readData" /\ Chunk > 1
         /\ ctl.engine # Idle =>
              /\ ctl.engine.what = card.stream.what
              /\ ~card.stream.multi => ctl.engine.left = 1
    /\ ctl.status # "error"
    /\ ctl.status = "done" =>
         card.state = IF pc = "readData" /\ Chunk > 1 THEN "data" ELSE "tran"

Expected ==
    /\ pc = "relAddr" => card.state = "ident"
    /\ pc = "csd" => card.state = "stby" /\ (SdKnown => card.rca = mmc.rca)
    /\ pc \in {"status", "select"} => card.state = "stby" /\ card.rca = mmc.rca
    /\ pc \in {"scrApp", "scr", "switch", "widthApp", "width", "setBlockLen",
               "read"} => card.state = "tran"
    /\ pc = "caller" /\ mmc.hasInit => card.state = "tran"
    /\ pc = "scr" => card.app
    /\ pc = "stop" =>
         card.state = "data" /\ (card.stream # NoStream => card.stream.multi)
    /\ pc \in DataCalls => StreamExpected

Negotiating == {"ifCond", "opCondApp", "opCond"}

(* A card that is not ready when sd_send_op_cond gives up rejects the next *)
(* command, and a driver that does not know the version of the card keeps  *)
(* its old address and is rejected when it asks for the card-specific      *)
(* data.  Both are met only when nothing was agreed on, and end the        *)
(* initialisation, the second after the status has been asked for.         *)

Undisturbed ==
    /\ pc \in Negotiating => card.state = "idle" /\ ~card.rejected /\ card.rca = 0
    /\ pc = "opCond" => card.app
    /\ ~suspect
    /\ negotiated =>
         /\ ~card.rejected /\ SdKnown
         /\ pc = "allSendCid" => card.state = "ready"
    /\ card.rejected =>
         /\ pc \in {"caller", "goIdle", "status"}
         /\ pc = "status" => ~csdHeard
         /\ ~mmc.hasInit
    /\ ~card.rejected => Expected

Legal ==
    /\ pc \in {"goIdle"} \cup Negotiating => ~suspect /\ ~negotiated
    /\ faults = 0 => Undisturbed

-----------------------------------------------------------------------------
(* What a command does to the card.                                        *)

(* All commands of the driver.                                             *)
Commands == {GoIdle, AllSendCid, SendRelativeAddr, SwitchFunc, SelectCard,
             SendIfCond, SendCsd, StopTransmission, SendStatus, SetBlockLen,
             ReadSingle, ReadMultiple, AppSendOpCond, AppSendScr, AppCmd,
             AppSetBusWidth}

(* The card once it has forgotten CMD55.                                   *)
Bare(c) == [c EXCEPT !.app = FALSE]

(* A command that has been accepted and answered.                          *)
Answered(h, c) ==
    h.card.kind = c.kind /\ h.card.rejected = c.rejected /\ h.rsp.heard

(* Forgetting CMD55 leaves the rest of the card as it is.                 *)
LEMMA BareCard ==
  ASSUME NEW c \in CardType
  PROVE /\ Bare(c) \in CardType /\ Bare(c).kind = c.kind /\ Bare(c).state = c.state
        /\ Bare(c).rca = c.rca /\ ~Bare(c).app /\ Bare(c).stream = c.stream
        /\ Bare(c).rejected = c.rejected
BY DEF Bare, CardType

(* The commands that leave the state of the card as it is. *)
LEMMA AnswersKeepState ==
  ASSUME NEW c \in CardType, NEW arg,
         NEW cmd \in {SendIfCond, AppCmd, SendCsd, SendStatus, SetBlockLen},
         NEW h \in Effects(c, cmd, arg)
  PROVE /\ Answered(h, c)
        /\ h.card.state = c.state /\ h.card.rca = c.rca
        /\ h.card.app <=> cmd = AppCmd
<1>1. Bare(c) \in CardType
  BY BareCard
<1>2. CASE cmd = SendIfCond
  <2>1. h = [card |-> [Bare(c) EXCEPT !.ifCond = TRUE], rsp |-> Ack]
    BY <1>2 DEF Effects, Bare
  <2> QED BY <1>1, <1>2, <2>1, BareCard DEF CardType, Ack, Response, Answered
<1>3. CASE cmd = AppCmd
  <2>1. h = [card |-> [Bare(c) EXCEPT !.app = TRUE], rsp |-> Ack]
    BY <1>3 DEF Effects, Bare
  <2> QED BY <1>1, <1>3, <2>1, BareCard DEF CardType, Ack, Response, Answered
<1>4. CASE cmd = SendStatus
  <2>1. \E busy \in BOOLEAN : h = [card |-> Bare(c), rsp |-> Response(busy, FALSE, 0)]
    BY <1>4 DEF Effects, Bare, Response
  <2> QED BY <1>1, <1>4, <2>1, BareCard DEF Response, Answered
<1>5. CASE cmd \in {SendCsd, SetBlockLen}
  <2>1. h = [card |-> Bare(c), rsp |-> Ack]
    <3>1. CASE cmd = SendCsd
      BY <3>1 DEF Effects, Bare
    <3>2. CASE cmd = SetBlockLen
      BY <3>2 DEF Effects, Bare
    <3> QED BY <1>5, <3>1, <3>2
  <2> QED BY <1>1, <1>5, <2>1, BareCard DEF Ack, Response, Answered
<1> QED BY <1>2, <1>3, <1>4, <1>5

(* The commands that move a card on through its initialisation. *)
LEMMA AnswersMoveOn ==
  ASSUME NEW c \in CardType, NEW arg
  PROVE /\ \A h \in Effects(c, AllSendCid, arg) : 
             /\ Answered(h, c)
             /\ h.card.state = "ident"
        /\ \A h \in Effects(c, SendRelativeAddr, arg) : 
             /\ Answered(h, c)
             /\ h.card.state = "stby" /\ h.card.rca = h.rsp.rca
        /\ \A h \in Effects(c, SelectCard, arg) : 
             /\ Answered(h, c)
             /\ h.card.state = "tran" /\ h.card.rca = c.rca
        /\ \A h \in Effects(c, StopTransmission, arg) : 
             /\ Answered(h, c)
             /\ h.card.state = "tran"
<1>1. Bare(c) \in CardType
  BY BareCard
<1>2. ASSUME NEW h \in Effects(c, AllSendCid, arg)
      PROVE  /\ Answered(h, c)
             /\ h.card.state = "ident"
  <2>1. h = [card |-> [Bare(c) EXCEPT !.state = "ident"], rsp |-> Ack]
    BY DEF Effects, Bare
  <2> QED BY <1>1, <2>1, BareCard DEF CardType, Ack, Response, Answered
<1>3. ASSUME NEW h \in Effects(c, SendRelativeAddr, arg)
      PROVE  /\ Answered(h, c)
             /\ h.card.state = "stby" /\ h.card.rca = h.rsp.rca
  <2>1. h = [card |-> [Bare(c) EXCEPT !.state = "stby", !.rca = CardRca],
             rsp |-> Response(FALSE, FALSE, CardRca)]
    BY DEF Effects, Bare, Response
  <2> QED BY <1>1, <2>1, BareCard DEF CardType, Response, Answered
<1>4. ASSUME NEW h \in Effects(c, SelectCard, arg)
      PROVE  /\ Answered(h, c)
             /\ h.card.state = "tran" /\ h.card.rca = c.rca
  <2>1. h = [card |-> [Bare(c) EXCEPT !.state = "tran"], rsp |-> Ack]
    BY DEF Effects, Bare
  <2> QED BY <1>1, <2>1, BareCard DEF CardType, Ack, Response, Answered
<1>5. ASSUME NEW h \in Effects(c, StopTransmission, arg)
      PROVE  /\ Answered(h, c)
             /\ h.card.state = "tran"
  <2>1. h = [card |-> [Bare(c) EXCEPT !.state = "tran", !.stream = NoStream], rsp |-> Ack]
    BY DEF Effects, Bare
  <2> QED BY <1>1, <2>1, BareCard DEF CardType, Ack, Response, Answered
<1> QED BY <1>2, <1>3, <1>4, <1>5

(* ACMD41: the card says busy and stays, or is ready and tells its class. *)
LEMMA AnswersOpCond ==
  ASSUME NEW c \in CardType, NEW arg, NEW h \in Effects(c, AppSendOpCond, arg)
  PROVE  /\ Answered(h, c)
         /\ h.card.rca = c.rca
         /\ h.rsp.busy => h.card.state = c.state
         /\ ~h.rsp.busy => h.card.state = "ready" /\ h.rsp.ccs = c.kind.hc
<1> DEFINE ready == [Bare(c) EXCEPT !.state = "ready"]
           answer(busy, ccs) == [heard |-> TRUE, busy |-> busy,
                                 ccs |-> ccs, rca |-> 0]
           waiting == answer(TRUE, FALSE)
           agreed == answer(FALSE, c.kind.hc)
<1>1. \/ h = [card |-> Bare(c), rsp |-> waiting]
      \/ h = [card |-> ready, rsp |-> agreed]
  BY DEF Effects, Response, CardType, Bare
<1>2. CASE h = [card |-> Bare(c), rsp |-> waiting]
  BY <1>2, BareCard DEF Answered
<1>3. CASE h = [card |-> ready, rsp |-> agreed]
  <2>1. h.card = ready /\ h.rsp.heard /\ ~h.rsp.busy /\ h.rsp.ccs = c.kind.hc
    BY <1>3
  <2>2. /\ ready.kind = c.kind /\ ready.rejected = c.rejected /\ ready.rca = c.rca
        /\ ready.state = "ready"
    BY BareCard DEF CardType
  <2> HIDE DEF ready
  <2> QED BY <2>1, <2>2 DEF Answered
<1> QED BY <1>1, <1>2, <1>3

(* What a card sends.                                                      *)
Streaming(what, block, multi) ==
    [what |-> what, block |-> block, multi |-> multi]

OnePayload(what) == [what |-> what, block |-> 0, multi |-> FALSE]

(* A command with data makes the card send.                               *)
LEMMA AnswersSending ==
  ASSUME NEW c \in CardType, NEW what, NEW block, NEW multi, NEW h,
         h = [card |-> Sending(Bare(c), what, block, multi), rsp |-> Ack]
  PROVE /\ Answered(h, c)
        /\ h.card.state = "data" /\ h.card.rca = c.rca
        /\ h.card.stream = Streaming(what, block, multi)
BY BareCard DEF CardType, Ack, Response, Answered, Streaming, Sending

(* ACMD51 makes the card send its configuration register.                 *)
LEMMA AnswersScr ==
  ASSUME NEW c \in CardType, NEW arg, NEW h \in Effects(c, AppSendScr, arg)
  PROVE  /\ Answered(h, c)
         /\ h.card.state = "data" /\ h.card.rca = c.rca
         /\ h.card.stream = OnePayload("scr")
<1>1. h = [card |-> Sending(Bare(c), "scr", 0, FALSE), rsp |-> Ack]
  BY DEF Effects, Bare, Sending
<1> QED BY <1>1, BareCard
        DEF CardType, Ack, Response, Answered, OnePayload, Sending

(* CMD6 makes the card send the status of the switch.                     *)
LEMMA AnswersSwitch ==
  ASSUME NEW c \in CardType, ~c.app, NEW arg, NEW h \in Effects(c, SwitchFunc, arg)
  PROVE  /\ Answered(h, c)
         /\ h.card.state = "data" /\ h.card.rca = c.rca
         /\ h.card.stream = OnePayload("func")
<1>1. h = [card |-> Sending(Bare(c), "func", 0, FALSE), rsp |-> Ack]
  BY DEF Effects, Bare, Sending
<1> QED BY <1>1, BareCard
        DEF CardType, Ack, Response, Answered, OnePayload, Sending

(* ACMD6 leaves the state of the card.                                    *)
LEMMA AnswersWidth ==
  ASSUME NEW c \in CardType, c.app, NEW arg,
         NEW h \in Effects(c, AppSetBusWidth, arg)
  PROVE  /\ Answered(h, c)
         /\ h.card.state = c.state /\ h.card.rca = c.rca
<1>1. h = [card |-> [Bare(c) EXCEPT !.width = 4], rsp |-> Ack]
  BY DEF Effects, Bare
<1> QED BY <1>1, BareCard DEF CardType, Ack, Response, Answered

(* CMD17 and CMD18 make the card send, from a block that it has.          *)
LEMMA AnswersRead ==
  ASSUME NEW c \in CardType, NEW arg, NEW cmd \in {ReadSingle, ReadMultiple},
         NEW h \in Effects(c, cmd, arg)
  PROVE  /\ Answered(h, c) /\ h.card.rca = c.rca
         /\ IF Addressed(c, arg) < c.kind.blocks
            THEN /\ h.card.state = "data"
                 /\ h.card.stream = Streaming("block", Addressed(c, arg),
                                              cmd = ReadMultiple)
            ELSE h.card.state = c.state /\ h.card.stream = c.stream
<1>1. h = [card |-> Read(Bare(c), arg, cmd = ReadMultiple), rsp |-> Ack]
  BY DEF Effects, Bare
<1>2. Addressed(Bare(c), arg) = Addressed(c, arg)
  BY BareCard DEF Addressed
<1>3. CASE Addressed(c, arg) < c.kind.blocks
  <2>1. h = [card |-> Sending(Bare(c), "block", Addressed(c, arg),
                              cmd = ReadMultiple), rsp |-> Ack]
    BY <1>1, <1>2, <1>3, BareCard DEF Read
  <2> QED BY <1>3, <2>1, AnswersSending
<1>4. CASE ~(Addressed(c, arg) < c.kind.blocks)
  <2>1. h = [card |-> Bare(c), rsp |-> Ack]
    BY <1>1, <1>2, <1>4, BareCard DEF Read
  <2> QED BY <1>4, <2>1, BareCard DEF Ack, Response, Answered
<1> QED BY <1>3, <1>4

(* Whatever becomes of a command, the card stays the card it is.           *)
LEMMA KindKept ==
    ASSUME card \in CardType, NEW cmd \in Commands, NEW arg,
           NEW x \in Exchanges(card, cmd, arg, faults, MaxFaults)
    PROVE  x.card.kind = card.kind
<1>1. ASSUME NEW h \in Handle(card, cmd, arg)
      PROVE  h.card.kind = card.kind
  <2>1. CASE cmd = GoIdle
    BY <2>1 DEF Handle, Reset, PoweredUp
  <2>2. CASE cmd # GoIdle /\ Accepts(card, cmd, arg)
    <3>1. h \in Effects(card, cmd, arg)
      BY <2>2 DEF Handle
    <3>2. CASE cmd \in {SendIfCond, AppCmd, SendCsd, SendStatus, SetBlockLen}
      BY <3>1, <3>2, AnswersKeepState DEF Answered
    <3>3. CASE cmd \in {AllSendCid, SendRelativeAddr, SelectCard, StopTransmission}
      BY <3>1, <3>3, AnswersMoveOn DEF Answered
    <3>4. CASE cmd = AppSendOpCond
      BY <3>1, <3>4, AnswersOpCond DEF Answered
    <3>5. CASE cmd \in {ReadSingle, ReadMultiple}
      <4>1. Answered(h, card)
        BY <3>1, <3>5, AnswersRead
      <4> QED BY <4>1 DEF Answered
    <3>6. CASE cmd = AppSendScr
      <4>1. Answered(h, card)
        BY <3>1, <3>6, AnswersScr
      <4> QED BY <4>1 DEF Answered
    <3>7. CASE cmd = SwitchFunc
      <4>1. Answered(h, card)
        BY <3>1, <3>7, AnswersSwitch, AnswersWidth
      <4> QED BY <4>1 DEF Answered
    <3> QED BY <2>2, <3>2, <3>3, <3>4, <3>5, <3>6, <3>7 DEF Commands
  <2>3. CASE cmd # GoIdle /\ ~Accepts(card, cmd, arg)
    <3>1. h = [card |-> [card EXCEPT !.app = FALSE,
                                     !.rejected = @ \/ cmd # SendIfCond],
               rsp |-> NoResponse]
      BY <2>3 DEF Handle
    <3> QED BY <3>1 DEF CardType
  <2> QED BY <2>1, <2>2, <2>3
<1> QED BY <1>1, ExchangeForm

(* Without faults a command the card accepts is answered, and one it does  *)
(* not accept reaches the card as well.                                    *)
LEMMA Delivered ==
    ASSUME faults \in 0 .. MaxFaults, NEW cmd, NEW arg,
           NEW x \in Exchanges(card, cmd, arg, faults, MaxFaults), x.faults = 0
    PROVE  /\ faults = 0
           /\ \E h \in Handle(card, cmd, arg) : x.card = h.card /\ x.rsp = h.rsp
           /\ cmd # GoIdle /\ Accepts(card, cmd, arg) =>
                \E h \in Effects(card, cmd, arg) : x.card = h.card /\ x.rsp = h.rsp
<1>1. MaxFaults \in Nat
  BY Bounds
<1>2. /\ faults = 0
      /\ \E h \in Handle(card, cmd, arg) : x.card = h.card /\ x.rsp = h.rsp
  BY <1>1 DEF Exchanges
<1>3. cmd # GoIdle /\ Accepts(card, cmd, arg) =>
          Handle(card, cmd, arg) = Effects(card, cmd, arg)
  BY DEF Handle
<1> QED BY <1>2, <1>3

-----------------------------------------------------------------------------
(* Blocks and bytes.                                                       *)

(* A remainder is no larger than what it is taken of.                      *)
LEMMA RemainderSmaller ==
    ASSUME NEW n \in Nat
    PROVE  n % SizeMod \in 0 .. SizeMod - 1 /\ n % SizeMod <= n
BY Bounds

(* A number that size_t holds is kept.                                    *)
LEMMA RemainderIdentity ==
    ASSUME NEW n \in 0 .. SizeMod - 1
    PROVE  n % SizeMod = n
BY Bounds

(* The blocks in a number of bytes are counted rightly.                    *)
LEMMA WholeBlocks ==
    ASSUME NEW n \in Nat, NEW bytes \in Nat, bytes <= n * BlockLen
    PROVE  bytes \div BlockLen <= n
BY BlockLenAssumption

(* So many whole blocks fit into so many bytes.                           *)
LEMMA BlockBytes ==
    ASSUME NEW k \in Nat, NEW bytes \in Nat, k <= bytes \div BlockLen
    PROVE  k * BlockLen \in Nat /\ k * BlockLen <= bytes
BY BlockLenAssumption

(* The block at the address of a block in bytes.                          *)
LEMMA BlockOfBytes ==
    ASSUME NEW k \in Nat
    PROVE  (k * BlockLen) \div BlockLen = k
BY BlockLenAssumption

-----------------------------------------------------------------------------
(* The reads stay inside the card.                                         *)

(* A step that sends a command and learns from the answer only.            *)
Sends(cmd, arg) ==
    \E x \in Exchanges(card, cmd, arg, faults, MaxFaults) : card' = x.card

(* Nobody changes the card in the slot.                                    *)
LEMMA SameCard ==
    ASSUME IInv, Next PROVE card'.kind = card.kind
<1>1. ASSUME NEW cmd \in Commands, NEW arg, Sends(cmd, arg)
      PROVE  card'.kind = card.kind
  BY <1>1, KindKept DEF Sends, IInv, Typed, TypeOK
<1>2. CASE GoIdleState
  <2>1. Sends(GoIdle, 0)
    BY <1>2 DEF GoIdleState, Send, Sends
  <2>2. GoIdle \in Commands
    BY DEF Commands
  <2> QED BY <1>1, <2>1, <2>2
<1>3. CASE IfCond
  <2>1. Sends(SendIfCond, 0)
    BY <1>3 DEF IfCond, Send, Sends
  <2>2. SendIfCond \in Commands
    BY DEF Commands
  <2> QED BY <1>1, <2>1, <2>2
<1>4. CASE OpCondApp
  <2>1. Sends(AppCmd, 0)
    BY <1>4 DEF OpCondApp, Send, Sends
  <2>2. AppCmd \in Commands
    BY DEF Commands
  <2> QED BY <1>1, <2>1, <2>2
<1>5. CASE OpCond
  <2> DEFINE cmd == AppSendOpCond
             arg == IF mmc.version = "sd2" THEN 1 ELSE 0
  <2>1. Sends(cmd, arg)
    BY <1>5 DEF OpCond, Send, Sends
  <2>2. cmd \in Commands
    BY DEF Commands
  <2> HIDE DEF cmd, arg
  <2> QED BY <1>1, <2>1, <2>2
<1>6. CASE Identify
  <2>1. Sends(AllSendCid, 0)
    BY <1>6 DEF Identify, Startup, Send, Sends
  <2>2. AllSendCid \in Commands
    BY DEF Commands
  <2> QED BY <1>1, <2>1, <2>2
<1>7. CASE RelAddr
  <2>1. Sends(SendRelativeAddr, mmc.rca)
    BY <1>7 DEF RelAddr, Send, Sends
  <2>2. SendRelativeAddr \in Commands
    BY DEF Commands
  <2> QED BY <1>1, <2>1, <2>2
<1>8. CASE Csd
  <2>1. Sends(SendCsd, mmc.rca)
    BY <1>8 DEF Csd, Send, Sends
  <2>2. SendCsd \in Commands
    BY DEF Commands
  <2> QED BY <1>1, <2>1, <2>2
<1>9. CASE Status
  <2>1. Sends(SendStatus, mmc.rca)
    BY <1>9 DEF Status, Send, Sends
  <2>2. SendStatus \in Commands
    BY DEF Commands
  <2> QED BY <1>1, <2>1, <2>2
<1>10. CASE Select
  <2>1. Sends(SelectCard, mmc.rca)
    BY <1>10 DEF Select, Startup, Send, Sends
  <2>2. SelectCard \in Commands
    BY DEF Commands
  <2> QED BY <1>1, <2>1, <2>2
<1>11. CASE ScrApp
  <2>1. Sends(AppCmd, mmc.rca)
    BY <1>11 DEF ScrApp, Startup, Send, Sends
  <2>2. AppCmd \in Commands
    BY DEF Commands
  <2> QED BY <1>1, <2>1, <2>2
<1>12. CASE Scr
  <2>1. Sends(AppSendScr, 0)
    BY <1>12 DEF Scr, SendWithData, Send, Sends
  <2>2. AppSendScr \in Commands
    BY DEF Commands
  <2> QED BY <1>1, <2>1, <2>2
<1>13. CASE Switch
  <2>1. Sends(SwitchFunc, 0)
    BY <1>13 DEF Switch, SendWithData, Send, Sends
  <2>2. SwitchFunc \in Commands
    BY DEF Commands
  <2> QED BY <1>1, <2>1, <2>2
<1>14. CASE WidthApp
  <2>1. Sends(AppCmd, mmc.rca)
    BY <1>14 DEF WidthApp, Startup, Send, Sends
  <2>2. AppCmd \in Commands
    BY DEF Commands
  <2> QED BY <1>1, <2>1, <2>2
<1>15. CASE Width
  <2>1. Sends(AppSetBusWidth, 2)
    BY <1>15 DEF Width, Send, Sends
  <2>2. AppSetBusWidth \in Commands
    BY DEF Commands
  <2> QED BY <1>1, <2>1, <2>2
<1>16. CASE BlockLength
  <2>1. Sends(SetBlockLen, BlockLen)
    BY <1>16 DEF BlockLength, Send, Sends
  <2>2. SetBlockLen \in Commands
    BY DEF Commands
  <2> QED BY <1>1, <2>1, <2>2
<1>17. CASE ReadBlocks
  <2> DEFINE cmd == IF Chunk > 1 THEN ReadMultiple ELSE ReadSingle
             arg == IF mmc.hc THEN req.at ELSE (req.at * BlockLen) % SizeMod
  <2>1. Sends(cmd, arg)
    BY <1>17 DEF ReadBlocks, SendWithData, Send, Sends
  <2>2. cmd \in Commands
    BY DEF Commands
  <2> HIDE DEF cmd, arg
  <2> QED BY <1>1, <2>1, <2>2
<1>18. CASE Stop
  <2>1. Sends(StopTransmission, 0)
    BY <1>18 DEF Stop, Send, Sends
  <2>2. StopTransmission \in Commands
    BY DEF Commands
  <2> QED BY <1>1, <2>1, <2>2
<1>19. CASE CardSends
  BY <1>19 DEF CardSends, AfterBlock, IInv, Typed, TypeOK, CardType
<1>20. CASE CallInit \/ CallRead \/ ScrData \/ SwitchData \/ ReadData
  BY <1>20 DEF CallInit, CallRead, ScrData, SwitchData, ReadData
<1> QED BY <1>2, <1>3, <1>4, <1>5, <1>6, <1>7, <1>8, <1>9, <1>10, <1>11,
           <1>12, <1>13, <1>14, <1>15, <1>16, <1>17, <1>18, <1>19, <1>20 DEF
           Next, DriverStep

(* Where the driver uses the card, or soon will.                           *)
KnownCalls == {"select"} \cup SelectedCalls

(* What is known of the card's class and size, and that the request       *)
(* fits, outlasts every step that neither learns anything new nor goes on *)
(* to the calls that need it.                                             *)
LEMMA InsideKept ==
    ASSUME Inside, card'.kind = card.kind,
           UNCHANGED negotiated, mmc'.hc = mmc.hc, mmc'.capacity = mmc.capacity,
           mmc'.hasInit \/ pc' \in KnownCalls =>
               mmc.hasInit \/ pc \in KnownCalls,
           pc' \in ReadCalls =>
               /\ pc \in ReadCalls /\ mmc'.hasInit = mmc.hasInit
               /\ req'.start = req.start /\ req'.count = req.count
    PROVE  Inside'
BY DEF Inside, KnownCalls, InBounds

(* Every step keeps it.                                                   *)
LEMMA InsideStep ==
    ASSUME IInv, Inside, Next PROVE Inside'
<1> USE DEF Goto, Return, InitCalls, SelectedCalls, ReadCalls, KnownCalls
<1>1. card'.kind = card.kind
  BY SameCard
<1>2. mmc \in MmcType /\ card \in CardType /\ req.count \in Nat /\ req.start \in Nat
      /\ (pc \in InitCalls => ~mmc.hasInit)
  BY DEF IInv, Typed, TypeOK, Agreed
<1>3. FailInit => /\ mmc'.hc = mmc.hc /\ mmc'.capacity = mmc.capacity
                  /\ ~mmc'.hasInit /\ pc' = "caller"
  BY <1>2 DEF FailInit, MmcType
<1>4. CASE CallInit
  BY <1>1, <1>2, <1>4 DEF CallInit, Inside, MmcType
<1>5. CASE GoIdleState
  <2>1. pc' = "ifCond"
    BY <1>5 DEF GoIdleState, Send
  <2> QED BY <1>1, <1>5, <2>1, InsideKept DEF GoIdleState
<1>6. CASE IfCond
  <2>1. mmc'.hc = mmc.hc /\ mmc'.capacity = mmc.capacity /\ mmc'.hasInit = mmc.hasInit
    BY <1>2, <1>6 DEF IfCond, Send, MmcType
  <2> QED BY <1>1, <1>6, <2>1, InsideKept DEF IfCond
<1>7. CASE OpCondApp
  <2>1. pc' \in {"opCond", "allSendCid"}
    BY <1>7 DEF OpCondApp, Send
  <2> QED BY <1>1, <1>7, <2>1, InsideKept DEF OpCondApp
<1>8. CASE OpCond
  <2> DEFINE arg == IF mmc.version = "sd2" THEN 1 ELSE 0
  <2>1. PICK x \in Exchanges(card, AppSendOpCond, arg, faults, MaxFaults) :
           /\ card' = x.card
           /\ \/ /\ x.rsp.heard /\ ~x.rsp.busy
                 /\ mmc' = [mmc EXCEPT
                              !.version = IF @ = "sd2" THEN @ ELSE "sd10",
                              !.hc = x.rsp.ccs, !.rca = 0]
                 /\ pc' = "allSendCid"
              \/ pc' \in {"opCondApp", "allSendCid"} /\ UNCHANGED <<mmc, negotiated>>
    BY <1>8 DEF OpCond, Send
  <2> HIDE DEF arg
  <2>2. CASE pc' \in {"opCondApp", "allSendCid"} /\ UNCHANGED <<mmc, negotiated>>
    BY <1>1, <1>8, <2>2, InsideKept DEF OpCond
  <2>3. CASE /\ x.rsp.heard /\ ~x.rsp.busy
             /\ mmc' = [mmc EXCEPT
                          !.version = IF @ = "sd2" THEN @ ELSE "sd10",
                          !.hc = x.rsp.ccs, !.rca = 0]
             /\ pc' = "allSendCid"
    <3>1. x.rsp.ccs = card.kind.hc
      BY <1>2, <2>1, <2>3, ExchangeForm, AnswersOpCond
    <3>2. mmc'.hc = card'.kind.hc /\ ~mmc'.hasInit
      BY <1>1, <1>2, <1>8, <2>3, <3>1 DEF MmcType, OpCond
    <3> QED BY <2>3, <3>2 DEF Inside
  <2> QED BY <2>1, <2>2, <2>3
<1>9. ASSUME NEW call, NEW cmd, NEW arg, NEW next, Startup(call, cmd, arg, next),
             next \notin ReadCalls,
             next \in KnownCalls => call \in KnownCalls
      PROVE  Inside'
  <2>1. /\ pc = call /\ UNCHANGED <<req, negotiated>>
        /\ \/ pc' = next /\ UNCHANGED <<mmc, result>>
           \/ FailInit
    BY <1>9 DEF Startup, Send
  <2>2. CASE FailInit
    BY <1>1, <1>3, <2>1, <2>2, InsideKept
  <2>3. CASE pc' = next /\ UNCHANGED mmc
    BY <1>1, <1>9, <2>1, <2>3, InsideKept
  <2> QED BY <2>1, <2>2, <2>3
<1>10. CASE Identify
  BY <1>9, <1>10 DEF Identify
<1>11. CASE Select
  BY <1>9, <1>11 DEF Select
<1>12. CASE ScrApp
  BY <1>9, <1>12 DEF ScrApp
<1>13. CASE WidthApp
  BY <1>9, <1>13 DEF WidthApp
<1>14. CASE RelAddr
  <2>1. \/ /\ pc' = "csd" /\ ~mmc'.hasInit
           /\ mmc'.hc = mmc.hc /\ mmc'.capacity = mmc.capacity
        \/ FailInit
    BY <1>2, <1>14 DEF RelAddr, Send, MmcType
  <2> QED BY <1>1, <1>3, <1>14, <2>1, InsideKept DEF RelAddr
<1>15. CASE Csd
  BY <1>1, <1>15, InsideKept DEF Csd
<1>16. CASE Status
  <2>1. /\ pc = "status" /\ UNCHANGED <<req, negotiated>>
        /\ \/ UNCHANGED <<pc, mmc>>
           \/ /\ \E n \in Capacities : mmc' = [mmc EXCEPT !.capacity = n]
              /\ pc' = "select"
           \/ FailInit
    BY <1>16 DEF Status, Send
  <2>2. CASE UNCHANGED <<pc, mmc>>
    BY <1>1, <2>1, <2>2, InsideKept
  <2>3. CASE FailInit
    BY <1>1, <1>3, <2>1, <2>3, InsideKept
  <2>4. CASE /\ \E n \in Capacities : mmc' = [mmc EXCEPT !.capacity = n]
             /\ pc' = "select"
    <3>1. PICK n \in Capacities : mmc' = [mmc EXCEPT !.capacity = n]
      BY <2>4
    <3>2. mmc'.hc = mmc.hc /\ mmc'.capacity = n
      BY <1>2, <3>1 DEF MmcType
    <3>3. mmc.hc = card.kind.hc => n = (card.kind.blocks * BlockLen) % SizeMod
      BY DEF Capacities
    <3> QED BY <1>1, <2>1, <2>4, <3>2, <3>3 DEF Inside
  <2> QED BY <2>1, <2>2, <2>3, <2>4
<1>17. CASE Scr \/ ScrData \/ Switch \/ SwitchData \/ Width
  <2>1. pc \in KnownCalls /\ UNCHANGED <<req, negotiated>>
    BY <1>17 DEF Scr, ScrData, Switch, SwitchData, Width
  <2>2. pc' \in KnownCalls \cup {"caller"}
    BY <1>17 DEF Scr, ScrData, Switch, SwitchData, Width, SendWithData, Send,
       FinishData, FinishStartup, FailInit, RetryScr
  <2>3. mmc'.hc = mmc.hc /\ mmc'.capacity = mmc.capacity
    BY <1>2, <1>17 DEF Scr, ScrData, Switch, SwitchData, Width, SendWithData,
       Send, FinishData, FinishStartup, FailInit, RetryScr, MmcType
  <2> QED BY <1>1, <2>1, <2>2, <2>3, InsideKept
<1>18. CASE CallRead
  <2>1. PICK r \in Requests :
           /\ req' = [start |-> r.start, count |-> r.count, todo |-> r.count,
                      at |-> r.start]
           /\ (pc' = "setBlockLen" /\ InBounds(r)) \/ pc' = "caller"
    BY <1>18 DEF CallRead
  <2>2. mmc.hasInit /\ UNCHANGED <<mmc, negotiated, card>>
    BY <1>18 DEF CallRead
  <2>3. r.start \in Nat /\ r.count \in Nat
    BY DriverAssumption, Bounds
  <2>4. req'.start = r.start /\ req'.count = r.count
    BY <2>1
  <2>5. pc' \in {"setBlockLen", "caller"} /\ (pc' = "setBlockLen" => InBounds(r))
    BY <2>1
  <2>6. InBounds(r) => InBounds(req)'
    BY <2>2, <2>4 DEF InBounds
  <2> QED BY <2>2, <2>5, <2>6 DEF Inside
<1>19. CASE BlockLength \/ ReadBlocks \/ ReadData \/ Stop
  <2>1. pc \in ReadCalls /\ UNCHANGED <<mmc, negotiated>>
    BY <1>19 DEF BlockLength, ReadBlocks, ReadData, Stop
  <2>2. req'.start = req.start /\ req'.count = req.count
    BY <1>19 DEF BlockLength, ReadBlocks, ReadData, Stop, Send, FinishData,
       NextChunk, IInv, Typed, TypeOK
  <2>3. pc' \in ReadCalls \cup {"caller"}
    BY <1>19 DEF BlockLength, ReadBlocks, ReadData, Stop, Send, SendWithData,
       FinishData, NextChunk
  <2> QED BY <1>1, <2>1, <2>2, <2>3, InsideKept
<1>20. CASE CardSends
  BY <1>1, <1>20, InsideKept DEF CardSends
<1> QED BY <1>4, <1>5, <1>6, <1>7, <1>8, <1>10, <1>11, <1>12, <1>13, <1>14,
           <1>15, <1>16, <1>17, <1>18, <1>19, <1>20 DEF Next, DriverStep

(* What the check of a read call means for the card.                       *)
LEMMA RequestInside ==
    ASSUME IInv, Inside, pc \in ReadCalls, mmc.hc = card.kind.hc
    PROVE  /\ mmc.capacity \in 0 .. SizeMod - 1
           /\ (req.start + req.count) % SizeMod <= mmc.capacity \div BlockLen
           /\ mmc.capacity \div BlockLen <= card.kind.blocks
           /\ ~Wrapped => req.start + req.count <= mmc.capacity \div BlockLen
<1>1. /\ mmc \in MmcType /\ card.kind.blocks \in Nat
      /\ req.start \in Nat /\ req.count \in Nat
  BY DEF IInv, Typed, TypeOK, CardType, Kinds
<1>2. /\ mmc.capacity = (card.kind.blocks * BlockLen) % SizeMod
      /\ (req.start + req.count) % SizeMod <= mmc.capacity \div BlockLen
  BY DEF Inside, InBounds
<1>3. card.kind.blocks * BlockLen \in Nat
  BY <1>1, BlockLenAssumption
<1>4. mmc.capacity \in 0 .. SizeMod - 1
      /\ mmc.capacity <= card.kind.blocks * BlockLen
  BY <1>2, <1>3, RemainderSmaller
<1>5. mmc.capacity \in Nat
  BY <1>4, Bounds
<1>6. ~Wrapped => req.start + req.count <= mmc.capacity \div BlockLen
  <2> SUFFICES ASSUME ~Wrapped
               PROVE  req.start + req.count <= mmc.capacity \div BlockLen
    OBVIOUS
  <2>1. req.start + req.count \in 0 .. SizeMod - 1
    BY <1>1, Bounds DEF Wrapped
  <2> QED BY <1>2, <2>1, RemainderIdentity
<1> QED BY <1>1, <1>2, <1>4, <1>5, <1>6, WholeBlocks

(* It holds in every reachable state.                                     *)
LEMMA InsideInvariance == Spec => [](IInv /\ Inside)
<1>1. Init => Inside
  <2>1. Init => pc = "caller" /\ ~mmc.hasInit /\ ~negotiated
    BY DEF Init
  <2> QED BY <2>1 DEF Inside, SelectedCalls, ReadCalls
<1>2. Inside /\ IInv /\ [Next]_vars => Inside'
  <2>1. CASE UNCHANGED vars
    BY <2>1 DEF vars, Inside, InBounds, SelectedCalls, ReadCalls
  <2> QED BY <2>1, InsideStep
<1> QED BY <1>1, <1>2, Invariance, PTL DEF Spec

(* A request sent to the card has blocks beyond its end only if the sum of *)
(* start and count wraps, and then the wrapped end is a place on the card: *)
(* for every size of the card, also one that wraps itself, every request   *)
(* and every range of size_t, with a driver that has the class of the card *)
(* right.                                                                  *)
THEOREM ReadsStayInside == Spec => []ReadsInside
<1>1. IInv /\ Inside => ReadsInside
  <2> SUFFICES ASSUME IInv, Inside, pc = "read", mmc.hc = card.kind.hc
               PROVE  \/ req.start + req.count <= card.kind.blocks
                      \/ /\ Wrapped
                         /\ (req.start + req.count) % SizeMod <= card.kind.blocks
    BY DEF ReadsInside
  <2>1. req.start \in Nat /\ req.count \in Nat /\ card.kind.blocks \in Nat
    BY Bounds DEF IInv, Typed, TypeOK, CardType, Kinds
  <2>2. /\ mmc.capacity \in Nat
        /\ (req.start + req.count) % SizeMod <= mmc.capacity \div BlockLen
        /\ mmc.capacity \div BlockLen <= card.kind.blocks
        /\ ~Wrapped => req.start + req.count <= mmc.capacity \div BlockLen
    BY RequestInside, Bounds DEF ReadCalls
  <2>3. mmc.capacity \div BlockLen \in Nat
    BY <2>2, Division
  <2>4. (req.start + req.count) % SizeMod \in Nat
    BY <2>1, Bounds
  <2> DEFINE end == (req.start + req.count) % SizeMod
             room == mmc.capacity \div BlockLen
  <2>5. end <= room /\ room <= card.kind.blocks /\ end \in Nat /\ room \in Nat
    BY <2>2, <2>3, <2>4
  <2> HIDE DEF end, room
  <2>6. end <= card.kind.blocks
    BY <2>1, <2>5
  <2>7. CASE Wrapped
    BY <2>6, <2>7 DEF end
  <2>8. CASE ~Wrapped
    <3>1. req.start + req.count <= room
      BY <2>2, <2>8 DEF room
    <3> QED BY <2>1, <2>5, <3>1
  <2> QED BY <2>7, <2>8
<1> QED BY <1>1, InsideInvariance, PTL

-----------------------------------------------------------------------------
(* The data engine.                                                        *)

Quiet(c) == c.engine = Idle /\ c.status = "none"

(* A software reset stops the engine.                                      *)
LEMMA ClockQuiet ==
    ASSUME NEW c \in ControllerType, NEW fast, NEW width
    PROVE  Quiet(SetClock(SetBusWidth(c, width), fast))
<1> DEFINE d == SetBusWidth(c, width)
<1>1. DOMAIN d = {"width", "fast", "engine", "status"}
  BY DEF SetBusWidth, ControllerType
<1> HIDE DEF d
<1>2. SetClock(d, fast).engine = Idle /\ SetClock(d, fast).status = "none"
  BY <1>1 DEF SetClock
<1> QED BY <1>2 DEF Quiet, d

(* Clearing the status leaves the engine alone.                            *)
LEMMA StatusCleared ==
    ASSUME NEW c \in ControllerType
    PROVE  ClearDataStatus(c).engine = c.engine /\ ClearDataStatus(c).status = "none"
BY DEF ClearDataStatus, ControllerType

(* An engine at work.                                                      *)
Transfer(what, blocks, to) == [what |-> what, left |-> blocks, to |-> to]

(* An idle engine is armed as asked.                                      *)
LEMMA EngineArmed ==
    ASSUME NEW c \in ControllerType, Quiet(c),
           NEW what \in Payloads, NEW blocks, NEW to
    PROVE  /\ Arm(c, what, blocks, to).engine = Transfer(what, blocks, to)
           /\ Arm(c, what, blocks, to).engine # Idle
           /\ Arm(c, what, blocks, to).status = "none"
BY DEF Quiet, Arm, ControllerType, Payloads, Idle, Transfer

(* An engine at work takes a payload, or ends and reports it.              *)
LEMMA EngineReceives ==
    ASSUME NEW c \in ControllerType, NEW d, NEW intact \in BOOLEAN
    PROVE  /\ c.engine = Idle => Receive(c, d, intact) = c
           /\ c.engine # Idle /\ c.status = "none" =>
                \/ /\ Receive(c, d, intact).engine = Idle
                   /\ Receive(c, d, intact).status = "error"
                   /\ ~(intact /\ Fits(c, d))
                \/ /\ Receive(c, d, intact).engine = Idle
                   /\ Receive(c, d, intact).status = "done"
                   /\ intact /\ Fits(c, d) /\ c.engine.left = 1
                \/ /\ Receive(c, d, intact).engine =
                        [c.engine EXCEPT !.left = @ - 1, !.to = @ + 1]
                   /\ Receive(c, d, intact).engine # Idle
                   /\ Receive(c, d, intact).status = "none"
                   /\ intact /\ Fits(c, d) /\ c.engine.left # 1
<1>1. CASE c.engine = Idle
  BY <1>1 DEF Receive
<1>2. CASE c.engine # Idle /\ c.status = "none" /\ ~(intact /\ Fits(c, d))
  BY <1>2 DEF Receive, ControllerType
<1>3. CASE /\ c.engine # Idle /\ c.status = "none" /\ intact /\ Fits(c, d)
           /\ c.engine.left = 1
  BY <1>3 DEF Receive, ControllerType
<1>4. CASE /\ c.engine # Idle /\ c.status = "none" /\ intact /\ Fits(c, d)
           /\ c.engine.left # 1
  <2> DEFINE e == [c.engine EXCEPT !.left = @ - 1, !.to = @ + 1]
  <2>1. Receive(c, d, intact) = [c EXCEPT !.engine = e]
    BY <1>4 DEF Receive, ControllerType
  <2>2. c.engine \in [what : Payloads, left : Nat \ {0}, to : Nat]
    BY <1>4 DEF ControllerType, Engines
  <2>3. e.what \in Payloads
    BY <2>2
  <2>4. e # Idle
    BY <2>3 DEF Payloads, Idle
  <2> HIDE DEF e
  <2>5. Receive(c, d, intact).engine = e /\ Receive(c, d, intact).status = "none"
    BY <1>4, <2>1 DEF ControllerType
  <2> QED BY <1>4, <2>4, <2>5 DEF e
<1> QED BY <1>1, <1>2, <1>3, <1>4

(* A call of the driver that does not touch the controller.                *)
LEMMA EngineKept ==
    ASSUME Engine, UNCHANGED <<ctl, suspect>>,
           pc \notin DataCalls, pc' \notin DataCalls
    PROVE  Engine'
BY DEF Engine

(* Every step keeps what is said of the engine.                           *)
LEMMA EngineStep ==
    ASSUME IInv, Engine, Next PROVE Engine'
<1> USE DEF Goto, Return, DataCalls
<1>1. /\ ctl \in ControllerType /\ mmc \in MmcType /\ suspect \in BOOLEAN
      /\ {"scr", "func", "block"} \subseteq Payloads
  BY DEF IInv, Typed, TypeOK, Payloads
<1>2. CASE CallInit
  <2>1. /\ ctl' = SetClock(SetBusWidth(ClearDataStatus(ctl), 1), FALSE)
        /\ pc' = "goIdle"
    BY <1>2 DEF CallInit
  <2>2. ClearDataStatus(ctl) \in ControllerType
    BY <1>1, ControllerTyped
  <2>3. Quiet(ctl')
    BY <2>1, <2>2, ClockQuiet
  <2> QED BY <2>1, <2>3 DEF Engine, Quiet
<1>3. ASSUME NEW m, FinishStartup(ClearDataStatus(ctl), m) \/ FinishStartup(ctl, m)
      PROVE  Engine'
  <2>1. ClearDataStatus(ctl) \in ControllerType
    BY <1>1, ControllerTyped
  <2>2. Quiet(ctl') /\ pc' = "caller"
    BY <1>1, <1>3, <2>1, ClockQuiet DEF FinishStartup
  <2> QED BY <2>2 DEF Engine, Quiet
<1>4. ASSUME NEW what \in Payloads, NEW blocks, NEW to, NEW heard,
             ctl' = Arm(ctl, what, blocks, to), suspect' = (suspect \/ ~heard),
             pc \notin DataCalls, heard => pc' \in DataCalls
      PROVE  Engine'
  <2> SUFFICES ASSUME ~suspect' 
               PROVE  /\ pc' \in DataCalls
                      /\ ctl'.engine # Idle /\ ctl'.status = "none"
    BY DEF Engine
  <2>1. ~suspect /\ heard
    BY <1>1, <1>4
  <2>2. Quiet(ctl)
    BY <1>4, <2>1 DEF Engine, Quiet
  <2>3. ctl \in ControllerType /\ ctl' = Arm(ctl, what, blocks, to)
    BY <1>1, <1>4
  <2>4. ctl'.engine # Idle /\ ctl'.status = "none"
    BY <2>2, <2>3, EngineArmed
  <2> QED BY <1>4, <2>1, <2>4
<1>5. ASSUME pc \in DataCalls, TransferOver, ctl' = ClearDataStatus(ctl),
             UNCHANGED suspect, pc' \notin DataCalls
      PROVE  Engine'
  <2>1. ctl'.engine = ctl.engine /\ ctl'.status = "none"
    BY <1>1, <1>5, StatusCleared
  <2> QED BY <1>5, <2>1 DEF Engine
<1>6. CASE GoIdleState \/ IfCond \/ OpCondApp \/ OpCond \/ RelAddr \/ Csd \/ Status
  <2>1. UNCHANGED <<ctl, suspect>> /\ pc \notin DataCalls
    BY <1>6 DEF GoIdleState, IfCond, OpCondApp, OpCond, RelAddr, Csd, Status
  <2>2. pc' \notin DataCalls
    BY <1>6 DEF GoIdleState, IfCond, OpCondApp, OpCond, RelAddr, Csd, Status,
       Send, FailInit
  <2> QED BY <2>1, <2>2, EngineKept
<1>7. CASE Identify \/ Select \/ ScrApp \/ WidthApp
  <2>1. UNCHANGED <<ctl, suspect>> /\ pc \notin DataCalls
    BY <1>7 DEF Identify, Select, ScrApp, WidthApp, Startup
  <2>2. pc' \notin DataCalls
    BY <1>7 DEF Identify, Select, ScrApp, WidthApp, Startup, Send, FailInit
  <2> QED BY <2>1, <2>2, EngineKept
<1>8. CASE Scr
  <2>1. PICK x \in Exchanges(card, AppSendScr, 0, faults, MaxFaults) :
           /\ ctl' = Arm(ctl, "scr", 1, 0)
           /\ suspect' = (suspect \/ ~x.rsp.heard)
           /\ x.rsp.heard => pc' = "scrData"
    BY <1>8 DEF Scr, SendWithData, Send
  <2> QED BY <1>1, <1>4, <1>8, <2>1 DEF Scr
<1>9. CASE ScrData
  <2> DEFINE c == ClearDataStatus(ctl)
             m == [mmc EXCEPT !.version = ScrVersion[card.kind.spec],
                              !.four = card.kind.four]
  <2>1. \/ FinishStartup(c, m)
        \/ /\ pc' \in {"switch", "widthApp", "scr", "caller"}
           /\ ctl' = c /\ UNCHANGED suspect
    BY <1>9 DEF ScrData, FinishData, RetryScr, FailInit
  <2>2. pc \in DataCalls /\ TransferOver
    BY <1>9 DEF ScrData, FinishData
  <2> HIDE DEF m
  <2> QED BY <1>3, <1>5, <2>1, <2>2
<1>10. CASE Switch
  <2>1. PICK x \in Exchanges(card, SwitchFunc, 0, faults, MaxFaults) :
           /\ ctl' = Arm(ctl, "func", 1, 0)
           /\ suspect' = (suspect \/ ~x.rsp.heard)
           /\ x.rsp.heard => pc' = "switchData"
    BY <1>10 DEF Switch, SendWithData, Send
  <2> QED BY <1>1, <1>4, <1>10, <2>1 DEF Switch
<1>11. CASE SwitchData
  <2> DEFINE c == ClearDataStatus(ctl)
  <2>1. \/ FinishStartup(c, mmc)
        \/ /\ pc' \in {"switch", "widthApp", "caller"}
           /\ ctl' = c /\ UNCHANGED suspect
    BY <1>11 DEF SwitchData, FinishData, FailInit
  <2>2. pc \in DataCalls /\ TransferOver
    BY <1>11 DEF SwitchData, FinishData
  <2> QED BY <1>3, <1>5, <2>1, <2>2
<1>12. CASE Width
  <2> DEFINE m == [mmc EXCEPT !.width = 4]
  <2>1. \/ FinishStartup(ctl, m)
        \/ pc' = "caller" /\ UNCHANGED <<ctl, suspect>>
    BY <1>12 DEF Width, Send, FailInit
  <2> HIDE DEF m
  <2> QED BY <1>3, <1>12, <2>1, EngineKept DEF Width
<1>13. CASE CallRead \/ BlockLength \/ Stop
  <2>1. UNCHANGED <<ctl, suspect>> /\ pc \notin DataCalls
    BY <1>13 DEF CallRead, BlockLength, Stop
  <2>2. pc' \notin DataCalls
    BY <1>13 DEF CallRead, BlockLength, Stop, Send, NextChunk
  <2> QED BY <2>1, <2>2, EngineKept
<1>14. CASE ReadBlocks
  <2> DEFINE cmd == IF Chunk > 1 THEN ReadMultiple ELSE ReadSingle
             arg == IF mmc.hc THEN req.at ELSE (req.at * BlockLen) % SizeMod
  <2>1. PICK x \in Exchanges(card, cmd, arg, faults, MaxFaults) :
           /\ ctl' = Arm(ctl, "block", Chunk, req.count - req.todo)
           /\ suspect' = (suspect \/ ~x.rsp.heard)
           /\ x.rsp.heard => pc' = "readData"
    BY <1>14 DEF ReadBlocks, SendWithData, Send
  <2> HIDE DEF cmd, arg
  <2> QED BY <1>1, <1>4, <1>14, <2>1 DEF ReadBlocks
<1>15. CASE ReadData
  <2>1. /\ pc \in DataCalls /\ TransferOver /\ ctl' = ClearDataStatus(ctl)
        /\ UNCHANGED suspect
    BY <1>15 DEF ReadData, FinishData
  <2>2. pc' \notin DataCalls
    BY <1>15 DEF ReadData, FinishData, NextChunk
  <2> QED BY <1>5, <2>1, <2>2
<1>16. CASE CardSends
  <2>1. PICK intact \in BOOLEAN : ctl' = Receive(ctl, card, intact)
    BY <1>16 DEF CardSends
  <2>2. UNCHANGED <<pc, suspect>>
    BY <1>16 DEF CardSends
  <2>3. CASE ctl.engine = Idle
    <3>1. ctl' = ctl
      BY <1>1, <2>1, <2>3, EngineReceives
    <3> QED BY <2>2, <3>1 DEF Engine
  <2>4. CASE ctl.engine # Idle /\ ctl.status = "none"
    <3>1. ctl'.engine = Idle <=> ctl'.status # "none"
      BY <1>1, <2>1, <2>4, EngineReceives
    <3> QED BY <2>2, <2>4, <3>1 DEF Engine
  <2>5. CASE ctl.engine # Idle /\ ctl.status # "none"
    BY <2>2, <2>5 DEF Engine
  <2> QED BY <2>3, <2>4, <2>5
<1> QED BY <1>2, <1>6, <1>7, <1>8, <1>9, <1>10, <1>11, <1>12, <1>13, <1>14,
           <1>15, <1>16 DEF Next, DriverStep

-----------------------------------------------------------------------------
(* The blocks read.                                                        *)

(* A step that ends in no read, or not with success.                       *)
LEMMA NothingRead ==
    ASSUME pc' \notin ReadCalls, result' # "read"
    PROVE  Exact'
BY DEF Exact, ReadCalls

(* The next chunk is within what is left.                                  *)
LEMMA ChunkBounds ==
    ASSUME IInv, pc \in ReadCalls
    PROVE  /\ req.start \in Nat /\ req.count \in Nat /\ req.at \in Nat
           /\ req.todo \in 1 .. req.count /\ Got \in 0 .. req.count - 1
           /\ Chunk \in 1 .. req.todo
           /\ Got + Chunk \in 1 .. req.count
<1>1. /\ req.start \in Nat /\ req.count \in Nat /\ req.at \in Nat
      /\ req.todo \in 1 .. req.count
  BY Bounds DEF IInv, Typed, TypeOK
<1>2. Chunk \in 1 .. req.todo
  BY <1>1, Bounds DEF Chunk
<1> QED BY <1>1, <1>2 DEF Got

(* A chunk that has come in full is counted, and the last one ends the     *)
(* read.                                                                   *)
LEMMA ChunkCounted ==
    ASSUME IInv, Exact, pc \in ReadCalls, NextChunk,
           UNCHANGED <<buf, negotiated, suspect>>, result # "read",
           negotiated /\ ~suspect /\ ~Wrapped => Filled(Got + Chunk)
    PROVE  Exact'
<1> USE DEF Goto, Return
<1>1. /\ req' = [req EXCEPT !.todo = @ - Chunk, !.at = @ + Chunk]
      /\ \/ req.todo > Chunk /\ pc' = "read" /\ result' = result
         \/ ~(req.todo > Chunk) /\ pc' = "caller" /\ result' = "read"
  BY DEF NextChunk
<1>2. /\ req.start \in Nat /\ req.count \in Nat /\ req.at \in Nat
      /\ req.todo \in 1 .. req.count
      /\ Chunk \in 1 .. req.todo
  BY ChunkBounds
<1>3. /\ req'.start = req.start /\ req'.count = req.count
      /\ req'.todo = req.todo - Chunk /\ req'.at = req.at + Chunk
  BY <1>1 DEF IInv, Typed, TypeOK
<1>4. req.at = req.start + Got
  BY DEF Exact
<1>5. Got' = Got + Chunk
  BY <1>2, <1>3 DEF Got
<1>6. Filled(Got)' <=> Filled(Got + Chunk)
  BY <1>3, <1>5 DEF Filled
<1>7. negotiated' /\ ~suspect' /\ ~Wrapped' => Filled(Got)'
  <2>1. Wrapped' <=> Wrapped
    BY <1>3 DEF Wrapped
  <2> QED BY <1>6, <2>1
<1>8. CASE req.todo > Chunk /\ pc' = "read" /\ result' = result
  <2>1. req'.at = req'.start + Got'
    BY <1>2, <1>3, <1>4, <1>5 DEF Got
  <2> QED BY <1>7, <1>8, <2>1 DEF Exact
<1>9. CASE ~(req.todo > Chunk) /\ pc' = "caller" /\ result' = "read"
  <2>1. Got' = req'.count
    BY <1>2, <1>3, <1>5, <1>9 DEF Got
  <2> QED BY <1>7, <1>9, <2>1 DEF Exact, ReadCalls
<1> QED BY <1>1, <1>8, <1>9

(* What mmc_bread sends as the address.                                    *)
Address == IF mmc.hc THEN req.at ELSE (req.at * BlockLen) % SizeMod

(* The address sent to the card names the next block, in bytes or in      *)
(* blocks, and the card has that block.                                   *)
LEMMA AddressRight ==
    ASSUME IInv, Inside, Exact, pc \in ReadCalls, negotiated, ~Wrapped
    PROVE  Addressed(card, Address) = req.at /\ req.at < card.kind.blocks
<1>1. /\ req.start \in Nat /\ req.count \in Nat /\ req.at \in Nat
      /\ Got \in 0 .. req.count - 1
      /\ req.at = req.start + Got
  BY ChunkBounds DEF Exact
<1>2. mmc.hc = card.kind.hc
  BY DEF Inside
<1>3. /\ mmc.capacity \in 0 .. SizeMod - 1
      /\ req.start + req.count <= mmc.capacity \div BlockLen
      /\ mmc.capacity \div BlockLen <= card.kind.blocks
  BY <1>2, RequestInside
<1>4. /\ mmc.capacity \in Nat /\ mmc.capacity \div BlockLen \in Nat
      /\ card.kind.blocks \in Nat
  <2>1. mmc.capacity \in Nat /\ mmc.capacity \div BlockLen \in Nat
    BY <1>3, Bounds, Division
  <2> QED BY <2>1 DEF IInv, Typed, TypeOK, CardType, Kinds
<1>5. req.at < card.kind.blocks /\ req.at <= mmc.capacity \div BlockLen
  BY <1>1, <1>2, <1>3, <1>4
<1>6. CASE mmc.hc
  BY <1>2, <1>5, <1>6 DEF Address, Addressed
<1>7. CASE ~mmc.hc
  <2>1. req.at * BlockLen \in Nat /\ req.at * BlockLen <= mmc.capacity
    BY <1>1, <1>4, <1>5, BlockBytes
  <2>2. req.at * BlockLen \in 0 .. SizeMod - 1
    BY <1>3, <2>1, Bounds
  <2>3. Address = req.at * BlockLen
    BY <1>7, <2>2, RemainderIdentity DEF Address
  <2>4. (req.at * BlockLen) \div BlockLen = req.at
    BY <1>1, BlockOfBytes
  <2> QED BY <1>2, <1>5, <1>7, <2>3, <2>4 DEF Addressed
<1> QED BY <1>6, <1>7

(* A read whose response is heard leaves the card at the first block of    *)
(* the chunk and the engine where that block belongs.                      *)
LEMMA ExactReadBlocks ==
    ASSUME IInv, Inside, Engine, Exact, ReadBlocks PROVE Exact'
<1> DEFINE cmd == IF Chunk > 1 THEN ReadMultiple ELSE ReadSingle
<1>1. PICK x \in Exchanges(card, cmd, Address, faults, MaxFaults) :
         /\ card' = x.card
         /\ ctl' = Arm(ctl, "block", Chunk, Got)
         /\ suspect' = (suspect \/ ~x.rsp.heard)
         /\ \/ x.rsp.heard /\ pc' = "readData" /\ UNCHANGED result
            \/ ~x.rsp.heard /\ pc' = "caller" /\ result' = "nothing"
  BY DEF ReadBlocks, SendWithData, Send, Goto, Return, Address, Got
<1>2. pc = "read" /\ UNCHANGED <<mmc, req, buf, negotiated>>
  BY DEF ReadBlocks
<1>3. pc \in ReadCalls /\ result # "read"
  BY <1>2 DEF ReadCalls, Exact
<1>4. /\ cmd \in {ReadSingle, ReadMultiple}
      /\ cmd = ReadMultiple <=> Chunk > 1
  OBVIOUS
<1> HIDE DEF cmd
<1>5. /\ ctl \in ControllerType /\ card \in CardType /\ suspect \in BOOLEAN
      /\ "block" \in Payloads
  BY DEF IInv, Typed, TypeOK, Payloads
<1>6. CASE ~x.rsp.heard
  BY <1>1, <1>6, NothingRead DEF ReadCalls
<1>7. CASE x.rsp.heard
  <2>1. pc' = "readData" /\ result' # "read" /\ suspect' = suspect
    BY <1>1, <1>3, <1>5, <1>7
  <2>2. req.at = req.start + Got /\ Got' = Got /\ Chunk' = Chunk
    BY <1>2, <1>3 DEF Exact, Got, Chunk
  <2>3. Filled(Got)' <=> Filled(Got)
    BY <1>2, <2>2 DEF Filled
  <2>4. Wrapped' <=> Wrapped
    BY <1>2 DEF Wrapped
  <2>5. ASSUME negotiated, ~suspect, ~Wrapped
        PROVE  /\ ctl'.status = "none"
               /\ ctl'.engine = Transfer("block", Chunk, Got)
               /\ card'.stream = Streaming("block", req.at, Chunk > 1)
               /\ Filled(Got)
    <3>1. Quiet(ctl)
      BY <1>2, <2>5 DEF Engine, Quiet, DataCalls
    <3>2. ctl'.engine = Transfer("block", Chunk, Got) /\ ctl'.status = "none"
      BY <1>1, <1>5, <3>1, EngineArmed
    <3>3. Addressed(card, Address) = req.at /\ req.at < card.kind.blocks
      BY <1>3, <2>5, AddressRight
    <3>4. PICK h \in Effects(card, cmd, Address) : card' = h.card
      BY <1>1, <1>7, ExchangeForm
    <3>5. card'.stream = Streaming("block", req.at, cmd = ReadMultiple)
      BY <1>4, <1>5, <3>3, <3>4, AnswersRead
    <3>6. Filled(Got)
      BY <1>2, <2>5 DEF Exact
    <3> QED BY <1>4, <3>2, <3>5, <3>6
  <2>6. Got \in Nat /\ Chunk \in Nat
    BY <1>3, ChunkBounds
  <2>7. ASSUME negotiated', ~suspect', ~Wrapped'
        PROVE  /\ ctl'.status # "done"
               /\ ctl'.engine.what = "block"
               /\ ctl'.engine.to >= Got'
               /\ ctl'.engine.to + ctl'.engine.left = Got' + Chunk'
               /\ card'.stream = [what |-> "block",
                                  block |-> req'.start + ctl'.engine.to,
                                  multi |-> Chunk' > 1]
               /\ Filled(ctl.engine.to)'
    <3>1. negotiated /\ ~suspect /\ ~Wrapped
      BY <1>2, <2>1, <2>4, <2>7
    <3>2. /\ ctl'.engine.what = "block" /\ ctl'.engine.to = Got
          /\ ctl'.engine.left = Chunk /\ ctl'.status # "done"
      BY <2>5, <3>1 DEF Transfer
    <3>3. card'.stream = Streaming("block", req.start + Got, Chunk > 1)
      BY <2>2, <2>5, <3>1
    <3>4. Filled(ctl.engine.to)'
      BY <1>2, <2>5, <3>1, <3>2 DEF Filled
    <3> QED BY <1>2, <2>2, <2>6, <3>2, <3>3, <3>4 DEF Streaming
  <2> QED BY <1>2, <2>1, <2>2, <2>7 DEF Exact
<1> QED BY <1>6, <1>7

(* A block that arrives is written behind those that have come, and the    *)
(* card goes on with the next.                                             *)
LEMMA ExactCardSends ==
    ASSUME IInv, Engine, Exact, CardSends PROVE Exact'
<1>1. PICK intact \in BOOLEAN :
         /\ ctl' = Receive(ctl, card, intact)
         /\ buf' = Stored(ctl, card, intact, buf)
  BY DEF CardSends
<1>2. /\ card' = AfterBlock(card)
      /\ UNCHANGED <<pc, req, result, negotiated, suspect>>
  BY DEF CardSends
<1>3. /\ ctl \in ControllerType /\ card \in CardType
      /\ req.start \in Nat /\ req.count \in Nat
      /\ DOMAIN buf = 0 .. req.count - 1
  BY Bounds DEF IInv, Typed, TypeOK
<1>4. Wrapped' <=> Wrapped
  BY <1>2 DEF Wrapped
<1>5. Got' = Got /\ Chunk' = Chunk
  BY <1>2 DEF Got, Chunk
<1>6. CASE ctl.engine = Idle
  <2>1. ctl' = ctl
    BY <1>1, <1>3, <1>6, EngineReceives
  <2>2. buf' = buf
    BY <1>1, <1>6 DEF Stored, Idle
  <2>3. \A n : Filled(n)' <=> Filled(n)
    BY <1>2, <2>2 DEF Filled
  <2> QED BY <1>2, <1>4, <1>5, <1>6, <2>1, <2>2 DEF Exact, Filled
<1>7. CASE ctl.engine # Idle /\ ~(pc = "readData" /\ negotiated /\ ~suspect /\ ~Wrapped)
  <2>1. negotiated /\ ~suspect /\ ~Wrapped => pc \in {"scrData", "switchData"}
    BY <1>7 DEF Engine, DataCalls
  <2>2. negotiated' /\ ~suspect' /\ ~Wrapped' =>
           pc' \notin ReadCalls /\ pc' # "caller"
    BY <1>2, <1>4, <2>1 DEF ReadCalls
  <2>3. result' = "read" => pc' = "caller"
    BY <1>2 DEF Exact
  <2>4. pc' \in ReadCalls => req'.at = req'.start + Got'
    BY <1>2, <1>5 DEF Exact
  <2> QED BY <2>2, <2>3, <2>4 DEF Exact, ReadCalls
<1>8. CASE ctl.engine # Idle /\ pc = "readData" /\ negotiated /\ ~suspect /\ ~Wrapped
  <2> DEFINE to == ctl.engine.to
             left == ctl.engine.left
             stream == [what |-> "block", block |-> req.start + to,
                        multi |-> Chunk > 1]
  <2>1. /\ ctl.engine.what = "block" /\ to >= Got /\ to + left = Got + Chunk
        /\ card.stream = stream
        /\ HasBlocks(buf, req.start, to)
        /\ req.at = req.start + Got
    BY <1>8 DEF Exact, ReadCalls, Filled
  <2>2. ctl.status = "none" /\ result # "read"
    BY <1>8 DEF Engine, DataCalls, Exact
  <2>3. to \in Nat /\ left \in Nat \ {0}
    BY <1>3, <1>8 DEF ControllerType, Engines
  <2>4. Got + Chunk \in 1 .. req.count /\ Chunk \in Nat /\ Got \in Nat
    BY <1>8, ChunkBounds DEF ReadCalls
  <2>5. to \in DOMAIN buf
    BY <1>3, <2>1, <2>3, <2>4
  <2>6. ASSUME intact, Fits(ctl, card)
        PROVE  HasBlocks(buf', req.start, to + 1)
    <3>1. buf' = [buf EXCEPT ![to] = req.start + to]
      BY <1>1, <2>1, <2>5, <2>6 DEF Stored
    <3> HIDE DEF to
    <3> QED BY <1>3, <2>1, <2>3, <2>5, <3>1 DEF HasBlocks
  <2>7. CASE ctl'.engine = Idle /\ ctl'.status = "error"
    BY <1>2, <1>8, <2>1, <2>2, <2>7, <1>5 DEF Exact, ReadCalls
  <2>8. CASE /\ ctl'.engine = Idle /\ ctl'.status = "done"
             /\ intact /\ Fits(ctl, card) /\ left = 1
    <3>1. Filled(Got + Chunk)'
      BY <1>2, <1>5, <2>1, <2>3, <2>6, <2>8 DEF Filled
    <3> QED BY <1>2, <1>5, <1>8, <2>1, <2>2, <2>8, <3>1 DEF Exact, ReadCalls
  <2>9. CASE /\ ctl'.engine = [ctl.engine EXCEPT !.left = @ - 1, !.to = @ + 1]
             /\ ctl'.status = "none"
             /\ intact /\ Fits(ctl, card) /\ left # 1
    <3>1. /\ ctl'.engine.what = "block" /\ ctl'.engine.to = to + 1
          /\ ctl'.engine.left = left - 1
      BY <1>3, <1>8, <2>1, <2>9 DEF ControllerType, Engines
    <3>2. Chunk > 1
      BY <2>1, <2>3, <2>4, <2>9
    <3>3. card'.stream = [what |-> "block", block |-> req.start + (to + 1),
                         multi |-> Chunk > 1]
      <4>1. card.stream.multi /\ card.stream.block = req.start + to
        <5>1. (Chunk > 1) = TRUE
          BY <3>2
        <5>2. card.stream = [what |-> "block", block |-> req.start + to,
                             multi |-> TRUE]
          BY <2>1, <5>1
        <5> QED BY <5>2
      <4>2. card' = [card EXCEPT !.stream.block = card.stream.block + 1]
        BY <1>2, <4>1 DEF AfterBlock
      <4>3. card'.stream = [card.stream EXCEPT !.block = card.stream.block + 1]
        BY <1>3, <4>2 DEF CardType
      <4>4. card'.stream = [what |-> "block", block |-> (req.start + to) + 1,
                           multi |-> Chunk > 1]
        BY <2>1, <4>1, <4>3
      <4>5. (req.start + to) + 1 = req.start + (to + 1)
        BY <1>3, <2>3
      <4> QED BY <4>4, <4>5
    <3>4. Filled(ctl.engine.to)'
      BY <1>2, <2>6, <2>9, <3>1 DEF Filled
    <3>5. ctl'.engine.to >= Got /\ ctl'.engine.to + ctl'.engine.left = Got + Chunk
      BY <2>1, <2>3, <2>4, <3>1
    <3> HIDE DEF to, left, stream
    <3> QED BY <1>2, <1>5, <1>8, <2>1, <2>2, <2>9, <3>1, <3>3, <3>4, <3>5
            DEF Exact, ReadCalls
  <2> QED BY <1>1, <1>3, <1>8, <2>2, <2>7, <2>8, <2>9, EngineReceives
<1> QED BY <1>6, <1>7, <1>8

(* Every step keeps the blocks received exact.                            *)
LEMMA ExactStep ==
    ASSUME IInv, Inside, Engine, Exact, Next PROVE Exact'
<1> USE DEF Goto, Return, ReadCalls
<1>1. CASE CallInit
  BY <1>1, NothingRead DEF CallInit
<1>2. CASE GoIdleState \/ IfCond \/ OpCondApp \/ OpCond \/ RelAddr \/ Csd \/ Status
  <2>1. pc # "caller" /\ pc' \notin ReadCalls
    BY <1>2 DEF GoIdleState, IfCond, OpCondApp, OpCond, RelAddr, Csd, Status,
       Send, FailInit
  <2>2. result' \in {result, "initFailed"}
    BY <1>2 DEF GoIdleState, IfCond, OpCondApp, OpCond, RelAddr, Csd, Status,
       Send, FailInit
  <2> QED BY <2>1, <2>2, NothingRead DEF Exact
<1>3. CASE Identify \/ Select \/ ScrApp \/ WidthApp
  <2>1. pc # "caller" /\ pc' \notin ReadCalls
    BY <1>3 DEF Identify, Select, ScrApp, WidthApp, Startup, Send, FailInit
  <2>2. result' \in {result, "initFailed"}
    BY <1>3 DEF Identify, Select, ScrApp, WidthApp, Startup, Send, FailInit
  <2> QED BY <2>1, <2>2, NothingRead DEF Exact
<1>4. CASE Scr \/ ScrData \/ Switch \/ SwitchData \/ Width
  <2>1. pc # "caller" /\ pc' \notin ReadCalls
    BY <1>4 DEF Scr, ScrData, Switch, SwitchData, Width, SendWithData, Send,
       FinishData, FinishStartup, RetryScr, FailInit
  <2>2. result' \in {result, "initFailed", "initOk"}
    BY <1>4 DEF Scr, ScrData, Switch, SwitchData, Width, SendWithData, Send,
       FinishData, FinishStartup, RetryScr, FailInit
  <2> QED BY <2>1, <2>2, NothingRead DEF Exact
<1>5. CASE CallRead
  <2>1. PICK r \in Requests :
           /\ req' = [start |-> r.start, count |-> r.count, todo |-> r.count,
                      at |-> r.start]
           /\ \/ pc' = "setBlockLen" /\ result' = "none"
              \/ pc' = "caller" /\ result' = "nothing"
    BY <1>5 DEF CallRead
  <2>2. r.start \in Nat /\ r.count \in Nat
    BY DriverAssumption, Bounds
  <2>3. Got' = 0 /\ req'.at = req'.start + Got'
    BY <2>1, <2>2 DEF Got
  <2>4. Filled(Got)'
    BY <2>3 DEF Filled, HasBlocks
  <2> QED BY <2>1, <2>3, <2>4 DEF Exact
<1>6. CASE BlockLength
  <2>1. /\ pc = "setBlockLen"
        /\ UNCHANGED <<req, buf, negotiated, suspect>>
        /\ \/ pc' = "read" /\ UNCHANGED result
           \/ pc' = "caller" /\ result' = "nothing"
    BY <1>6 DEF BlockLength, Send
  <2>2. CASE pc' = "caller" /\ result' = "nothing"
    BY <2>2, NothingRead
  <2>3. CASE pc' = "read" /\ UNCHANGED result
    <3>1. Got' = Got /\ (Wrapped' <=> Wrapped)
      BY <2>1 DEF Got, Wrapped
    <3>2. Filled(Got)' <=> Filled(Got)
      BY <2>1, <3>1 DEF Filled
    <3> QED BY <2>1, <2>3, <3>1, <3>2 DEF Exact
  <2> QED BY <2>1, <2>2, <2>3
<1>7. CASE ReadData
  <2>1. /\ pc = "readData" /\ result # "read"
        /\ UNCHANGED <<buf, negotiated, suspect>>
        /\ ctl.status = "done" \/ (pc' = "caller" /\ result' = "nothing")
        /\ \/ Chunk > 1 /\ pc' = "stop" /\ UNCHANGED <<req, result>>
           \/ Chunk = 1 /\ NextChunk
           \/ pc' = "caller" /\ result' = "nothing"
    BY <1>7 DEF ReadData, FinishData, Exact
  <2>2. CASE pc' = "caller" /\ result' = "nothing"
    BY <2>2, NothingRead
  <2>3. ctl.status = "done" /\ negotiated /\ ~suspect /\ ~Wrapped =>
            Filled(Got + Chunk)
    BY <2>1 DEF Exact
  <2>4. CASE ctl.status = "done" /\ NextChunk
    BY <2>1, <2>3, <2>4, ChunkCounted
  <2>5. CASE ctl.status = "done" /\ pc' = "stop" /\ UNCHANGED <<req, result>>
    <3>1. Got' = Got /\ Chunk' = Chunk /\ (Wrapped' <=> Wrapped)
      BY <2>5 DEF Got, Chunk, Wrapped
    <3>2. Filled(Got + Chunk)' <=> Filled(Got + Chunk)
      BY <2>1, <2>5, <3>1 DEF Filled
    <3> QED BY <2>1, <2>3, <2>5, <3>1, <3>2 DEF Exact
  <2> QED BY <2>1, <2>2, <2>4, <2>5
<1>8. CASE Stop
  <2>1. /\ pc = "stop" /\ result # "read"
        /\ UNCHANGED <<buf, negotiated, suspect>>
        /\ NextChunk \/ (pc' = "caller" /\ result' = "nothing")
    BY <1>8 DEF Stop, Send, Exact
  <2>2. negotiated /\ ~suspect /\ ~Wrapped => Filled(Got + Chunk)
    BY <2>1 DEF Exact
  <2> QED BY <2>1, <2>2, ChunkCounted, NothingRead
<1> QED BY <1>1, <1>2, <1>3, <1>4, <1>5, <1>6, <1>7, <1>8, ExactReadBlocks,
           ExactCardSends DEF Next, DriverStep

(* Together they hold in every reachable state.                           *)
LEMMA ReadInvariance == Spec => [](IInv /\ Inside /\ Engine /\ Exact)
<1>1. Init => Engine /\ Exact
  BY DEF Init, PoweredUpController, Engine, DataCalls, Exact, ReadCalls
<1>2. IInv /\ Inside /\ Engine /\ Exact /\ [Next]_vars => Engine' /\ Exact'
  <2>1. ASSUME IInv, Inside, Engine, Exact, UNCHANGED vars
        PROVE  Engine' /\ Exact'
    <3>1. Engine'
      BY <2>1 DEF vars, Engine
    <3>2. Exact'
      BY <2>1 DEF vars, Exact, Filled, Got, Chunk, Wrapped
    <3> QED BY <3>1, <3>2
  <2> QED BY <2>1, EngineStep, ExactStep
<1> QED BY <1>1, <1>2, InsideInvariance, PTL DEF Spec

(* mmc_bread returns exactly the blocks it was asked for, complete and in  *)
(* order, also over several chunks, after failed reads and whatever is     *)
(* lost or damaged, unless a data command failed since the last software   *)
(* reset: for any card, request, size of a chunk and number of faults.     *)
THEOREM ReadsAreExact == Spec => []ReadsExact
<1>1. IInv /\ Exact => ReadsExact
  <2> SUFFICES ASSUME IInv, Exact, result = "read", negotiated, ~suspect, ~Wrapped
               PROVE  buf = [i \in 0 .. req.count - 1 |-> req.start + i]
    BY DEF ReadsExact
  <2>1. HasBlocks(buf, req.start, req.count)
    BY DEF Exact, Filled
  <2>2. buf \in [0 .. req.count - 1 -> Int]
    BY DEF IInv, Typed, TypeOK
  <2>3. \A i \in 0 .. req.count - 1 : buf[i] = req.start + i
    BY <2>1 DEF HasBlocks
  <2> QED BY <2>2, <2>3
<1> QED BY <1>1, ReadInvariance, PTL

-----------------------------------------------------------------------------
(* The commands are legal.                                                 *)

(* Faults are counted up, and one that is counted is never forgotten.      *)
LEMMA StillFaultless ==
    ASSUME IInv, Next, faults' = 0
    PROVE  faults = 0
<1>1. faults \in 0 .. MaxFaults /\ MaxFaults \in Nat
  BY Bounds DEF IInv, Typed, TypeOK
<1>2. ASSUME NEW cmd, NEW arg, NEW x \in Exchanges(card, cmd, arg, faults, MaxFaults),
             faults' = x.faults
      PROVE  faults = 0
  BY <1>1, <1>2, Delivered
<1>3. CASE GoIdleState
  BY <1>2, <1>3 DEF GoIdleState, Send
<1>4. CASE IfCond \/ OpCondApp \/ OpCond \/ RelAddr \/ Csd \/ Status
  BY <1>2, <1>4 DEF IfCond, OpCondApp, OpCond, RelAddr, Csd, Status, Send
<1>5. CASE Identify \/ Select \/ ScrApp \/ WidthApp
  BY <1>2, <1>5 DEF Identify, Select, ScrApp, WidthApp, Startup, Send
<1>6. CASE Scr \/ Switch \/ Width
  BY <1>2, <1>6 DEF Scr, Switch, Width, SendWithData, Send
<1>7. CASE BlockLength \/ Stop
  BY <1>2, <1>7 DEF BlockLength, Stop, Send
<1>8. CASE ReadBlocks
  BY <1>2, <1>8 DEF ReadBlocks, SendWithData, Send
<1>9. CASE CardSends
  BY <1>1, <1>9 DEF CardSends
<1>10. CASE CallInit \/ CallRead \/ ScrData \/ SwitchData \/ ReadData
  BY <1>10 DEF CallInit, CallRead, ScrData, SwitchData, ReadData
<1> QED BY <1>3, <1>4, <1>5, <1>6, <1>7, <1>8, <1>9, <1>10 DEF Next, DriverStep

(* Until the operating conditions are agreed on, the history variables     *)
(* keep the values of the start of mmc_init.                               *)
LEMMA EarlyStep ==
    ASSUME Legal, Next
    PROVE  pc' \in {"goIdle"} \cup Negotiating => ~suspect' /\ ~negotiated'
<1> USE DEF Negotiating, Goto, Return
<1>1. CASE CallInit
  BY <1>1 DEF CallInit
<1>2. CASE GoIdleState \/ IfCond \/ OpCondApp
  <2>1. /\ pc \in {"goIdle"} \cup Negotiating
        /\ UNCHANGED <<suspect, negotiated>>
    BY <1>2 DEF GoIdleState, IfCond, OpCondApp
  <2> QED BY <2>1 DEF Legal
<1>3. CASE OpCond
  <2>1. /\ pc \in Negotiating /\ UNCHANGED suspect
        /\ (pc' = "opCondApp" /\ UNCHANGED negotiated) \/ pc' = "allSendCid"
    BY <1>3 DEF OpCond, Send
  <2> QED BY <2>1 DEF Legal
<1>4. CASE Identify \/ Select \/ ScrApp \/ WidthApp
  <2>1. pc' \notin {"goIdle"} \cup Negotiating
    BY <1>4 DEF Identify, Select, ScrApp, WidthApp, Startup, Send, FailInit
  <2> QED BY <2>1
<1>5. CASE RelAddr \/ Csd \/ Status \/ Scr \/ ScrData \/ Switch \/ SwitchData \/ Width
  <2>1. pc' \notin {"goIdle"} \cup Negotiating
    BY <1>5 DEF RelAddr, Csd, Status, Scr, ScrData, Switch, SwitchData, Width,
       SendWithData, Send, FinishData, FinishStartup, RetryScr, FailInit
  <2> QED BY <2>1
<1>6. CASE CallRead \/ BlockLength \/ ReadBlocks \/ ReadData \/ Stop
  <2>1. pc' \notin {"goIdle"} \cup Negotiating
    BY <1>6 DEF CallRead, BlockLength, ReadBlocks, ReadData, Stop, SendWithData,
       Send, FinishData, NextChunk
  <2> QED BY <2>1
<1>7. CASE CardSends
  BY <1>7 DEF CardSends, Legal
<1> QED BY <1>1, <1>2, <1>3, <1>4, <1>5, <1>6, <1>7 DEF Next, DriverStep

(* A command that the card does not accept is not answered.                *)
LEMMA Refused ==
    ASSUME IInv, faults' = 0, NEW cmd, cmd \notin {GoIdle, SendIfCond}, NEW arg,
           NEW x \in Exchanges(card, cmd, arg, faults, MaxFaults),
           card' = x.card, faults' = x.faults, ~Accepts(card, cmd, arg)
    PROVE  card'.rejected /\ ~x.rsp.heard
<1>1. card \in CardType /\ faults \in 0 .. MaxFaults
  BY DEF IInv, Typed, TypeOK
<1>2. PICK h \in Handle(card, cmd, arg) : card' = h.card /\ x.rsp = h.rsp
  BY <1>1, Delivered
<1>3. h.rsp = NoResponse
  BY <1>2 DEF Handle
<1>4. h.card = [card EXCEPT !.app = FALSE, !.rejected = @ \/ cmd # SendIfCond]
  BY <1>2 DEF Handle
<1>5. (card.rejected \/ cmd # SendIfCond) = TRUE
  OBVIOUS
<1>6. h.card = [card EXCEPT !.app = FALSE, !.rejected = TRUE]
  BY <1>4, <1>5
<1>7. h.card.rejected /\ ~h.rsp.heard
  BY <1>1, <1>3, <1>6 DEF CardType, NoResponse
<1> QED BY <1>2, <1>7

(* What becomes of a command that the card accepts when nothing goes       *)
(* wrong.                                                                  *)
LEMMA Obeyed ==
    ASSUME IInv, faults' = 0, NEW cmd, cmd # GoIdle, NEW arg,
           NEW x \in Exchanges(card, cmd, arg, faults, MaxFaults),
           card' = x.card, faults' = x.faults, Accepts(card, cmd, arg)
    PROVE  \E h \in Effects(card, cmd, arg) : card' = h.card /\ x.rsp = h.rsp
<1>1. faults \in 0 .. MaxFaults
  BY DEF IInv, Typed, TypeOK
<1> QED BY <1>1, Delivered

(* The commands that leave the state of the card as it is.                *)
LEMMA ObeyedInState ==
    ASSUME IInv, faults' = 0, NEW arg,
           NEW cmd \in {SendIfCond, AppCmd, SendCsd, SendStatus, SetBlockLen},
           NEW x \in Exchanges(card, cmd, arg, faults, MaxFaults),
           card' = x.card, faults' = x.faults, Accepts(card, cmd, arg)
    PROVE  /\ x.rsp.heard /\ card'.rejected = card.rejected
           /\ card'.state = card.state /\ card'.rca = card.rca
           /\ card'.app <=> cmd = AppCmd
<1>1. PICK h \in Effects(card, cmd, arg) : card' = h.card /\ x.rsp = h.rsp
  BY Obeyed
<1>2. card \in CardType
  BY DEF IInv, Typed, TypeOK
<1> QED BY <1>1, <1>2, AnswersKeepState DEF Answered

(* The first commands: the card is reset, asked for its interface          *)
(* conditions, which an old card does not know of, and for its operating   *)
(* conditions.                                                             *)
LEMMA NegotiationLegal ==
    ASSUME IInv, Legal, faults = 0, faults' = 0,
           GoIdleState \/ IfCond \/ OpCondApp \/ OpCond
    PROVE  Undisturbed'
<1> USE DEF Goto, Negotiating, Expected, DataCalls
<1>1. /\ card \in CardType /\ mmc \in MmcType
      /\ Undisturbed /\ faults \in 0 .. MaxFaults
      /\ pc \in {"goIdle"} \cup Negotiating => ~suspect /\ ~negotiated
  BY DEF IInv, Typed, TypeOK, Legal
<1>2. CASE GoIdleState
  <2>1. PICK x \in Exchanges(card, GoIdle, 0, faults, MaxFaults) :
           card' = x.card /\ faults' = x.faults /\ pc' = "ifCond"
    BY <1>2 DEF GoIdleState, Send
  <2>2. \E h \in Handle(card, GoIdle, 0) : card' = h.card
    BY <1>1, <2>1, Delivered
  <2>3. card' = Reset(card)
    BY <2>2 DEF Handle
  <2>4. card'.state = "idle" /\ ~card'.rejected /\ card'.rca = 0
    BY <2>3 DEF Reset, PoweredUp
  <2>5. ~negotiated' /\ ~suspect'
    BY <1>1, <1>2 DEF GoIdleState
  <2> QED BY <2>1, <2>4, <2>5 DEF Undisturbed
<1>3. CASE IfCond
  <2>1. PICK x \in Exchanges(card, SendIfCond, 0, faults, MaxFaults) :
           card' = x.card /\ faults' = x.faults
    BY <1>3 DEF IfCond, Send
  <2>2. card.state = "idle" /\ ~card.rejected /\ card.rca = 0
    BY <1>1, <1>3 DEF IfCond, Undisturbed
  <2>3. card'.state = "idle" /\ ~card'.rejected /\ card'.rca = 0
    <3>1. CASE Accepts(card, SendIfCond, 0)
      BY <2>1, <2>2, <3>1, ObeyedInState
    <3>2. CASE ~Accepts(card, SendIfCond, 0)
      <4>1. \E h \in Handle(card, SendIfCond, 0) : card' = h.card
        BY <1>1, <2>1, Delivered
      <4>2. card' = [card EXCEPT !.app = FALSE,
                                 !.rejected = @ \/ SendIfCond # SendIfCond]
        BY <3>2, <4>1 DEF Handle
      <4> QED BY <1>1, <2>2, <4>2 DEF CardType
    <3> QED BY <3>1, <3>2
  <2>4. ~negotiated' /\ ~suspect' /\ pc' = "opCondApp"
    BY <1>1, <1>3 DEF IfCond
  <2> QED BY <2>3, <2>4 DEF Undisturbed
<1>4. CASE OpCondApp
  <2>1. PICK x \in Exchanges(card, AppCmd, 0, faults, MaxFaults) :
           /\ card' = x.card /\ faults' = x.faults
           /\ x.rsp.heard => pc' = "opCond"
    BY <1>4 DEF OpCondApp, Send
  <2>2. card.state = "idle" /\ ~card.rejected /\ card.rca = 0
    BY <1>1, <1>4 DEF OpCondApp, Undisturbed
  <2>3. Accepts(card, AppCmd, 0)
    BY <2>2 DEF Accepts, LegalIn
  <2>4. /\ x.rsp.heard
        /\ card'.state = "idle" /\ ~card'.rejected /\ card'.rca = 0 /\ card'.app
    BY <2>1, <2>2, <2>3, ObeyedInState
  <2>5. ~negotiated' /\ ~suspect'
    BY <1>1, <1>4 DEF OpCondApp
  <2> QED BY <2>1, <2>4, <2>5 DEF Undisturbed
<1>5. CASE OpCond
  <2> DEFINE arg == IF mmc.version = "sd2" THEN 1 ELSE 0
  <2>1. PICK x \in Exchanges(card, AppSendOpCond, arg, faults, MaxFaults) :
           /\ card' = x.card /\ faults' = x.faults
           /\ \/ /\ x.rsp.heard /\ x.rsp.busy
                 /\ pc' = "opCondApp" /\ UNCHANGED <<mmc, negotiated>>
              \/ /\ x.rsp.heard /\ ~x.rsp.busy
                 /\ mmc' = [mmc EXCEPT
                              !.version = IF @ = "sd2" THEN @ ELSE "sd10",
                              !.hc = x.rsp.ccs, !.rca = 0]
                 /\ pc' = "allSendCid"
              \/ pc' = "allSendCid" /\ UNCHANGED <<mmc, negotiated>>
    BY <1>5 DEF OpCond, Send
  <2> HIDE DEF arg
  <2>2. /\ card.state = "idle" /\ ~card.rejected /\ card.rca = 0 /\ card.app
        /\ ~suspect' /\ ~negotiated
    BY <1>1, <1>5 DEF OpCond, Undisturbed
  <2>3. Accepts(card, AppSendOpCond, arg)
    BY <2>2 DEF Accepts, LegalIn
  <2>4. PICK h \in Effects(card, AppSendOpCond, arg) : card' = h.card /\ x.rsp = h.rsp
    BY <2>1, <2>3, Obeyed
  <2>5. /\ ~card'.rejected /\ card'.rca = 0
        /\ x.rsp.busy => card'.state = "idle"
        /\ ~x.rsp.busy => card'.state = "ready"
    BY <1>1, <2>2, <2>4, AnswersOpCond DEF Answered
  <2>6. CASE /\ x.rsp.heard /\ x.rsp.busy
             /\ pc' = "opCondApp" /\ UNCHANGED <<mmc, negotiated>>
    BY <2>2, <2>5, <2>6 DEF Undisturbed
  <2>7. CASE /\ x.rsp.heard /\ ~x.rsp.busy
             /\ mmc' = [mmc EXCEPT
                              !.version = IF @ = "sd2" THEN @ ELSE "sd10",
                              !.hc = x.rsp.ccs, !.rca = 0]
             /\ pc' = "allSendCid"
    <3>1. SdKnown'
      BY <1>1, <2>7 DEF SdKnown, MmcType
    <3> QED BY <2>2, <2>5, <2>7, <3>1 DEF Undisturbed
  <2>8. CASE pc' = "allSendCid" /\ UNCHANGED <<mmc, negotiated>>
    BY <2>2, <2>5, <2>8 DEF Undisturbed
  <2> QED BY <2>1, <2>6, <2>7, <2>8
<1> QED BY <1>2, <1>3, <1>4, <1>5

(* The commands by which the card is identified, in the order of its       *)
(* states: each is sent under the address it has.                          *)
LEMMA IdentificationLegal ==
    ASSUME IInv, Legal, faults = 0, faults' = 0,
           Identify \/ RelAddr \/ Csd \/ Status \/ Select
    PROVE  Undisturbed'
<1> USE DEF Goto, Return, Negotiating
<1>1. /\ card \in CardType /\ mmc \in MmcType /\ Undisturbed
      /\ pc \in {"allSendCid", "relAddr", "csd", "status", "select"}
      /\ UNCHANGED <<suspect, negotiated>>
  BY DEF IInv, Typed, TypeOK, Legal, Identify, RelAddr, Csd, Status, Select, Startup
<1>2. pc' \in {"relAddr", "csd", "status", "select", "scrApp", "caller"}
  BY <1>1 DEF Identify, RelAddr, Csd, Status, Select, Startup, Send, FailInit
<1>3. /\ ~suspect' /\ ~suspect
      /\ negotiated => ~card.rejected /\ SdKnown
      /\ negotiated' = negotiated
  BY <1>1 DEF Undisturbed
<1>4. CASE card.rejected
  <2>1. pc = "status" /\ ~csdHeard /\ ~negotiated' /\ ~mmc.hasInit
    BY <1>1, <1>3, <1>4 DEF Undisturbed
  <2>2. Status
    BY <2>1 DEF Identify, RelAddr, Csd, Select, Startup
  <2>3. PICK x \in Exchanges(card, SendStatus, mmc.rca, faults, MaxFaults) :
           card' = x.card /\ faults' = x.faults
    BY <2>2 DEF Status, Send
  <2>4. card'.rejected
    <3>1. CASE Accepts(card, SendStatus, mmc.rca)
      BY <1>4, <2>3, <3>1, ObeyedInState
    <3>2. CASE ~Accepts(card, SendStatus, mmc.rca)
      <4>1. SendStatus \notin {GoIdle, SendIfCond}
        BY DEF SendStatus, GoIdle, SendIfCond
      <4> QED BY <2>3, <3>2, <4>1, Refused
    <3> QED BY <3>1, <3>2
  <2>5. /\ UNCHANGED csdHeard
        /\ UNCHANGED <<pc, mmc>> \/ FailInit
    BY <2>1, <2>2 DEF Status, Send
  <2>6. pc' \in {"status", "caller"} /\ ~mmc'.hasInit
    BY <1>1, <2>1, <2>5 DEF FailInit, MmcType
  <2> QED BY <1>3, <2>1, <2>4, <2>5, <2>6 DEF Undisturbed
<1>5. SUFFICES ASSUME ~card.rejected PROVE Undisturbed'
  BY <1>4
<1>6. Expected
  BY <1>1, <1>5 DEF Undisturbed
<1>7. CASE Identify
  <2>1. PICK x \in Exchanges(card, AllSendCid, 0, faults, MaxFaults) :
           /\ card' = x.card /\ faults' = x.faults
           /\ x.rsp.heard => pc' = "relAddr" /\ UNCHANGED mmc
           /\ ~x.rsp.heard => FailInit
    BY <1>7 DEF Identify, Startup, Send, FailInit
  <2>2. pc = "allSendCid"
    BY <1>7 DEF Identify, Startup
  <2>3. CASE Accepts(card, AllSendCid, 0)
    <3>1. card'.state = "ident" /\ ~card'.rejected /\ x.rsp.heard
      BY <1>1, <1>5, <2>1, <2>3, Obeyed, AnswersMoveOn DEF Answered
    <3> QED BY <1>3, <2>1, <3>1 DEF Undisturbed, Expected, SdKnown, DataCalls
  <2>4. CASE ~Accepts(card, AllSendCid, 0)
    <3>1. ~negotiated'
      BY <1>1, <1>3, <2>2, <2>4 DEF Undisturbed, Accepts, LegalIn, AllSendCid,
         SendIfCond, AppSendOpCond, AppCmd, SendCsd, SelectCard, SendStatus, AppSendScr
    <3>2. AllSendCid \notin {GoIdle, SendIfCond}
      BY DEF AllSendCid, GoIdle, SendIfCond
    <3>3. card'.rejected /\ ~x.rsp.heard
      BY <2>1, <2>4, <3>2, Refused
    <3>4. pc' = "caller" /\ ~mmc'.hasInit
      BY <1>1, <2>1, <3>3 DEF FailInit, MmcType
    <3> QED BY <1>3, <3>1, <3>3, <3>4 DEF Undisturbed
  <2> QED BY <2>3, <2>4
<1>8. CASE RelAddr
  <2>1. PICK x \in Exchanges(card, SendRelativeAddr, mmc.rca, faults, MaxFaults) :
           /\ card' = x.card /\ faults' = x.faults
           /\ x.rsp.heard =>
                /\ pc' = "csd"
                /\ mmc' = [mmc EXCEPT !.rca = IF SdKnown THEN x.rsp.rca ELSE @]
    BY <1>8 DEF RelAddr, Send, FailInit
  <2>2. Accepts(card, SendRelativeAddr, mmc.rca)
    BY <1>6, <1>8 DEF Accepts, LegalIn, Expected, RelAddr
  <2>3. PICK h \in Effects(card, SendRelativeAddr, mmc.rca) : card' = h.card /\ x.rsp = h.rsp
    BY <2>1, <2>2, Obeyed
  <2>4. /\ card'.state = "stby" /\ ~card'.rejected /\ x.rsp.heard
        /\ card'.rca = x.rsp.rca
    BY <1>1, <1>5, <2>3, AnswersMoveOn DEF Answered
  <2>5. /\ pc' = "csd" /\ (SdKnown' <=> SdKnown)
        /\ SdKnown => mmc'.rca = x.rsp.rca
    BY <1>1, <2>1, <2>4 DEF MmcType, SdKnown
  <2> QED BY <1>3, <2>4, <2>5 DEF Undisturbed, Expected, DataCalls
<1>9. CASE Csd
  <2>1. PICK x \in Exchanges(card, SendCsd, mmc.rca, faults, MaxFaults) :
           card' = x.card /\ faults' = x.faults /\ csdHeard' = x.rsp.heard
    BY <1>9 DEF Csd, Send
  <2>2. /\ card.state = "stby" /\ (SdKnown => card.rca = mmc.rca)
        /\ pc = "csd" /\ pc' = "status" /\ UNCHANGED mmc
    BY <1>6, <1>9 DEF Expected, Csd
  <2>3. Accepts(card, SendCsd, mmc.rca) <=> card.rca = mmc.rca
    BY <2>2 DEF Accepts, LegalIn, SendCsd, AllSendCid, SendRelativeAddr, SelectCard,
       SendIfCond, AppSendOpCond, AppCmd, SendStatus, AppSendScr
  <2>4. CASE card.rca = mmc.rca
    <3>1. card'.state = "stby" /\ card'.rca = mmc.rca /\ ~card'.rejected
      BY <1>5, <2>1, <2>2, <2>3, <2>4, ObeyedInState
    <3> QED BY <1>3, <2>2, <3>1 DEF Undisturbed, Expected, SdKnown, DataCalls
  <2>5. CASE card.rca # mmc.rca
    <3>1. SendCsd \notin {GoIdle, SendIfCond}
      BY DEF SendCsd, GoIdle, SendIfCond
    <3>2. card'.rejected /\ ~csdHeard'
      BY <2>1, <2>3, <2>5, <3>1, Refused
    <3>3. ~mmc'.hasInit
      BY <2>2 DEF IInv, Agreed, InitCalls
    <3> QED BY <1>3, <2>2, <2>5, <3>2, <3>3 DEF Undisturbed
  <2> QED BY <2>4, <2>5
<1>10. CASE Status
  <2>1. PICK x \in Exchanges(card, SendStatus, mmc.rca, faults, MaxFaults) :
           card' = x.card /\ faults' = x.faults
    BY <1>10 DEF Status, Send
  <2>2. card.state = "stby" /\ card.rca = mmc.rca
    BY <1>6, <1>10 DEF Expected, Status
  <2>3. Accepts(card, SendStatus, mmc.rca)
    BY <2>2 DEF Accepts, LegalIn
  <2>4. card'.state = "stby" /\ card'.rca = mmc.rca /\ ~card'.rejected
    BY <1>5, <2>1, <2>2, <2>3, ObeyedInState
  <2>5. /\ mmc'.rca = mmc.rca /\ (SdKnown' <=> SdKnown)
        /\ pc' \in {"status", "select"} \/ (pc' = "caller" /\ ~mmc'.hasInit)
    <3>1. \/ pc = "status" /\ UNCHANGED <<pc, mmc>>
          \/ /\ \E n \in Capacities : mmc' = [mmc EXCEPT !.capacity = n]
             /\ pc' = "select"
          \/ FailInit
      BY <1>10 DEF Status, Send
    <3> QED BY <1>1, <3>1 DEF FailInit, MmcType, SdKnown
  <2> QED BY <1>3, <2>4, <2>5 DEF Undisturbed, Expected, DataCalls
<1>11. CASE Select
  <2>1. PICK x \in Exchanges(card, SelectCard, mmc.rca, faults, MaxFaults) :
           /\ card' = x.card /\ faults' = x.faults
           /\ x.rsp.heard => pc' = "scrApp" /\ UNCHANGED mmc
    BY <1>11 DEF Select, Startup, Send, FailInit
  <2>2. Accepts(card, SelectCard, mmc.rca)
    BY <1>6, <1>11 DEF Accepts, LegalIn, Expected, Select, Startup
  <2>3. card'.state = "tran" /\ ~card'.rejected /\ x.rsp.heard
    BY <1>1, <1>5, <2>1, <2>2, Obeyed, AnswersMoveOn DEF Answered
  <2> QED BY <1>3, <2>1, <2>3 DEF Undisturbed, Expected, SdKnown, DataCalls
<1> QED BY <1>7, <1>8, <1>9, <1>10, <1>11

(* The commands of the initialisation that come after the card has been    *)
(* selected, and their data.                                               *)
LEMMA SelectedLegal ==
    ASSUME IInv, Engine, Legal, faults = 0, faults' = 0,
           \/ ScrApp \/ Scr \/ ScrData \/ Switch \/ SwitchData
           \/ WidthApp \/ Width
    PROVE  Undisturbed'
<1> USE DEF Goto, Return, Negotiating, DataCalls
<1>1. /\ card \in CardType /\ mmc \in MmcType /\ ctl \in ControllerType
      /\ suspect \in BOOLEAN /\ Undisturbed
      /\ {"scr", "func"} \subseteq Payloads
  BY DEF IInv, Typed, TypeOK, Legal, Payloads
<1>2. /\ pc \in SelectedCalls /\ UNCHANGED negotiated
      /\ pc' \in SelectedCalls \cup {"caller"}
  BY DEF ScrApp, Scr, ScrData, Switch, SwitchData, WidthApp, Width, Startup,
     SendWithData, Send, FinishData, FinishStartup, RetryScr, FailInit,
     SelectedCalls
<1>3. ~card.rejected
  BY <1>1, <1>2 DEF Undisturbed, SelectedCalls
<1>4. ~suspect /\ Expected /\ (negotiated => SdKnown)
  BY <1>1, <1>3 DEF Undisturbed
<1>5. card.rca = mmc.rca /\ Sane(card)
  BY <1>2 DEF IInv, Agreed
<1>6. ASSUME ~card'.rejected, ~suspect', Expected', SdKnown => SdKnown'
      PROVE  Undisturbed'
  BY <1>2, <1>4, <1>6 DEF Undisturbed, SelectedCalls
<1>7. CASE ScrApp
  <2>1. PICK x \in Exchanges(card, AppCmd, mmc.rca, faults, MaxFaults) :
           /\ card' = x.card /\ faults' = x.faults
           /\ x.rsp.heard => pc' = "scr" /\ UNCHANGED mmc
    BY <1>7 DEF ScrApp, Startup, Send, FailInit
  <2>2. card.state = "tran" /\ UNCHANGED suspect
    BY <1>4, <1>7 DEF Expected, ScrApp, Startup
  <2>3. Accepts(card, AppCmd, mmc.rca)
    BY <1>5, <2>2 DEF Accepts, LegalIn
  <2>4. card'.state = "tran" /\ ~card'.rejected /\ card'.app /\ x.rsp.heard
    BY <1>3, <2>1, <2>2, <2>3, ObeyedInState
  <2> QED BY <1>4, <1>6, <2>1, <2>2, <2>4 DEF Expected, SdKnown
<1>8. CASE Scr
  <2>1. PICK x \in Exchanges(card, AppSendScr, 0, faults, MaxFaults) :
           /\ card' = x.card /\ faults' = x.faults
           /\ ctl' = Arm(ctl, "scr", 1, 0)
           /\ suspect' = (suspect \/ ~x.rsp.heard)
           /\ x.rsp.heard => pc' = "scrData" /\ UNCHANGED mmc
    BY <1>8 DEF Scr, SendWithData, Send
  <2>2. card.state = "tran" /\ card.app
    BY <1>4, <1>8 DEF Expected, Scr
  <2>3. Accepts(card, AppSendScr, 0)
    BY <2>2 DEF Accepts, LegalIn
  <2>4. PICK h \in Effects(card, AppSendScr, 0) : card' = h.card /\ x.rsp = h.rsp
    BY <2>1, <2>3, Obeyed
  <2>5. /\ ~card'.rejected /\ x.rsp.heard
        /\ card'.stream = OnePayload("scr")
    BY <1>1, <1>3, <2>4, AnswersScr DEF Answered
  <2>6. Quiet(ctl)
    BY <1>4, <1>8 DEF Engine, Quiet, Scr
  <2>7. ctl'.engine = Transfer("scr", 1, 0) /\ ctl'.status = "none"
    BY <1>1, <2>1, <2>6, EngineArmed
  <2>8. StreamExpected'
    BY <2>1, <2>5, <2>7 DEF StreamExpected, OnePayload, Transfer
  <2> QED BY <1>4, <1>6, <2>1, <2>5, <2>8 DEF Expected, SdKnown
<1>9. CASE Switch
  <2>1. PICK x \in Exchanges(card, SwitchFunc, 0, faults, MaxFaults) :
           /\ card' = x.card /\ faults' = x.faults
           /\ ctl' = Arm(ctl, "func", 1, 0)
           /\ suspect' = (suspect \/ ~x.rsp.heard)
           /\ x.rsp.heard => pc' = "switchData" /\ UNCHANGED mmc
    BY <1>9 DEF Switch, SendWithData, Send
  <2>2. card.state = "tran" /\ ~card.app
    BY <1>4, <1>9 DEF Expected, Switch, IInv, Agreed
  <2>3. Accepts(card, SwitchFunc, 0)
    BY <2>2 DEF Accepts, LegalIn
  <2>4. PICK h \in Effects(card, SwitchFunc, 0) : card' = h.card /\ x.rsp = h.rsp
    BY <2>1, <2>3, Obeyed
  <2>5. /\ ~card'.rejected /\ x.rsp.heard
        /\ card'.stream = OnePayload("func")
    BY <1>1, <1>3, <2>2, <2>4, AnswersSwitch DEF Answered
  <2>6. Quiet(ctl)
    BY <1>4, <1>9 DEF Engine, Quiet, Switch
  <2>7. ctl'.engine = Transfer("func", 1, 0) /\ ctl'.status = "none"
    BY <1>1, <2>1, <2>6, EngineArmed
  <2>8. StreamExpected'
    BY <2>1, <2>5, <2>7 DEF StreamExpected, OnePayload, Transfer
  <2> QED BY <1>4, <1>6, <2>1, <2>5, <2>8 DEF Expected, SdKnown
<1>10. CASE WidthApp
  <2>1. PICK x \in Exchanges(card, AppCmd, mmc.rca, faults, MaxFaults) :
           /\ card' = x.card /\ faults' = x.faults
           /\ x.rsp.heard => pc' = "width" /\ UNCHANGED mmc
    BY <1>10 DEF WidthApp, Startup, Send, FailInit
  <2>2. card.state = "tran" /\ UNCHANGED suspect
    BY <1>4, <1>10 DEF Expected, WidthApp, Startup
  <2>3. Accepts(card, AppCmd, mmc.rca)
    BY <1>5, <2>2 DEF Accepts, LegalIn
  <2>4. card'.state = "tran" /\ ~card'.rejected /\ card'.app /\ x.rsp.heard
    BY <1>3, <2>1, <2>2, <2>3, ObeyedInState
  <2> QED BY <1>4, <1>6, <2>1, <2>2, <2>4 DEF Expected, SdKnown
<1>11. CASE Width
  <2> DEFINE m == [mmc EXCEPT !.width = 4]
  <2>1. PICK x \in Exchanges(card, AppSetBusWidth, 2, faults, MaxFaults) :
           /\ card' = x.card /\ faults' = x.faults
           /\ x.rsp.heard => FinishStartup(ctl, m)
    BY <1>11 DEF Width, Send
  <2>2. card.state = "tran" /\ card.app
    BY <1>4, <1>11 DEF Expected, Width, IInv, Agreed
  <2>3. Accepts(card, AppSetBusWidth, 2)
    BY <2>2 DEF Accepts, LegalIn
  <2>4. PICK h \in Effects(card, AppSetBusWidth, 2) : card' = h.card /\ x.rsp = h.rsp
    BY <2>1, <2>3, Obeyed
  <2>5. card'.state = "tran" /\ ~card'.rejected /\ x.rsp.heard
    BY <1>1, <1>3, <2>2, <2>4, AnswersWidth DEF Answered
  <2>6. pc' = "caller" /\ suspect' = FALSE /\ (SdKnown' <=> SdKnown)
    BY <1>1, <2>1, <2>5 DEF FinishStartup, SdKnown, MmcType
  <2> QED BY <1>4, <1>6, <2>5, <2>6 DEF Expected
<1>12. CASE ScrData \/ SwitchData
  <2>1. /\ pc \in {"scrData", "switchData"} /\ card' = card /\ TransferOver
    BY <1>12 DEF ScrData, SwitchData, FinishData
  <2>2. ctl.status = "done" /\ card.state = "tran"
    <3>1. ctl.status # "error" /\ ctl.status \in Statuses
      BY <1>1, <1>4, <2>1 DEF Expected, StreamExpected, ControllerType
    <3>2. ctl.status = "done"
      BY <2>1, <3>1 DEF Statuses
    <3> QED BY <1>4, <2>1, <3>2 DEF Expected, StreamExpected
  <2>3. /\ pc' \in {"switch", "widthApp", "caller"}
        /\ suspect' = suspect \/ suspect' = FALSE
    BY <1>12, <2>2 DEF ScrData, SwitchData, FinishData, FinishStartup
  <2>4. SdKnown => SdKnown'
    <3>1. CASE ScrData
      <4> DEFINE m == [mmc EXCEPT !.version = ScrVersion[card.kind.spec],
                                  !.four = card.kind.four]
      <4>1. mmc' = m \/ mmc' = [m EXCEPT !.hasInit = TRUE]
        BY <2>2, <3>1 DEF ScrData, FinishData, FinishStartup
      <4>2. card.kind.spec \in 0 .. 2
        BY <1>1 DEF CardType, Kinds
      <4>3. ScrVersion[card.kind.spec] # "unknown"
        BY <4>2 DEF ScrVersion
      <4>4. mmc'.version = ScrVersion[card.kind.spec]
        BY <1>1, <4>1 DEF MmcType
      <4> QED BY <4>3, <4>4 DEF SdKnown
    <3>2. CASE SwitchData
      <4>1. mmc' = mmc \/ mmc' = [mmc EXCEPT !.hasInit = TRUE]
        BY <2>2, <3>2 DEF SwitchData, FinishData, FinishStartup
      <4> QED BY <1>1, <4>1 DEF SdKnown, MmcType
    <3> QED BY <1>12, <3>1, <3>2
  <2> QED BY <1>3, <1>4, <1>6, <2>1, <2>2, <2>3, <2>4 DEF Expected
<1> QED BY <1>7, <1>8, <1>9, <1>10, <1>11, <1>12

(* The commands of a read: an initialised card is idle in the transfer     *)
(* state between them, and sends until it is stopped.                      *)
LEMMA ReadsLegal ==
    ASSUME IInv, Inside, Engine, Legal, faults = 0, faults' = 0,
           CallRead \/ BlockLength \/ ReadBlocks \/ ReadData \/ Stop
    PROVE  Undisturbed'
<1> USE DEF Goto, Return, Negotiating, DataCalls
<1>1. /\ card \in CardType /\ ctl \in ControllerType
      /\ suspect \in BOOLEAN /\ Undisturbed
      /\ "block" \in Payloads
  BY DEF IInv, Typed, TypeOK, Legal, Payloads
<1>2. /\ UNCHANGED <<mmc, negotiated>>
      /\ pc' \in ReadCalls \cup {"caller"}
  BY DEF CallRead, BlockLength, ReadBlocks, ReadData, Stop, SendWithData, Send,
     FinishData, NextChunk, ReadCalls
<1>3. ~card.rejected
  BY <1>1 DEF Undisturbed, CallRead, BlockLength, ReadBlocks, ReadData, Stop
<1>4. ~suspect /\ Expected /\ (negotiated => SdKnown)
  BY <1>1, <1>3 DEF Undisturbed
<1>5. SdKnown' <=> SdKnown
  BY <1>2 DEF SdKnown
<1>6. ASSUME ~card'.rejected, ~suspect', Expected'
      PROVE  Undisturbed'
  BY <1>2, <1>4, <1>5, <1>6 DEF Undisturbed, ReadCalls
<1>7. CASE CallRead
  <2>1. pc = "caller" /\ mmc.hasInit /\ UNCHANGED <<card, suspect>>
    BY <1>7 DEF CallRead
  <2>2. pc' \in {"setBlockLen", "caller"}
    BY <1>7 DEF CallRead
  <2> QED BY <1>3, <1>4, <1>6, <2>1, <2>2 DEF Expected
<1>8. CASE BlockLength
  <2>1. PICK x \in Exchanges(card, SetBlockLen, BlockLen, faults, MaxFaults) :
           /\ card' = x.card /\ faults' = x.faults
           /\ pc' \in {"read", "caller"}
    BY <1>8 DEF BlockLength, Send
  <2>2. card.state = "tran" /\ UNCHANGED suspect
    BY <1>4, <1>8 DEF Expected, BlockLength
  <2>3. Accepts(card, SetBlockLen, BlockLen)
    BY <2>2 DEF Accepts, LegalIn
  <2>4. card'.state = "tran" /\ ~card'.rejected
    BY <1>3, <2>1, <2>2, <2>3, ObeyedInState
  <2> QED BY <1>4, <1>6, <2>1, <2>2, <2>4 DEF Expected
<1>9. CASE ReadBlocks
  <2> DEFINE cmd == IF Chunk > 1 THEN ReadMultiple ELSE ReadSingle
  <2>1. PICK x \in Exchanges(card, cmd, Address, faults, MaxFaults) :
           /\ card' = x.card /\ faults' = x.faults
           /\ ctl' = Arm(ctl, "block", Chunk, Got)
           /\ suspect' = (suspect \/ ~x.rsp.heard)
           /\ x.rsp.heard => pc' = "readData"
    BY <1>9 DEF ReadBlocks, SendWithData, Send, Address, Got
  <2>2. /\ cmd \in {ReadSingle, ReadMultiple}
        /\ cmd = ReadMultiple <=> Chunk > 1
    OBVIOUS
  <2> HIDE DEF cmd
  <2>3. card.state = "tran" /\ pc \in ReadCalls /\ UNCHANGED req
    BY <1>4, <1>9 DEF Expected, ReadBlocks, ReadCalls
  <2>4. Accepts(card, cmd, Address)
    BY <2>2, <2>3 DEF Accepts, LegalIn
  <2>5. PICK h \in Effects(card, cmd, Address) : card' = h.card /\ x.rsp = h.rsp
    BY <2>1, <2>2, <2>4, Obeyed
  <2>6. /\ ~card'.rejected /\ x.rsp.heard
        /\ \/ card'.stream = Streaming("block", Addressed(card, Address),
                                      cmd = ReadMultiple)
           \/ card'.stream = card.stream
    BY <1>1, <1>3, <2>2, <2>5, AnswersRead DEF Answered
  <2>7. card.stream = NoStream
    BY <2>3 DEF IInv, Agreed, Sane
  <2>8. Quiet(ctl)
    BY <1>4, <1>9 DEF Engine, Quiet, ReadBlocks
  <2>9. ctl'.engine = Transfer("block", Chunk, Got) /\ ctl'.status = "none"
    BY <1>1, <2>1, <2>8, EngineArmed
  <2>10. pc' = "readData" /\ ~suspect' /\ Chunk' = Chunk
    BY <1>1, <1>4, <2>1, <2>3, <2>6 DEF Chunk
  <2>11. Chunk \in Nat \ {0}
    BY <2>3, ChunkBounds
  <2>12. StreamExpected'
    <3>1. CASE card'.stream = card.stream
      BY <2>7, <2>9, <3>1 DEF StreamExpected
    <3>2. CASE card'.stream = Streaming("block", Addressed(card, Address),
                                        cmd = ReadMultiple)
      <4>1. /\ card'.stream.what = "block"
            /\ card'.stream.multi <=> Chunk > 1
        <5>1. card'.stream.multi = (cmd = ReadMultiple)
          BY <3>2 DEF Streaming
        <5>2. card'.stream.what = "block"
          BY <3>2 DEF Streaming
        <5> QED BY <2>2, <5>1, <5>2
      <4>2. /\ ctl'.engine.what = "block" /\ ctl'.engine.left = Chunk
        BY <2>9 DEF Transfer
      <4> QED BY <2>9, <2>10, <2>11, <4>1, <4>2 DEF StreamExpected
    <3> QED BY <2>6, <3>1, <3>2
  <2> QED BY <1>4, <1>6, <2>6, <2>10, <2>12 DEF Expected
<1>10. CASE ReadData
  <2>1. pc = "readData" /\ UNCHANGED <<card, suspect>> /\ TransferOver
    BY <1>10 DEF ReadData, FinishData
  <2>2. StreamExpected
    BY <1>4, <2>1 DEF Expected
  <2>3. ctl.status = "done"
    BY <1>1, <2>1, <2>2 DEF StreamExpected, ControllerType, Statuses
  <2>4. \/ Chunk > 1 /\ pc' = "stop"
        \/ Chunk = 1 /\ pc' \in {"read", "caller"}
    BY <1>10, <2>3 DEF ReadData, FinishData, NextChunk
  <2>5. CASE Chunk > 1 /\ pc' = "stop"
    BY <1>3, <1>4, <1>6, <2>1, <2>2, <2>3, <2>5 DEF StreamExpected, Expected
  <2>6. CASE Chunk = 1 /\ pc' \in {"read", "caller"}
    BY <1>3, <1>4, <1>6, <2>1, <2>2, <2>3, <2>6 DEF StreamExpected, Expected
  <2> QED BY <2>4, <2>5, <2>6
<1>11. CASE Stop
  <2>1. PICK x \in Exchanges(card, StopTransmission, 0, faults, MaxFaults) :
           card' = x.card /\ faults' = x.faults
    BY <1>11 DEF Stop, Send
  <2>2. card.state = "data" /\ UNCHANGED suspect
    BY <1>4, <1>11 DEF Expected, Stop
  <2>3. Accepts(card, StopTransmission, 0)
    BY <2>2 DEF Accepts, LegalIn
  <2>4. card'.state = "tran" /\ ~card'.rejected
    BY <1>1, <1>3, <2>1, <2>3, Obeyed, AnswersMoveOn DEF Answered
  <2>5. pc' \in {"read", "caller"}
    BY <1>11 DEF Stop, Send, NextChunk
  <2> QED BY <1>4, <1>6, <2>2, <2>4, <2>5 DEF Expected
<1> QED BY <1>7, <1>8, <1>9, <1>10, <1>11

(* What the card sends is what the engine waits for.                       *)
LEMMA SendingLegal ==
    ASSUME IInv, Inside, Engine, Legal, faults = 0, faults' = 0, CardSends
    PROVE  Undisturbed'
<1> USE DEF Negotiating, DataCalls
<1>1. /\ card \in CardType /\ ctl \in ControllerType /\ Undisturbed /\ Sane(card)
  BY DEF IInv, Typed, TypeOK, Legal, Agreed
<1>2. /\ card.stream # NoStream /\ card' = AfterBlock(card)
      /\ UNCHANGED <<pc, mmc, req, csdHeard, negotiated, suspect>>
      /\ ctl' = Receive(ctl, card, TRUE)
  <2>1. PICK intact \in BOOLEAN :
           /\ faults' = IF intact THEN faults ELSE faults + 1
           /\ ctl' = Receive(ctl, card, intact)
    BY DEF CardSends
  <2>2. intact = TRUE
    BY <2>1
  <2> QED BY <2>1, <2>2 DEF CardSends, CanSend
<1>3. card.state = "data"
  BY <1>1, <1>2 DEF Sane
<1>4. pc \notin Negotiating
  BY <1>1, <1>3 DEF Undisturbed
<1>5. /\ card'.rejected = card.rejected /\ (SdKnown' <=> SdKnown) /\ Chunk' = Chunk
      /\ card.stream.multi => /\ card'.state = card.state
                              /\ card'.stream.multi
                              /\ card'.stream.what = card.stream.what
      /\ ~card.stream.multi => card'.state = "tran" /\ card'.stream = NoStream
  <2>1. card.stream \in [what : Payloads, block : Nat, multi : BOOLEAN]
    BY <1>1, <1>2 DEF CardType, Streams
  <2>2. CASE card.stream.multi
    <3>1. card' = [card EXCEPT !.stream = [card.stream EXCEPT !.block = @ + 1]]
      BY <1>1, <1>2, <2>2 DEF AfterBlock, CardType
    <3> QED BY <1>1, <1>2, <2>1, <2>2, <3>1 DEF CardType, SdKnown, Chunk
  <2>3. CASE ~card.stream.multi
    <3>1. card' = [card EXCEPT !.state = "tran", !.stream = NoStream]
      BY <1>2, <2>3 DEF AfterBlock
    <3> QED BY <1>1, <1>2, <2>3, <3>1 DEF CardType, SdKnown, Chunk
  <2> QED BY <2>2, <2>3
<1>6. CASE card.rejected
  BY <1>1, <1>2, <1>5, <1>6 DEF Undisturbed
<1>7. SUFFICES ASSUME ~card.rejected PROVE Undisturbed'
  BY <1>6
<1>8. ~suspect /\ Expected
  BY <1>1, <1>7 DEF Undisturbed
<1>9. ASSUME Expected' PROVE Undisturbed'
  BY <1>1, <1>2, <1>3, <1>4, <1>5, <1>7, <1>9 DEF Undisturbed
<1>10. CASE pc \notin DataCalls
  <2>1. /\ pc \notin {"relAddr", "csd", "status", "select",
                       "scrApp", "scr", "switch", "widthApp", "width",
                       "setBlockLen", "read"}
        /\ ~(pc = "caller" /\ mmc.hasInit)
    BY <1>3, <1>8 DEF Expected
  <2>2. pc = "stop" => card'.state = "data" /\ card'.stream.multi
    BY <1>2, <1>3, <1>8, <1>5 DEF Expected
  <2>3. Expected'
    BY <1>2, <1>10, <2>1, <2>2 DEF Expected
  <2> QED BY <1>9, <2>3
<1>11. CASE pc \in DataCalls
  <2>1. StreamExpected
    BY <1>8, <1>11 DEF Expected
  <2>2. StreamExpected'
    <3>1. CASE ctl.engine = Idle
      <4>1. ctl' = ctl
        BY <1>1, <1>2, <3>1, EngineReceives
      <4> QED BY <1>2, <1>3, <1>5, <2>1, <3>1, <4>1 DEF StreamExpected
    <3>2. CASE ctl.engine # Idle
      <4>1. ctl.status = "none"
        BY <1>8, <1>11, <3>2 DEF Engine
      <4>2. Fits(ctl, card)
        <5>1. ctl.width = card.width
          BY <1>11 DEF IInv, Agreed, InitMeansTransfer, InitCalls, SelectedCalls,
             Inside, ReadCalls
        <5> QED BY <1>2, <2>1, <3>2, <5>1 DEF Fits, StreamExpected
      <4>3. CASE ctl'.engine = Idle /\ ctl'.status = "done" /\ ctl.engine.left = 1
        BY <1>2, <1>3, <1>5, <2>1, <3>2, <4>3 DEF StreamExpected
      <4>4. CASE /\ ctl'.engine = [ctl.engine EXCEPT !.left = @ - 1, !.to = @ + 1]
                 /\ ctl'.status = "none" /\ ctl.engine.left # 1
        <5>1. card.stream.multi /\ ctl.engine.what = card.stream.what
          BY <1>2, <2>1, <3>2, <4>4 DEF StreamExpected
        <5>2. ctl'.engine.what = ctl.engine.what
          BY <1>1, <3>2, <4>4 DEF ControllerType, Engines
        <5> QED BY <1>2, <1>5, <2>1, <3>2, <4>4, <5>1, <5>2 DEF StreamExpected
      <4> QED BY <1>1, <1>2, <3>2, <4>1, <4>2, <4>3, <4>4, EngineReceives
    <3> QED BY <3>1, <3>2
  <2> QED BY <1>2, <1>9, <1>11, <2>2 DEF Expected
<1> QED BY <1>10, <1>11

(* Every step keeps the card where the driver expects it.                 *)
LEMMA LegalStep ==
    ASSUME IInv, Inside, Engine, Legal, Next PROVE Legal'
<1>1. pc' \in {"goIdle"} \cup Negotiating => ~suspect' /\ ~negotiated'
  BY EarlyStep
<1>2. SUFFICES ASSUME faults' = 0 PROVE Undisturbed'
  BY <1>1 DEF Legal
<1>3. faults = 0
  BY <1>2, StillFaultless
<1>4. CASE CallInit
  <2>1. pc' = "goIdle" /\ ~negotiated' /\ ~suspect'
    BY <1>4 DEF CallInit, Goto
  <2>2. ~mmc'.hasInit
    BY <1>4 DEF CallInit, IInv, Typed, TypeOK, MmcType
  <2> QED BY <2>1, <2>2 DEF Undisturbed, Negotiating, Expected, DataCalls
<1>5. CASE CallRead \/ DriverStep
  BY <1>2, <1>3, <1>5, NegotiationLegal, IdentificationLegal, SelectedLegal,
     ReadsLegal DEF DriverStep
<1>6. CASE CardSends
  BY <1>2, <1>3, <1>6, SendingLegal
<1> QED BY <1>4, <1>5, <1>6 DEF Next

(* It does so in every reachable state.                                   *)
LEMMA LegalInvariance == Spec => []Legal
<1>1. Init => Legal
  <2>1. Init => /\ pc = "caller" /\ ~mmc.hasInit /\ ~negotiated /\ ~suspect
                /\ ~card.rejected
    BY DEF Init, PoweredUp
  <2> QED BY <2>1 DEF Legal, Undisturbed, Negotiating, Expected, DataCalls
<1>2. IInv /\ Inside /\ Engine /\ Legal /\ [Next]_vars => Legal'
  <2>1. ASSUME Legal, UNCHANGED vars PROVE Legal'
    BY <2>1 DEF vars, Legal, Undisturbed, Negotiating, Expected, StreamExpected,
       SdKnown, Chunk
  <2> QED BY <2>1, LegalStep
<1> QED BY <1>1, <1>2, ReadInvariance, PTL DEF Spec

(* As long as nothing is lost or damaged, the card rejects no command but  *)
(* those of an initialisation whose operating conditions were not agreed   *)
(* on, and that initialisation fails: the driver follows the states of the *)
(* card through mmc_startup and mmc_bread, for any card, whether or not it *)
(* was ready in time, any loop bounds and any number of calls.             *)
THEOREM CommandsAlwaysLegal == Spec => []CommandsLegal
<1>1. IInv /\ Legal => CommandsLegal
  <2>1. IInv => faults \in Nat
    BY Bounds DEF IInv, Typed, TypeOK
  <2> QED BY <2>1 DEF Legal, Undisturbed, CommandsLegal
<1> QED BY <1>1, Invariance, LegalInvariance, PTL
=============================================================================
