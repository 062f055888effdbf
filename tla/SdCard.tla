------------------------------- MODULE SdCard -------------------------------
(***************************************************************************)
(* An SD memory card as the driver in mmc.c addresses it: the states of    *)
(* the card, the commands each of them accepts, what the card answers and  *)
(* the data blocks it then sends.  The card is hardware outside this       *)
(* repository.  It is written as operators over a record, so that the      *)
(* module that owns the card can compose them with the SD bus.             *)
(***************************************************************************)
EXTENDS Integers

CONSTANTS BlockLen,     \* bytes of a block (512)
          CardRca       \* relative address the card publishes, never 0

ASSUME BlockLenAssumption == BlockLen \in Nat \ {0}
ASSUME CardRcaAssumption == CardRca \in Nat \ {0}

(* What a card is: its version as its configuration register gives it      *)
(* (1.0, 1.10 or 2), its capacity class, its bus and its size.             *)
Kinds == [spec : 0 .. 2, hc : BOOLEAN, four : BOOLEAN, blocks : Nat \ {0}]

CardStates == {"idle", "ready", "ident", "stby", "tran", "data"}

(* What a card sends on its data lines: its configuration register, the    *)
(* status of the switch function, or the blocks from "block" on, one of    *)
(* them or as many as the host takes.                                      *)
Payloads == {"scr", "func", "block"}
NoStream == [what |-> "none", block |-> 0, multi |-> FALSE]
Streams == {NoStream} \cup [what : Payloads, block : Nat, multi : BOOLEAN]

CardType ==
    [kind : Kinds, state : CardStates, ifCond : BOOLEAN, app : BOOLEAN,
     rca : {0, CardRca}, width : {1, 4}, stream : Streams,
     rejected : BOOLEAN]

PoweredUp(kind) ==
    [kind |-> kind, state |-> "idle", ifCond |-> FALSE, app |-> FALSE,
     rca |-> 0, width |-> 1, stream |-> NoStream,
     rejected |-> FALSE]

Reset(c) == PoweredUp(c.kind)

-----------------------------------------------------------------------------
(* The commands, by their index.                                           *)

GoIdle == 0
AllSendCid == 2
SendRelativeAddr == 3
SwitchFunc == 6
SelectCard == 7
SendIfCond == 8
SendCsd == 9
StopTransmission == 12
SendStatus == 13
SetBlockLen == 16
ReadSingle == 17
ReadMultiple == 18
AppSendOpCond == 41
AppSendScr == 51
AppCmd == 55
AppSetBusWidth == 6     \* the index of SwitchFunc, after AppCmd

LegalIn(cmd) ==
    CASE cmd \in {SendIfCond, AppSendOpCond} -> {"idle"}
      [] cmd = AllSendCid -> {"ready"}
      [] cmd = SendRelativeAddr -> {"ident", "stby"}
      [] cmd \in {SendCsd, SelectCard} -> {"stby"}
      [] cmd = SendStatus -> {"stby", "tran", "data"}
      [] cmd = AppCmd -> {"idle", "stby", "tran", "data"}
      [] cmd = StopTransmission -> {"data"}
      [] OTHER -> {"tran"}

(* A card answers only the commands legal in its state, and those with an  *)
(* address only if it is its own.  A version 1 card knows no SendIfCond.   *)
Accepts(c, cmd, arg) ==
    /\ c.state \in LegalIn(cmd)
    /\ cmd \in {AppCmd, SendCsd, SelectCard, SendStatus} => arg = c.rca
    /\ cmd \in {AppSendOpCond, AppSendScr} => c.app
    /\ cmd = SendIfCond => c.kind.spec = 2

Response(busy, ccs, rca) ==
    [heard |-> TRUE, busy |-> busy, ccs |-> ccs, rca |-> rca]
Ack == Response(FALSE, FALSE, 0)
NoResponse == [heard |-> FALSE, busy |-> FALSE, ccs |-> FALSE, rca |-> 0]

Sending(c, what, block, multi) ==
    [c EXCEPT !.state = "data",
              !.stream = [what |-> what, block |-> block, multi |-> multi]]

(* The block an address names: high capacity cards count blocks, the       *)
(* others bytes.                                                           *)
Addressed(c, arg) == IF c.kind.hc THEN arg ELSE arg \div BlockLen

Read(c, arg, multi) ==
    IF Addressed(c, arg) < c.kind.blocks
    THEN Sending(c, "block", Addressed(c, arg), multi)
    ELSE c

(* What a card that accepts the command may do: the card afterwards and    *)
(* its response.  A high capacity card is ready only for a host that asked *)
(* for its interface conditions and offers high capacity (arg # 0).        *)
Effects(c0, cmd, arg) ==
    LET c == [c0 EXCEPT !.app = FALSE]
        To(state) == {[card |-> [c EXCEPT !.state = state], rsp |-> Ack]}
        Send(what) == Sending(c, what, 0, FALSE)
    IN CASE cmd = SendIfCond ->
              {[card |-> [c EXCEPT !.ifCond = TRUE], rsp |-> Ack]}
         [] cmd = AppCmd ->
              {[card |-> [c EXCEPT !.app = TRUE], rsp |-> Ack]}
         [] cmd = AppSendOpCond ->
              {[card |-> c, rsp |-> Response(TRUE, FALSE, 0)]}
              \cup (IF c.kind.hc /\ ~(c.ifCond /\ arg # 0) THEN {}
                    ELSE {[card |-> [c EXCEPT !.state = "ready"],
                           rsp |-> Response(FALSE, c.kind.hc, 0)]})
         [] cmd = AllSendCid -> To("ident")
         [] cmd = SendRelativeAddr ->
              {[card |-> [c EXCEPT !.state = "stby", !.rca = CardRca],
                rsp |-> Response(FALSE, FALSE, CardRca)]}
         [] cmd = SendStatus ->
              {[card |-> c, rsp |-> Response(busy, FALSE, 0)] :
                  busy \in BOOLEAN}
         [] cmd = SelectCard -> To("tran")
         [] cmd = StopTransmission ->
              {[card |-> [c EXCEPT !.state = "tran", !.stream = NoStream],
                rsp |-> Ack]}
         [] cmd = AppSetBusWidth /\ c0.app ->
              {[card |-> [c EXCEPT !.width = 4], rsp |-> Ack]}
         [] cmd = SwitchFunc /\ ~c0.app ->
              {[card |-> Send("func"), rsp |-> Ack]}
         [] cmd = AppSendScr -> {[card |-> Send("scr"), rsp |-> Ack]}
         [] cmd \in {ReadSingle, ReadMultiple} ->
              {[card |-> Read(c, arg, cmd = ReadMultiple), rsp |-> Ack]}
         [] OTHER -> {[card |-> c, rsp |-> Ack]}

(* A command that reaches the card: GoIdle resets it without an answer; a  *)
(* command it does not accept gets none either.                            *)
Handle(c, cmd, arg) ==
    CASE cmd = GoIdle -> {[card |-> Reset(c), rsp |-> NoResponse]}
      [] cmd # GoIdle /\ Accepts(c, cmd, arg) -> Effects(c, cmd, arg)
      [] OTHER -> {[card |-> [c EXCEPT !.app = FALSE,
                                  !.rejected = @ \/ cmd # SendIfCond],
                    rsp |-> NoResponse]}

(* The card has something to send: a multiple read ends at the last block. *)
CanSend(c) == /\ c.stream # NoStream
              /\ c.stream.what = "block" => c.stream.block < c.kind.blocks

AfterBlock(c) ==
    IF c.stream.multi THEN [c EXCEPT !.stream.block = @ + 1]
    ELSE [c EXCEPT !.state = "tran", !.stream = NoStream]
=============================================================================
