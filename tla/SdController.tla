---------------------------- MODULE SdController ----------------------------
(***************************************************************************)
(* The SD card controller as its registers show it to ocsdc.c: one command *)
(* at a time on the command line, and beside it a data engine that is      *)
(* armed by a command with data and then runs on its own.                  *)
(*                                                                         *)
(* The engine belongs to the data lines only: it is armed when the command *)
(* starts, whether or not the card answers, stays armed until its blocks   *)
(* have come, and reports in a status register that only a write to it or  *)
(* a software reset clears.                                                *)
(***************************************************************************)
EXTENDS SdCard

Statuses == {"none", "done", "error"}

(* What the engine waits for: "left" payloads of a kind, to be written     *)
(* from slot "to" of the buffer on.                                        *)
Idle == [what |-> "none", left |-> 0, to |-> 0]
Engines == {Idle} \cup [what : Payloads, left : Nat \ {0}, to : Nat]

ControllerType == [width : {1, 4}, fast : BOOLEAN,
                   engine : Engines, status : Statuses]

PoweredUpController ==
    [width |-> 1, fast |-> FALSE, engine |-> Idle, status |-> "none"]

(* ocsdc_set_clock: the divider is written between a software reset of the *)
(* command and data engines and its release.                               *)
SetClock(ctl, fast) ==
    [ctl EXCEPT !.fast = fast, !.engine = Idle, !.status = "none"]

SetBusWidth(ctl, width) == [ctl EXCEPT !.width = width]

ClearDataStatus(ctl) == [ctl EXCEPT !.status = "none"]

(* ocsdc_setup_data_xfer and the start of the command: the address, the    *)
(* size and the count are taken by an idle engine only.                    *)
Arm(ctl, what, blocks, to) ==
    IF ctl.engine # Idle THEN ctl
    ELSE [ctl EXCEPT !.engine = [what |-> what, left |-> blocks, to |-> to]]

(* A payload on the data lines: an armed engine takes it if it has the     *)
(* size and the bus width the engine was set up for and its CRC is right;  *)
(* anything else ends the transfer with an error.  The status bits add up, *)
(* and the driver looks at the one for success first.                      *)
Fits(ctl, c) == ctl.engine.what = c.stream.what /\ ctl.width = c.width

Receive(ctl, c, intact) ==
    CASE ctl.engine = Idle -> ctl
      [] ctl.engine # Idle /\ ~(intact /\ Fits(ctl, c)) ->
           [ctl EXCEPT !.engine = Idle,
                       !.status = IF @ = "done" THEN @ ELSE "error"]
      [] ctl.engine # Idle /\ intact /\ Fits(ctl, c) /\ ctl.engine.left = 1 ->
           [ctl EXCEPT !.engine = Idle, !.status = "done"]
      [] OTHER -> [ctl EXCEPT !.engine.left = @ - 1, !.engine.to = @ + 1]

(* The words the engine hands to the memory while it receives: a payload   *)
(* with a wrong CRC has been written when the CRC is compared.             *)
Stored(ctl, c, intact, buf) ==
    IF ctl.engine.what # "block" \/ ctl.engine.to \notin DOMAIN buf THEN buf
    ELSE [buf EXCEPT ![ctl.engine.to] =
              IF intact /\ Fits(ctl, c) THEN c.stream.block ELSE -1]

(* One command on the command line: the card handles it and its response   *)
(* arrives, or the command or the response is lost (or fails its CRC or    *)
(* index check), which costs one of the faults left.                       *)
Exchanges(c, cmd, arg, faults, maxFaults) ==
    {[card |-> h.card, rsp |-> h.rsp, faults |-> faults] :
        h \in Handle(c, cmd, arg)}
    \cup
    (IF faults = maxFaults THEN {}
     ELSE {[card |-> h.card, rsp |-> NoResponse, faults |-> faults + 1] :
              h \in Handle(c, cmd, arg)}
          \cup {[card |-> c, rsp |-> NoResponse, faults |-> faults + 1]})
=============================================================================
