---------------------------- MODULE SpillRegister ----------------------------
(***************************************************************************)
(* spill_register (pulp-common_cells): two registers that cut every        *)
(* combinational path of a handshake.  Used as a component: the module     *)
(* that instantiates it supplies the variables.                            *)
(*                                                                         *)
(* The data of register A are seen at the output even when both registers  *)
(* are empty, so a keeps its stale value; b is None when B is empty.       *)
(***************************************************************************)
CONSTANTS Payloads, None

VARIABLES a, aFull, b

Valid == aFull \/ b # None
Data  == IF b # None THEN b ELSE a

\* ready_o
Ready == ~aFull \/ b = None

\* Registers are reset to zero: some payload stands for that.
Init == a = (CHOOSE zero \in Payloads : TRUE) /\ aFull = FALSE /\ b = None

\* input: the payload offered, or None; ready: the downstream circuit's.
Clock(input, ready) ==
  LET fill  == input # None /\ Ready
      drain == aFull /\ b = None
  IN  /\ a' = IF fill THEN input ELSE a
      /\ aFull' = (fill \/ (aFull /\ ~drain))
      /\ b' = IF drain /\ ~ready THEN a
              ELSE IF b # None /\ ready THEN None ELSE b
=============================================================================
