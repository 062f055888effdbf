--------------------------- MODULE StreamArbiter ----------------------------
(***************************************************************************)
(* The two-input round-robin arbiter of AxiSdramCtrl.sv (module            *)
(* StreamArbiter).  Input 0 is AR, input 1 is AW.  A choice that was shown *)
(* to the consumer is locked until the consumer takes it.                  *)
(*                                                                         *)
(* valid is the pair of input valids, a function on Inputs.                *)
(***************************************************************************)
EXTENDS Integers

VARIABLES locked,     \* the choice of the last cycle still stands
          maskLocked  \* the input chosen last (one-hot in the code)

arbiterVars == <<locked, maskLocked>>

Inputs == {0, 1}

ArbiterInit == locked = FALSE /\ maskLocked = 1

\* Mutant: reads have priority.
maskProposalReads(valid)  == IF valid[0] THEN 0 ELSE 1

\* The first requesting input after the one chosen last.
maskProposal(valid) == IF valid[1 - maskLocked] THEN 1 - maskLocked ELSE maskLocked

maskRouted(valid) == IF locked THEN maskLocked ELSE maskProposal(valid)

OutputValid(valid) == valid[maskRouted(valid)]

ArbiterClock(valid, ready) ==
  IF OutputValid(valid)
  THEN maskLocked' = maskRouted(valid) /\ locked' = ~ready
  ELSE UNCHANGED arbiterVars
=============================================================================
