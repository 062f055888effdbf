------------------------ MODULE StreamFifoLowLatency ------------------------
(***************************************************************************)
(* The two-entry FIFO in which AxiSdramCtrl.sv parks read data the AXI     *)
(* master is not ready for (module StreamFifoLowLatency).  "Low latency":  *)
(* an entry pushed into an empty FIFO can be popped in the same cycle.     *)
(* io_flush is tied to 0 by its only user and is left out.                 *)
(*                                                                         *)
(* One step is one rising clock edge.  push is the payload offered by the  *)
(* producer in the cycle that ends, or None.                               *)
(***************************************************************************)
EXTENDS Integers, Sequences

CONSTANTS Payloads,   \* what an entry can hold
          None        \* nothing is pushed

VARIABLES ram, pushPtr, popPtr, risingOccupancy

fifoVars == <<ram, pushPtr, popPtr, risingOccupancy>>

Slots == 0..1

ptrMatch == pushPtr = popPtr
empty    == ptrMatch /\ ~risingOccupancy
full     == ptrMatch /\ risingOccupancy

PushReady == ~full

\* The valid and payload wires of the pop side, given what is pushed.
PopValid(push)   == ~empty \/ push # None
\* Mutant: what is pushed passes the entries that wait.
PopPayloadBypass(push) == IF push # None THEN push ELSE ram[popPtr]

PopPayload(push) == IF empty THEN push ELSE ram[popPtr]

\* Reset reaches the pointers only; the RAM keeps whatever it held.
Init == /\ ram \in [Slots -> Payloads]
        /\ pushPtr = 0
        /\ popPtr = 0
        /\ risingOccupancy = FALSE

Reset == /\ pushPtr' = 0
         /\ popPtr' = 0
         /\ risingOccupancy' = FALSE
         /\ UNCHANGED ram

\* A push that finds the FIFO full is dropped: the producer in SdramCtrl does
\* not look at PushReady.
Clock(push, popReady) ==
  LET pushing == push # None /\ PushReady
      popping == PopValid(push) /\ popReady
  IN  /\ ram' = IF pushing THEN [ram EXCEPT ![pushPtr] = push] ELSE ram
      /\ pushPtr' = IF pushing THEN 1 - pushPtr ELSE pushPtr
      /\ popPtr' = IF popping THEN 1 - popPtr ELSE popPtr
      /\ risingOccupancy' = IF pushing # popping THEN pushing ELSE risingOccupancy

\* The entries, oldest first: what the pointers stand for.
Contents == IF empty THEN << >>
            ELSE IF full THEN <<ram[popPtr], ram[1 - popPtr]>>
            ELSE <<ram[popPtr]>>

Occupancy == IF empty THEN 0 ELSE IF full THEN 2 ELSE 1
=============================================================================
