----------------------------- MODULE SdramLive ------------------------------
(***************************************************************************)
(* SdramSystem under the bus protocol: an offered command stays on the bus *)
(* until it is taken, and the reader is ready infinitely often.            *)
(***************************************************************************)
EXTENDS SdramSystem

VARIABLE busCmd   \* io_bus_cmd: the command being offered, or None

liveVars == <<vars, busCmd>>

LiveInit == Init /\ busCmd = None

\* The byte mask of a write plays no part in progress.
LiveCmds == {cmd \in Cmds : cmd.write => cmd.data # None}

LiveCycle(rsp_ready) ==
  /\ Cycle(busCmd, rsp_ready)
  /\ IF busCmd = None \/ CmdReady(busCmd)
     THEN busCmd' \in LiveCmds \cup {None}
     ELSE UNCHANGED busCmd

LiveNext == \E rsp_ready \in BOOLEAN : LiveCycle(rsp_ready)

\* The clock ticks for ever, and the reader does not refuse data for ever.
LiveSpec == LiveInit /\ [][LiveNext]_liveVars /\ WF_liveVars(LiveCycle(TRUE))

\* An offered command is taken, though the row of another command may have to be
\* closed and its own be opened first, a refresh close every row between the two,
\* and the reader stop the chip at any point of it.  An offer is kept until it is
\* taken, so this says as much as: an offer leads to CmdReady.
CommandsTaken == []<>(busCmd = None \/ CmdReady(busCmd))

\* A read that was taken is answered: a read leaves AbstractOutstanding only with
\* a response, so this says as much as: an outstanding read leads to RspValid.
ReadsAnswered == []<>(AbstractOutstanding = << >> \/ RspValid)

\* A refresh that is due is issued, whatever the reader does meanwhile.
RefreshesIssued == []<>~refresh_pending
=============================================================================
