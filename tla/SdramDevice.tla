---------------------------- MODULE SdramDevice -----------------------------
(***************************************************************************)
(* The SDRAM chip behind the pins of SdramCtrl.  It is not in the          *)
(* repository: it is modelled from what the controller's pins and counters *)
(* assume of it (CL = 2 in the mode word, burst length 1, a clock enable   *)
(* that acts on the edge after the one that samples it, reload values that *)
(* encode the spacing of commands at the 50 MHz the refresh period is for).*)
(*                                                                         *)
(* One step is one clock edge.  pins holds the task the controller drives, *)
(* ckePin its clock enable.                                                *)
(***************************************************************************)
EXTENDS Integers

CONSTANTS Banks, Rows, Cols, Values, None,
          BootRefreshes,          \* refreshes the chip needs before MODE
          tRAS, tRC, tRFC, tMRD, tWR  \* minimal spacing of commands, in clocks

VARIABLES pins, ckePin,           \* inputs
          clkEnable,              \* CKE as sampled at the previous edge
          open,                   \* the open row of each bank, or None
          cells,                  \* the memory array
          dqPipe,                 \* read data on its way to the pins
          mode,                   \* programmed CAS latency, None before MODE
          refreshes,              \* refreshes seen before MODE, saturating
          sinceActive, sinceWrite,\* clocks since ACTIVE, WRITE of each bank
          sinceAll                \* clocks since REFRESH and since MODE

devVars == <<clkEnable, open, cells, dqPipe, mode, refreshes,
             sinceActive, sinceWrite, sinceAll>>

\* The longest CAS latency the chip supports.
MaxLatency == 3

Cells == Banks \X Rows \X Cols

DeviceInit ==
  /\ clkEnable = TRUE
  /\ open = [b \in Banks |-> None]
  /\ cells \in [Cells -> Values]
  /\ dqPipe = [i \in 1..MaxLatency |-> None]
  /\ mode = None
  /\ refreshes = 0
  /\ sinceActive = [b \in Banks |-> tRC]
  /\ sinceWrite = [b \in Banks |-> tWR]
  /\ sinceAll = [t \in {"REFRESH", "MODE"} |-> IF t = "REFRESH" THEN tRFC ELSE tMRD]

IsOp(name)      == pins # None /\ pins.task = name
IsOpOn(name, b) == IsOp(name) /\ pins.bank = b

\* The row a column command reaches is the one its bank has open.
Target == <<pins.bank, open[pins.bank], pins.arg>>

\* What a READ on the pins fetches; a bank that is not open yields nothing.
Fetched == IF IsOp("READ") /\ open[pins.bank] # None THEN cells[Target] ELSE None

\* The data pins, driven mode clocks after the READ.
dq == IF mode = None THEN None ELSE dqPipe[mode]

Age(c, restart, max) == IF restart THEN 1 ELSE IF c < max THEN c + 1 ELSE c

Execute ==
  /\ open' = [b \in Banks |->
       IF IsOpOn("ACTIVE", b) THEN pins.arg
       ELSE IF IsOp("PRECHARGE_ALL") \/ IsOpOn("PRECHARGE_SINGLE", b) THEN None
       ELSE open[b]]
  /\ cells' = IF IsOp("WRITE") /\ pins.data # None /\ open[pins.bank] # None
              THEN [cells EXCEPT ![Target] = pins.data] ELSE cells
  /\ dqPipe' = [i \in 1..MaxLatency |-> IF i = 1 THEN Fetched ELSE dqPipe[i - 1]]
  /\ mode' = IF IsOp("MODE") THEN pins.arg ELSE mode
  /\ refreshes' = IF IsOp("REFRESH") /\ refreshes < BootRefreshes
                  THEN refreshes + 1 ELSE refreshes
  /\ sinceActive' = [b \in Banks |-> Age(sinceActive[b], IsOpOn("ACTIVE", b), tRC)]
  /\ sinceWrite' = [b \in Banks |-> Age(sinceWrite[b], IsOpOn("WRITE", b), tWR)]
  /\ sinceAll' = [t \in {"REFRESH", "MODE"} |->
       Age(sinceAll[t], IsOp(t), IF t = "REFRESH" THEN tRFC ELSE tMRD)]

\* The edge does something only if CKE was high at the previous one.
DeviceEdge ==
  /\ clkEnable' = ckePin
  /\ IF clkEnable THEN Execute
     ELSE UNCHANGED <<open, cells, dqPipe, mode, refreshes,
                      sinceActive, sinceWrite, sinceAll>>

(***************************************************************************)
(* What the chip requires of the command it is about to execute.           *)
(***************************************************************************)
\* Bank state: rows are opened on closed banks, columns addressed on open
\* ones, refresh and mode setting done with all banks closed.
BankRules ==
  /\ \A b \in Banks :
       /\ IsOpOn("ACTIVE", b) => open[b] = None
       /\ IsOpOn("READ", b) \/ IsOpOn("WRITE", b) => open[b] # None
  /\ IsOp("REFRESH") \/ IsOp("MODE") => \A b \in Banks : open[b] = None

\* Spacing: row cycle, row active time, write recovery, refresh cycle, mode
\* register delay.
TimingRules ==
  /\ \A b \in Banks :
       /\ IsOpOn("ACTIVE", b) \/ IsOp("REFRESH") => sinceActive[b] >= tRC
       /\ (IsOp("PRECHARGE_ALL") \/ IsOpOn("PRECHARGE_SINGLE", b)) /\ open[b] # None
            => sinceActive[b] >= tRAS /\ sinceWrite[b] >= tWR
  /\ IsOp("ACTIVE") \/ IsOp("REFRESH") \/ IsOp("MODE") =>
       sinceAll["REFRESH"] >= tRFC /\ sinceAll["MODE"] >= tMRD

\* The controller and the chip never drive the data pins together.
BusRules == IsOp("WRITE") => dq = None

\* Initialisation: PRECHARGE and refreshes, then MODE, then everything else.
BootRules ==
  /\ IsOp("MODE") => refreshes = BootRefreshes
  /\ IsOp("ACTIVE") \/ IsOp("READ") \/ IsOp("WRITE") => mode # None
=============================================================================
