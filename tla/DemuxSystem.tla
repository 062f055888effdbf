---------------------------- MODULE DemuxSystem -----------------------------
(***************************************************************************)
(* The demultiplexer between a master and its slaves, all on soc_clk.      *)
(*                                                                         *)
(* The master keeps to AXI: what it offers stays until it is taken, write  *)
(* data come in the order of the write requests, before or after them.  A  *)
(* slave answers the requests of each kind in the order it took them; it   *)
(* may take the data of a write before its address.  The slaves in         *)
(* WireIdPorts are VGA and USB: they answer with the id on the wires.      *)
(***************************************************************************)
EXTENDS AxiDemux, FiniteSets

CONSTANTS Ids, ReadReqs, WriteReqs,
          MaxReads, MaxWrites,  \* bounds: requests the master has under way
          MaxUnderWay,          \* and both kinds together
          WireIdPorts

ASSUME RequestsAssumption ==
  /\ Ids \subseteq Nat
  /\ Requests # {} /\ None \notin Requests
  /\ Requests \subseteq [id : Ids, port : Ports, beats : Nat \ {0}]
  /\ ReadReqs \subseteq Requests /\ WriteReqs \subseteq Requests

\* None stands for the absence of a response, or of the port of one.
ASSUME NoneAssumption ==
  /\ None \notin Ports
  /\ None \notin [id : Ids, last : BOOLEAN, port : Ports]
  /\ None \notin [id : Ids, port : Ports]

VARIABLES
  ar, aw,             \* the requests the master offers, or None
  wQueue, wValid,     \* W beats it has not yet sent; is the first offered?
  expectR, expectB,   \* per id, the ports whose answers it waits for, in order
  reads, rOffered,    \* per port: reads to be answered; is a beat offered?
  writes, wBursts,    \* per port: writes to be answered, complete W bursts
  bOffered

masterVars == <<ar, aw, wQueue, wValid, expectR, expectB>>
slaveVars  == <<reads, rOffered, writes, wBursts, bOffered>>
vars       == <<demuxVars, masterVars, slaveVars>>

(***************************************************************************)
(* The response channels of the slaves.                                    *)
(***************************************************************************)
\* Slaves that do not keep the id show the one on the address channel.
rId(p) == IF p \in WireIdPorts THEN slv_ar.id ELSE Head(reads[p]).id
bId(p) == IF p \in WireIdPorts THEN slv_aw.id ELSE Head(writes[p])

rChan == [p \in Ports |->
  IF rOffered[p] THEN [id |-> rId(p), last |-> Head(reads[p]).beats = 1, port |-> p]
  ELSE None]
bChan == [p \in Ports |-> IF bOffered[p] THEN [id |-> bId(p), port |-> p] ELSE None]

rValid == RMux!valid(Offering(rChan))
bValid == BMux!valid(Offering(bChan))
rOut   == slv_r(rChan)
bOut   == slv_b(bChan)

\* A W beat is taken when the port it is routed to is ready.
wTaken(wReady) == wValid /\ ~w_fifo_empty /\ wReady
wLast          == Head(wQueue).last

(***************************************************************************)
(* The slaves.                                                             *)
(***************************************************************************)
\* A valid that is not answered stays; otherwise it may rise when there is
\* something to say, and rises when brisk.
Rises(offered, taken, ready, brisk) ==
  IF offered /\ ~taken THEN {TRUE}
  ELSE IF ready THEN (IF brisk THEN {TRUE} ELSE BOOLEAN) ELSE {FALSE}

\* rFrom, bFrom: the port whose response is taken in this cycle, or None.
ReadsAfter(p, arReady, rFrom) ==
  LET rest == IF rFrom # p THEN reads[p]
              ELSE IF Head(reads[p]).beats = 1 THEN Tail(reads[p])
              ELSE [reads[p] EXCEPT ![1].beats = @ - 1]
  IN  IF ar_done(arReady) /\ slv_ar.port = p
      THEN Append(rest, [id |-> slv_ar.id, beats |-> slv_ar.beats]) ELSE rest

WritesAfter(p, awReady, bFrom) ==
  LET rest == IF bFrom = p THEN Tail(writes[p]) ELSE writes[p]
  IN  IF aw_done(awReady) /\ slv_aw.port = p THEN Append(rest, slv_aw.id) ELSE rest

BurstsAfter(p, wReady, bFrom) ==
  wBursts[p] + (IF wTaken(wReady) /\ wLast /\ w_select = p THEN 1 ELSE 0)
             - (IF bFrom = p THEN 1 ELSE 0)

Slaves(arReady, rFrom, awReady, wReady, bFrom, brisk) ==
  /\ reads' = [p \in Ports |-> ReadsAfter(p, arReady, rFrom)]
  /\ writes' = [p \in Ports |-> WritesAfter(p, awReady, bFrom)]
  /\ wBursts' = [p \in Ports |-> BurstsAfter(p, wReady, bFrom)]
  /\ rOffered' \in {f \in [Ports -> BOOLEAN] :
       \A p \in Ports : f[p] \in Rises(rOffered[p], rFrom = p, reads'[p] # << >>, brisk)}
  /\ bOffered' \in {f \in [Ports -> BOOLEAN] :
       \A p \in Ports : f[p] \in Rises(bOffered[p], bFrom = p,
                                       writes'[p] # << >> /\ wBursts'[p] > 0, brisk)}

(***************************************************************************)
(* The master.                                                             *)
(***************************************************************************)
\* The books are kept by the id of the response, as a master does.
Answered(expect, done, id) ==
  [i \in Ids |-> IF done /\ id = i /\ expect[i] # << >> THEN Tail(expect[i]) ELSE expect[i]]

UnderWay(expect) ==
  Cardinality({e \in Ids \X (1..(MaxReads + MaxWrites)) : e[2] <= Len(expect[e[1]])})

IssueRead(rReady) ==
  LET left == Answered(expectR, r_pop(rChan, rReady), rOut.id)
  IN  IF ar # None /\ ~ArSpill!Ready THEN ar' = ar /\ expectR' = left
      ELSE \/ ar' = None /\ expectR' = left
           \/ \E req \in ReadReqs :
                /\ UnderWay(left) < MaxReads
                /\ ar' = req
                /\ expectR' = [left EXCEPT ![req.id] = Append(@, req.port)]

Beats(req) == [n \in 1..req.beats |-> [port |-> req.port, last |-> n = req.beats]]

IssueWrite(wReady, bReady, brisk) ==
  LET left == Answered(expectB, slv_b_done(bChan, bReady), bOut.id)
      data == IF wTaken(wReady) THEN Tail(wQueue) ELSE wQueue
  IN  /\ IF aw # None /\ ~AwSpill!Ready THEN aw' = aw /\ expectB' = left /\ wQueue' = data
         ELSE \/ aw' = None /\ expectB' = left /\ wQueue' = data
              \/ \E req \in WriteReqs :
                   /\ UnderWay(left) < MaxWrites
                   /\ aw' = req
                   /\ expectB' = [left EXCEPT ![req.id] = Append(@, req.port)]
                   /\ wQueue' = data \o Beats(req)
      /\ wValid' \in Rises(wValid, wTaken(wReady), wQueue' # << >>, brisk)

(***************************************************************************)
(* One cycle; the arguments are the readys of the ports addressed and of   *)
(* the master, and whether whoever has something to say says it.           *)
(***************************************************************************)
Cycle(arReady, rReady, awReady, wReady, bReady, brisk) ==
  /\ DemuxClock(aw, awReady, wTaken(wReady), wLast, bChan, bReady,
                ar, arReady, rChan, rReady)
  /\ Slaves(arReady, IF rValid /\ rReady THEN rOut.port ELSE None,
            awReady, wReady, IF bValid /\ bReady THEN bOut.port ELSE None, brisk)
  /\ IssueRead(rReady)
  /\ IssueWrite(wReady, bReady, brisk)
  /\ UnderWay(expectR') + UnderWay(expectB') <= MaxUnderWay

Init ==
  /\ DemuxInit
  /\ ar = None /\ aw = None /\ wQueue = << >> /\ wValid = FALSE
  /\ expectR = [i \in Ids |-> << >>] /\ expectB = [i \in Ids |-> << >>]
  /\ reads = [p \in Ports |-> << >>] /\ rOffered = [p \in Ports |-> FALSE]
  /\ writes = [p \in Ports |-> << >>] /\ wBursts = [p \in Ports |-> 0]
  /\ bOffered = [p \in Ports |-> FALSE]

\* A ready that meets no valid changes nothing.
ReadyFor(valid) == IF valid THEN BOOLEAN ELSE {FALSE}

Next ==
  \E arReady \in ReadyFor(ar_valid), rReady \in ReadyFor(rValid),
     awReady \in ReadyFor(aw_valid), wReady \in ReadyFor(wValid /\ ~w_fifo_empty),
     bReady \in ReadyFor(bValid) : Cycle(arReady, rReady, awReady, wReady, bReady, FALSE)

Spec == Init /\ [][Next]_vars

\* A cycle in which everybody who can move does.
Brisk == Cycle(TRUE, TRUE, TRUE, TRUE, TRUE, TRUE)

FairSpec == Spec /\ WF_vars(Brisk)

(***************************************************************************)
(* Properties                                                              *)
(***************************************************************************)
\* The answers to one id come in the order of its requests, whichever slaves
\* they went to: that is what the counters and the select registers are for.
InOrder(valid, out, expect) ==
  valid => expect[out.id] # << >> /\ Head(expect[out.id]) = out.port

ResponsesInOrder == InOrder(rValid, rOut, expectR) /\ InOrder(bValid, bOut, expectB)

\* A W beat goes where its own AW goes, although it may overtake it.
DataFollowAddress == wValid /\ ~w_fifo_empty => w_select = Head(wQueue).port

\* A counter tells how many transactions with its id bits the slaves have still
\* to answer; a write counts from the first cycle of its valid.
Places(queues) == UNION {{p} \X DOMAIN queues[p] : p \in Ports}
ReadsAt(i) ==
  Cardinality({e \in Places(reads) : ArIds!look(reads[e[1]][e[2]].id) = i})
WritesAt(i) ==
  Cardinality({e \in Places(writes) : AwIds!look(writes[e[1]][e[2]]) = i})
  + (IF lock_aw_valid /\ AwIds!look(slv_aw.id) = i THEN 1 ELSE 0)

CountersExact ==
  \A i \in 0..(LookIds - 1) : ar_counter[i] = ReadsAt(i) /\ aw_counter[i] = WritesAt(i)

\* The assertions aw_valid_stable, aw_stable, ar_valid_stable and ar_stable: a
\* request shown to a slave that is not ready stays as it is.
RequestsStable ==
  [][ /\ lock_aw_valid' => aw_valid' /\ slv_aw' = slv_aw
      /\ lock_ar_valid' => ar_valid' /\ slv_ar' = slv_ar ]_vars

\* What the arbiters show the master stays until the master takes it, although
\* other slaves start to answer meanwhile.
ResponsesStable ==
  [][ /\ r_held' # {} => rValid' /\ rOut' = rOut
      /\ b_held' # {} => bValid' /\ bOut' = bOut ]_vars

\* Every request is answered: neither direction and no id is starved.
AllAnswered ==
  /\ \A req \in ReadReqs : (expectR[req.id] # << >>) ~> (rValid /\ rOut.id = req.id)
  /\ \A req \in WriteReqs : (expectB[req.id] # << >>) ~> (bValid /\ bOut.id = req.id)

(***************************************************************************)
(* What an assertion of the code says, and soc_top does not keep.          *)
(***************************************************************************)
\* The assertion cnt_underflow of axi_demux_id_counters: no counter underflows,
\* that is, none ever shows its overflow bit.
NoUnderflow ==
  \A i \in 0..(LookIds - 1) : ~ArIds!overflow(i) /\ ~AwIds!overflow(i)
=============================================================================
