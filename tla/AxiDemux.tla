------------------------------ MODULE AxiDemux ------------------------------
(***************************************************************************)
(* axi_demux, as soc_top instantiates it between the CPU and the slaves    *)
(* (cpu_demux): spill registers on AW and AR, none on W, B and R, routing  *)
(* of W beats through a fall-through FIFO.  One step is one cycle of       *)
(* soc_clk; the wires of a cycle are operators of what the two sides       *)
(* drive.                                                                  *)
(*                                                                         *)
(* A request is [id, port, beats]: port is what periph_addr_sel makes of   *)
(* its address, and travels with it as aw_select or ar_select.             *)
(***************************************************************************)
EXTENDS Integers, Sequences

CONSTANTS NoMstPorts, NumLevels,  \* 11 and 4 in soc_top
          LookIds,                \* 2^AXI_LOOK_BITS: 4 in soc_top
          MaxTrans,               \* MAX_TRANS: 2 in soc_top
          Requests, None

Ports == 0..(NoMstPorts - 1)

\* $clog2(MaxTrans), and 1 for MaxTrans = 1.
IdCounterWidth ==
  IF MaxTrans = 1 THEN 1
  ELSE CHOOSE n \in 1..MaxTrans : 2^n >= MaxTrans /\ 2^(n - 1) < MaxTrans

ASSUME SizesAssumption ==
  /\ NoMstPorts \in Nat \ {0} /\ NumLevels \in Nat /\ NoMstPorts <= 2^NumLevels
  /\ LookIds \in Nat \ {0}

\* What the exponents stand for: the places of the bits, and a counter that can
\* hold one.
ASSUME PowersAssumption ==
  /\ \A k \in 0..NumLevels : 2^k \in Nat \ {0} /\ 2^(k + 1) = 2 * 2^k
  /\ 2^IdCounterWidth \in Nat \ {0, 1}

VARIABLES
  aw_a, aw_aFull, aw_b, ar_a, ar_aFull, ar_b,  \* the spill registers
  lock_aw_valid, lock_ar_valid,                \* a valid that waits for ready
  aw_counter, aw_mst_select,                   \* i_aw_id_counter
  ar_counter, ar_mst_select,                   \* i_ar_id_counter
  w_fifo,                                      \* i_w_fifo: ports, oldest first
  b_rr, b_held, r_rr, r_held                   \* i_b_mux, i_r_mux

demuxVars == <<aw_a, aw_aFull, aw_b, ar_a, ar_aFull, ar_b, lock_aw_valid, lock_ar_valid,
               aw_counter, aw_mst_select, ar_counter, ar_mst_select, w_fifo,
               b_rr, b_held, r_rr, r_held>>

AwSpill == INSTANCE SpillRegister WITH
             Payloads <- Requests, a <- aw_a, aFull <- aw_aFull, b <- aw_b
ArSpill == INSTANCE SpillRegister WITH
             Payloads <- Requests, a <- ar_a, aFull <- ar_aFull, b <- ar_b
AwIds   == INSTANCE IdCounters WITH
             Width <- IdCounterWidth, counter <- aw_counter, mst_select <- aw_mst_select
ArIds   == INSTANCE IdCounters WITH
             Width <- IdCounterWidth, counter <- ar_counter, mst_select <- ar_mst_select
BMux    == INSTANCE RrArbTree WITH NumIn <- NoMstPorts, rr <- b_rr, held <- b_held
RMux    == INSTANCE RrArbTree WITH NumIn <- NoMstPorts, rr <- r_rr, held <- r_held

\* slv_aw_chan_select, slv_ar_chan_select: also on the wires of every port.
slv_aw == AwSpill!Data
slv_ar == ArSpill!Data

(***************************************************************************)
(* AW and W.  ready: aw_ready of the port addressed.                       *)
(***************************************************************************)
w_fifo_full == Len(w_fifo) = MaxTrans

\* Nothing else with this id is under way, or only to the same port.
aw_select_ok == AwIds!occupied(slv_aw.id) => slv_aw.port = AwIds!mst_select_of(slv_aw.id)

\* Mutants: the order of responses, or the room of the FIFO, is not looked at.
aw_pushUnordered ==
  ~lock_aw_valid /\ ~AwIds!full /\ ~w_fifo_full /\ ~ArIds!full /\ AwSpill!Valid

\* The decision counts from the first cycle of valid, handshake or not.
aw_push == /\ ~lock_aw_valid
           /\ ~AwIds!full /\ ~w_fifo_full /\ ~ArIds!full
           /\ AwSpill!Valid /\ aw_select_ok

\* Mutant: nothing keeps a valid that was not taken at once.
aw_validUnlocked == aw_push

aw_valid       == lock_aw_valid \/ aw_push
aw_done(ready) == aw_valid /\ ready

\* The port of the W beat on offer: the FIFO falls through.
w_fifo_empty == w_fifo = << >> /\ ~aw_push
w_select     == IF w_fifo = << >> THEN slv_aw.port ELSE Head(w_fifo)

\* Mutant: the port is dropped with the first beat.
w_fifo_popEarly(taken, last) == taken

w_fifo_pop(taken, last) == taken /\ last

WFifoClock(taken, last) ==
  LET pushed == IF aw_push THEN Append(w_fifo, slv_aw.port) ELSE w_fifo
  IN  w_fifo' = IF w_fifo_pop(taken, last) THEN Tail(pushed) ELSE pushed

(***************************************************************************)
(* AR.                                                                     *)
(***************************************************************************)
\* Mutant: a read may go to another slave than those before it.
ar_select_any == TRUE

ar_select_ok == ArIds!occupied(slv_ar.id) => slv_ar.port = ArIds!mst_select_of(slv_ar.id)

ar_valid == lock_ar_valid \/ (~ArIds!full /\ ArSpill!Valid /\ ar_select_ok)

\* ar_push: a read counts from its handshake.
ar_done(ready) == ar_valid /\ ready

(***************************************************************************)
(* One cycle.  aw, ar: the requests offered or None; w: a W beat was taken *)
(* and was the last; b, r: for each port the response it offers or None.   *)
(***************************************************************************)
Offering(channel) == {p \in Ports : channel[p] # None}

slv_b(b) == b[BMux!idx(Offering(b))]
slv_r(r) == r[RMux!idx(Offering(r))]

slv_b_done(b, bReady) == BMux!valid(Offering(b)) /\ bReady
slv_r_done(r, rReady) == RMux!valid(Offering(r)) /\ rReady

\* Mutant: any R beat ends its read.
r_popAnyBeat(r, rReady) == slv_r_done(r, rReady)

\* A read is over with its last beat.
r_pop(r, rReady) == slv_r_done(r, rReady) /\ slv_r(r).last

DemuxClock(aw, awReady, wTaken, wLast, b, bReady, ar, arReady, r, rReady) ==
  /\ AwSpill!Clock(aw, aw_done(awReady))
  /\ lock_aw_valid' = (aw_valid /\ ~awReady)
  /\ AwIds!Clock(aw_push, slv_aw.id, slv_aw.port,
                 slv_b_done(b, bReady), slv_b(b).id)
  /\ WFifoClock(wTaken, wLast)
  /\ BMux!Clock(Offering(b), bReady)
  /\ ArSpill!Clock(ar, ar_done(arReady))
  /\ lock_ar_valid' = (ar_valid /\ ~arReady)
  /\ ArIds!Clock(ar_done(arReady), slv_ar.id, slv_ar.port,
                 r_pop(r, rReady), slv_r(r).id)
  /\ RMux!Clock(Offering(r), rReady)

DemuxInit ==
  /\ AwSpill!Init /\ ArSpill!Init
  /\ lock_aw_valid = FALSE /\ lock_ar_valid = FALSE
  /\ AwIds!Init /\ ArIds!Init
  /\ w_fifo = << >>
  /\ BMux!Init /\ RMux!Init
=============================================================================
