----------------------------- MODULE IdCounters -----------------------------
(***************************************************************************)
(* axi_demux_id_counters: for each value of the id bits looked at, how     *)
(* many transactions are in flight and to which port.  A counter is a      *)
(* delta_counter: Width bits and one more that tells overflow, so it wraps *)
(* at 2^(Width + 1).  (The ports for atomic operations are tied to 0.)     *)
(***************************************************************************)
EXTENDS Integers

CONSTANTS LookIds,   \* 2^AxiLookBits
          Width,     \* CounterWidth
          Ports

VARIABLES counter, mst_select

Modulus == 2^Width

look(id) == id % LookIds

in_flight(i) == counter[i] % Modulus
overflow(i)  == counter[i] >= Modulus

occupied(id) == in_flight(look(id)) # 0
\* lookup_mst_select_o
mst_select_of(id) == mst_select[look(id)]

\* Mutant: full one short of the end.
cnt_fullEarly(i) == overflow(i) \/ in_flight(i) + 1 = Modulus - 1

cnt_full(i) == overflow(i) \/ in_flight(i) = Modulus - 1

\* full_o: one full counter is enough to stop every id.
full == \E i \in 0..(LookIds - 1) : cnt_full(i)

Init == /\ counter = [i \in 0..(LookIds - 1) |-> 0]
        /\ mst_select = [i \in 0..(LookIds - 1) |-> 0]

NextCount(i, push, pop) ==
  IF push /\ ~pop THEN (counter[i] + 1) % (2 * Modulus)
  ELSE IF pop /\ ~push THEN (counter[i] - 1) % (2 * Modulus)
  ELSE counter[i]

\* push with its id and port, pop with its id.
Clock(push, pushId, port, pop, popId) ==
  LET pushes(i) == push /\ look(pushId) = i
      pops(i)   == pop /\ look(popId) = i
  IN  /\ counter' = [i \in DOMAIN counter |-> NextCount(i, pushes(i), pops(i))]
      /\ mst_select' = [i \in DOMAIN mst_select |->
                          IF pushes(i) THEN port ELSE mst_select[i]]
=============================================================================
