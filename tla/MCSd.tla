------------------------------- MODULE MCSd -------------------------------
EXTENDS MmcDriver

(* A small instance: blocks of two bytes and a size_t of four bits, so     *)
(* that a card of nine blocks has more bytes than size_t holds.            *)
Kind(spec, hc, four, blocks) ==
    [spec |-> spec, hc |-> hc, four |-> four, blocks |-> blocks]

MCCardKinds == {Kind(0, FALSE, FALSE, 3), Kind(0, FALSE, TRUE, 3),
                Kind(1, FALSE, TRUE, 3),
                Kind(2, FALSE, TRUE, 3),
                Kind(2, TRUE, TRUE, 3), Kind(2, TRUE, FALSE, 9)}

MCRequests == {[start |-> 0, count |-> 0], [start |-> 0, count |-> 1],
               [start |-> 1, count |-> 1],
               [start |-> 0, count |-> 3], [start |-> 1, count |-> 2],
               [start |-> 2, count |-> 2], [start |-> 15, count |-> 1]}
=============================================================================
