----------------------------- MODULE RrArbTree ------------------------------
(***************************************************************************)
(* rr_arb_tree with AxiVldRdy, LockIn and FairArb: a tree of two-way       *)
(* choices, each decided by one bit of rr when both sides ask.  Used as a  *)
(* component.                                                              *)
(***************************************************************************)
EXTENDS Integers

CONSTANTS NumIn, NumLevels     \* inputs; 2^NumLevels >= NumIn

VARIABLES rr,    \* rr_q, the priority
          held   \* req_q while lock_q is set, otherwise {}

\* Mutant: a decision is not kept while it waits for the grant.
seenAfresh(req) == req

\* req_d: while a decision waits for its grant, new requests are not seen.
seen(req) == IF held # {} THEN held ELSE req

bit(n, k) == (n \div 2^k) % 2

\* At the highest level where the ways to i and j part, i goes with rr.
preferred(i, j) ==
  \E k \in 0..(NumLevels - 1) :
    /\ bit(i, k) # bit(j, k) /\ bit(i, k) = bit(rr, k)
    /\ \A m \in (k + 1)..(NumLevels - 1) : bit(i, m) = bit(j, m)

valid(req) == seen(req) # {}

\* idx_o, for a non-empty set of requests; the input that gets the grant.
idx(req) == CHOOSE i \in seen(req) : \A j \in seen(req) \ {i} : preferred(i, j)

\* next_idx: the next request above rr, or the first of all.
nextRr(req) ==
  LET above == {i \in seen(req) : i > rr}
      from  == IF above = {} THEN seen(req) ELSE above
  IN  CHOOSE i \in from : \A j \in from : i <= j

Init == rr = 0 /\ held = {}

Clock(req, gnt) ==
  /\ rr' = IF gnt /\ valid(req) THEN nextRr(req) ELSE rr
  /\ held' = IF valid(req) /\ ~gnt THEN seen(req) ELSE {}
=============================================================================
