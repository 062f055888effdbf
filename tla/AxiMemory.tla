----------------------------- MODULE AxiMemory ------------------------------
(***************************************************************************)
(* What AxiSdramCtrl promises its AXI master: a memory that serves one     *)
(* burst at a time, one beat at a time.  The beats of a burst go to the    *)
(* addresses the AXI rules give; a write beat is performed once, with the  *)
(* data sent for it; a read beat returns what the memory holds at that     *)
(* moment; read beats come back in order, with the id of their burst and   *)
(* the last flag on its last beat only.                                    *)
(***************************************************************************)
EXTENDS Axi4Incr, Sequences

CONSTANTS Words, Values, Ids, ReadReqs, WriteReqs, None, MaxOutstanding

VARIABLES mem,          \* word address -> value
          outstanding,  \* read beats performed and not yet returned
          current       \* the burst under way: what is left of it, or None

Contexts == [id : Ids, last : BOOLEAN]

Memory == INSTANCE MemoryPort WITH Addresses <- Words

axiVars == <<mem, outstanding, current>>

AxiInit == Memory!PortInit /\ current = None

\* The bytes a request addresses, in beat order.
Targets(req) ==
  [n \in 1..(req.len + 1) |-> BeatAddr(req.addr, req.size, req.len, req.burst, n - 1)]

\* The first of the addresses left is served; the rest is what remains.
Serve(write, id, left, rest) ==
  LET word == Head(left) \div 4
      last == Len(left) = 1
  IN  /\ IF write
         THEN \E v \in Values : Memory!Write(word, v, rest)
         ELSE Memory!Read(word, [id |-> id, last |-> last], rest)
      /\ current' = IF last THEN None
                    ELSE [write |-> write, id |-> id, left |-> Tail(left)]

Begin(write, req, rest) == current = None /\ Serve(write, req.id, Targets(req), rest)

Continue(rest) ==
  current # None /\ Serve(current.write, current.id, current.left, rest)

Wait(rest) == Memory!NoCommand(rest) /\ UNCHANGED current

AxiNext ==
  \E rest \in Memory!Returned(outstanding) :
    \/ \E req \in ReadReqs : Begin(FALSE, req, rest)
    \/ \E req \in WriteReqs : Begin(TRUE, req, rest)
    \/ Continue(rest)
    \/ Wait(rest)

AxiSpec == AxiInit /\ [][AxiNext]_axiVars
=============================================================================
