----------------------------- MODULE MemoryPort -----------------------------
(***************************************************************************)
(* What SdramCtrl promises at io_bus: a memory that takes at most one      *)
(* command and returns at most one read response per cycle.  A read        *)
(* returns the data of the last write accepted before it, reads are        *)
(* answered in the order they were accepted, each exactly once and with    *)
(* its own context.  When is left open: a command may wait, a response     *)
(* may be late.                                                            *)
(***************************************************************************)
EXTENDS Integers, Sequences

CONSTANTS Addresses, Values, Contexts, None,
          MaxOutstanding  \* reads accepted and not yet returned

VARIABLES mem,        \* the value last written at each address
          outstanding \* accepted reads, oldest first, with their data

portVars == <<mem, outstanding>>

PortInit == mem \in [Addresses -> Values] /\ outstanding = << >>

\* The reads left when at most one response is returned in this cycle.
Returned(reads) == {reads} \cup (IF reads = << >> THEN {} ELSE {Tail(reads)})

Read(a, c, rest) ==
  /\ Len(outstanding) < MaxOutstanding
  /\ outstanding' = Append(rest, [ctx |-> c, data |-> mem[a]])
  /\ UNCHANGED mem

\* v = None: no byte of the word is selected.
Write(a, v, rest) ==
  /\ mem' = IF v = None THEN mem ELSE [mem EXCEPT ![a] = v]
  /\ outstanding' = rest

NoCommand(rest) == outstanding' = rest /\ UNCHANGED mem

PortNext ==
  \E rest \in Returned(outstanding) :
    \/ NoCommand(rest)
    \/ \E a \in Addresses, c \in Contexts : Read(a, c, rest)
    \/ \E a \in Addresses, v \in Values \cup {None} : Write(a, v, rest)

PortSpec == PortInit /\ [][PortNext]_portVars
=============================================================================
