-------------------------- MODULE MCAxiSdramBridge --------------------------
EXTENDS AxiSdramBridge, TLC

Req(a, i, l, b) == [addr |-> a, id |-> i, len |-> l, size |-> 2, burst |-> b]

\* Two words; single beats, a wrapping read that ends where it began less one,
\* and an incrementing write over both words.
MCWords     == {0, 1}
MCIds       == {"i1", "i2"}
MCReadReqs  == {Req(4, "i1", 1, WRAP), Req(0, "i2", 0, INCR)}
MCWriteReqs == {Req(0, "i1", 1, INCR), Req(4, "i2", 0, FIXED)}

\* The bursts whose addresses are compared: every start in two pages, every
\* size and kind, lengths around each power of two.
MCStarts == 0..255
MCLens   == {0, 1, 2, 3, 5, 7, 12, 15, 31}

\* Values are only moved and compared.
Symmetry == Permutations(Values)
=============================================================================
