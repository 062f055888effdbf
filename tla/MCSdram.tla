------------------------------ MODULE MCSdram -------------------------------
EXTENDS SdramSystem, TLC

\* Rows, data and contexts are compared and moved, never ordered: sound.
Symmetry == Permutations(Rows) \cup Permutations(Values) \cup Permutations(Contexts)
=============================================================================
