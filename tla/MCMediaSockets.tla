--------------------------- MODULE MCMediaSockets ---------------------------
EXTENDS MediaSockets, TLC
CONSTANTS s1, s2
MCSessions == {s1, s2}
Symmetry == Permutations(MCSessions)
=============================================================================
