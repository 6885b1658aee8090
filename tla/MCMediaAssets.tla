---------------------------- MODULE MCMediaAssets ----------------------------
\* Two connections that are interchangeable, one upload and one download at a time, two tasks.
EXTENDS MediaAssets, TLC
Symmetry == Permutations(Conns)
=============================================================================
