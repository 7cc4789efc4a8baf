--------------------------- MODULE MCControlSystem ---------------------------
\* Blocks are interchangeable: runs that check safety alone may permute them.
EXTENDS ControlSystem, TLC

Interchangeable == Permutations(Blocks)
=============================================================================
