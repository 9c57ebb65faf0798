---------------------------- MODULE MCSafeSurface ----------------------------
EXTENDS SafeSurface, TLC
Symmetry == Permutations(Tasks)
=============================================================================
