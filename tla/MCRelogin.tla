----------------------------- MODULE MCRelogin ------------------------------
EXTENDS Relogin, TLC

Symmetry == Permutations(Pages) \cup Permutations(Names \ {Empty})
=============================================================================
