--------------------------- MODULE MCDurableSteps ---------------------------
EXTENDS DurableSteps, TLC

Symmetry == Permutations(Workers)
=============================================================================
