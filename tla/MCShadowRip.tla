----------------------------- MODULE MCShadowRip -----------------------------
EXTENDS ShadowRip, TLC

Symmetry == Permutations(Slots)
=============================================================================
