----------------------------- MODULE MCIntegrity -----------------------------
(* Integrity over two adjacent granules and two interchangeable tags.        *)
EXTENDS Integrity, TLC

TagSymmetry == Permutations(Tags)
=============================================================================
