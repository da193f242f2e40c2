----------------------------- MODULE MCCcMalloc -----------------------------
(* CcMalloc with interchangeable blocks (those that try_box treats alike).   *)
EXTENDS CcMalloc, TLC

BlockSymmetry == Permutations(Boxable)
=============================================================================
