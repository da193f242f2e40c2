-------------------------------- MODULE Words --------------------------------
(***************************************************************************)
(* Machine words as functions from bit positions to bits.                  *)
(***************************************************************************)
EXTENDS Integers

Bit == {0, 1}

xor(a, b) == (a + b) % 2
=============================================================================
