------------------------------ MODULE MCICVMap ------------------------------
(* Six granules in pages of three entries, and three check values.          *)
EXTENDS ICVMap
=============================================================================
