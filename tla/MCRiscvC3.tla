----------------------------- MODULE MCRiscvC3 -------------------------------
(* x0 and two registers, one CA, its linear address and one more value.      *)
EXTENDS RiscvC3

CONSTANTS ca, la

MCDecode == [c \in {ca} |-> la]
=============================================================================
