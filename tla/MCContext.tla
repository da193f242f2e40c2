------------------------------ MODULE MCContext ------------------------------
\* Two tasks, the second with its stack behind encoded addresses; with the ciphers whose keys
\* the context holds, whose assumptions TLC evaluates.
EXTENDS Context, BipBip, DataEncryption
=============================================================================
