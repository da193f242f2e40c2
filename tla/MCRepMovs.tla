------------------------------ MODULE MCRepMovs ------------------------------
EXTENDS RepMovs

CONSTANTS srcTag, dstTag

\* Two buffers of two granules, with a free granule before, between and after them.
MCGranule == 0 .. 6
MCBuffer == [t \in {srcTag, dstTag} |-> IF t = srcTag THEN 2 .. 5 ELSE 8 .. 11]
=============================================================================
