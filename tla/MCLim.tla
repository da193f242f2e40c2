------------------------------- MODULE MCLim --------------------------------
EXTENDS Lim

\* In slots of 8, 32, 32 and 4 bytes, with metadata of 2, 4, 4 and 1.  The second spans four
\* pages; its metadata, and the bytes displaced by it, lie across page boundaries.  The third
\* has less room behind the metadata than that takes.
MCAllocs == {<<32, 4, 1>>, <<38, 16, 2>>, <<40, 8, 2>>, <<60, 3, 1>>}

\* Around the bounds, the metadata (35, 46, 62) and the page boundaries.
MCStarts == {35, 38, 44, 47, 52, 61}
=============================================================================
