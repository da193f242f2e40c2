----------------------------- MODULE MCPipeline -----------------------------
EXTENDS Pipeline

\* Two pages of two bytes, so that a two-byte access can cross.  The first block crosses the
\* page boundary and takes all four bytes for its slot; the second is the last byte.
MCBoxes == {<<5, 2, 1>>, <<7, 1, 2>>}

MCStackBox == <<7, 1, 2>>
=============================================================================
