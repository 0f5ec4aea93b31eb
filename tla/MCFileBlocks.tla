---------------------------- MODULE MCFileBlocks ----------------------------
EXTENDS FileDisk

\* Bytes that tell the file and the place they were written at, and could be
\* block numbers.
FileAndPlace(i, p) == 1 + ((7 * i + p) % NBlocks)
=============================================================================
