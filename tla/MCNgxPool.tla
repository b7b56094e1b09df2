------------------------------ MODULE MCNgxPool ------------------------------
\* Blocks of 6 bytes (4 in the first), alignment 2, up to five pieces in up
\* to four blocks: blocks fill, fail, are given up, emptied and reset.
EXTENDS NgxPool
=============================================================================
