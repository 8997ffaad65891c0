------------------------------ MODULE MCSemFifo ------------------------------
\* Small instances of SemFifo for TLC.
EXTENDS SemFifo

CONSTANTS r, v, w     \* processes
==============================================================================
