------------------------------ MODULE MCSched ------------------------------
\* Small instances of Sched for TLC.
EXTENDS Sched

\* Two arguments outside the range of nice values, and one inside.
BeyondRange == {-(Nice + 1), Nice}
WithinRange == {-1}
==============================================================================
