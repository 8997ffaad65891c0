----------------------------- MODULE MCSemaphore -----------------------------
\* Small instances of Semaphore for TLC.
EXTENDS Semaphore, TLC

CONSTANTS a, b, c,    \* processes
          x, y        \* semaphores

\* One semaphore that is free once, like a lock, and one that starts empty.
LockAndEmpty == x :> 1 @@ y :> 0

ProcSymmetry == Permutations(Procs)
==============================================================================
