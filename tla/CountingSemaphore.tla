-------------------------- MODULE CountingSemaphore --------------------------
(***************************************************************************)
(* Counting semaphores as the callers of sem.h may see them: an integer    *)
(* per semaphore, "P" that atomically takes a unit and blocks while there  *)
(* is none (sem_wait), "V" that atomically adds one (sem_inc), and "peek"  *)
(* that atomically tells whether there is a unit (what sem_try does; it is *)
(* asked to take the unit, see TryTakesUnit in Semaphore.tla, the code     *)
(* that implements this).                                                  *)
(***************************************************************************)
EXTENDS Integers

CONSTANTS Procs,      \* the processes that share the semaphores
          Sems,       \* the semaphores
          InitCount   \* the count given to sem_init, per semaphore

VARIABLES avail,      \* units left, per semaphore
          op          \* the operation each process is waiting to have done

aVars == <<avail, op>>

NoOp == [kind |-> "none"]
Ops(k) == [kind : {k}, sem : Sems]

Init == /\ avail = InitCount
        /\ op = [p \in Procs |-> NoOp]

\* A process asks for an operation and is committed to it.
Request(p) == /\ op[p] = NoOp
              /\ \E o \in Ops("P") \cup Ops("V") \cup Ops("peek") :
                    op' = [op EXCEPT ![p] = o]
              /\ UNCHANGED avail

Done(p, s, d) == /\ avail' = [avail EXCEPT ![s] = @ + d]
                 /\ op' = [op EXCEPT ![p] = NoOp]

\* "P": blocks until there is a unit, then takes it.
P(p, s) == /\ op[p] = [kind |-> "P", sem |-> s]
           /\ avail[s] > 0
           /\ Done(p, s, -1)

\* "V": adds a unit.
V(p, s) == /\ op[p] = [kind |-> "V", sem |-> s]
           /\ Done(p, s, 1)

\* "peek": looks, and leaves the units where they are.
Peek(p, s) == /\ op[p] = [kind |-> "peek", sem |-> s]
              /\ Done(p, s, 0)

Next == \E p \in Procs : \/ Request(p)
                         \/ \E s \in Sems : P(p, s) \/ V(p, s) \/ Peek(p, s)

Spec == Init /\ [][Next]_aVars
==============================================================================
