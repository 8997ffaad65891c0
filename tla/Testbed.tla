------------------------------- MODULE Testbed -------------------------------
(***************************************************************************)
(* Operating Systems/Project9-Scheduler/testbed.c on top of Sched: the     *)
(* first task forks two children, one with nice -20 and one with nice 20,  *)
(* every task counts to the same number, the first task waits for both     *)
(* children, and every task ends with sched_exit.                          *)
(***************************************************************************)
EXTENDS Sched

CONSTANTS Work,       \* ticks of processor time that one counting loop takes
          Slack       \* bound: ticks that arrive outside the counting loops

ASSUME WorkAssumption == Work \in Nat \ {0} /\ Slack \in Nat

VARIABLES prog,       \* per pid, the statement of testbed.c the task is at
          left,       \* per pid, what is left of its counting loop, in ticks
          other       \* ticks so far that arrived outside the loops

bedVars == <<prog, left, other>>
allVars == <<vars, bedVars>>

BedInit == /\ Init
           /\ prog = [p \in Pids |-> IF p = 1 THEN "fork1" ELSE "none"]
           /\ left = [p \in Pids |-> Work]
           /\ other = 0

\* The running task is at statement a of its user code, and goes on to b.
At(a)   == Running("user") /\ prog[current] = a
Step(b) == prog' = [prog EXCEPT ![current] = b]

\* The three loops take the same processor time; a tick is a unit of it.
Counting == prog[current] \in {"count0", "count1", "count2"} /\ left[current] > 0

BedTick == /\ Tick
           /\ \/ /\ Counting
                 /\ left' = [left EXCEPT ![current] = @ - 1]
                 /\ UNCHANGED other
              \/ /\ ~Counting
                 /\ other < Slack
                 /\ other' = other + 1
                 /\ UNCHANGED left
           /\ UNCHANGED prog

\* init_fn: the two calls of sched_fork.  A child goes on at its sched_nice.
InitFork == /\ Fork
            /\ \/ /\ At("fork1")
                  /\ prog' = [prog EXCEPT ![current] = "fork2", ![next'] = "nice1"]
               \/ /\ At("fork2")
                  /\ prog' = [prog EXCEPT ![current] = "count0", ![next'] = "nice2"]
            /\ UNCHANGED <<left, other>>

\* sched_fork returns -1: "fork error!" and exit(1) of the whole process.
InitForkError == /\ At("fork1") \/ At("fork2")
                 /\ ForkNoStack
                 /\ Step("error")
                 /\ UNCHANGED <<left, other>>

Abort == /\ At("error")
         /\ halted' = TRUE
         /\ UNCHANGED <<procs, current, next, numticks, masked, ctl, kid, hist, bedVars>>

\* The children: sched_nice, the loop, sched_exit.
Child1Nice == At("nice1") /\ SetNice(-Nice) /\ Step("count1") /\ UNCHANGED <<left, other>>
Child2Nice == At("nice2") /\ SetNice(Nice) /\ Step("count2") /\ UNCHANGED <<left, other>>

Child1Exit == At("count1") /\ ~Counting /\ Exit(1) /\ UNCHANGED bedVars
Child2Exit == At("count2") /\ ~Counting /\ Exit(2) /\ UNCHANGED bedVars

\* parent: the loop, sched_wait twice, sched_exit.
ParentWait == /\ \/ At("count0") /\ ~Counting /\ Step("wait2")
                 \/ At("wait2") /\ Step("exit0")
              /\ WaitZombie \/ WaitSleep
              /\ UNCHANGED <<left, other>>

ParentExit == At("exit0") /\ Exit(0) /\ UNCHANGED bedVars

\* What is left of sched_fork and sched_wait after they unblock SIGVTALRM.
Return == (ForkReturn \/ WaitRead \/ WaitClear) /\ UNCHANGED bedVars

BedNext == \/ BedTick \/ InitFork \/ InitForkError \/ Abort
           \/ Child1Nice \/ Child2Nice \/ Child1Exit \/ Child2Exit
           \/ ParentWait \/ ParentExit \/ Return

BedSpec == BedInit /\ [][BedNext]_allVars

\* The processor goes on executing and the timer goes on ticking.
FairBed == BedSpec /\ WF_allVars(BedNext)

------------------------------------------------------------------------------
\* Every run of the testbed ends; unless a fork failed, the first task has
\* then got both exit codes, the tasks of both children are gone and the
\* first one is left as a zombie (testbed.c:72-76).
Completes == <>[](/\ halted
                  /\ \/ prog[1] = "error"
                     \/ /\ reaped = {<<1, 1>>, <<1, 2>>}
                        /\ {p \in Pids : In(procs, p)} = {1}
                        /\ procs[1].state = "zombie")

\* The schedule the comment of testbed.c:17-22 describes: pid 2 does its whole
\* job uninterrupted, pid 3 has not started before that, and pid 1 finishes
\* its own loop after pid 2, when pid 3 has done some of its own but less
\* than half.
AsDescribed ==
    /\ Has(procs, 2, "ready") => prog[2] = "nice1"
    /\ left[2] > 0 => left[3] = Work
    /\ left[1] > 0 => 2 * left[3] > Work
    /\ left[1] = 0 => left[2] = 0 /\ left[3] < Work

==============================================================================
