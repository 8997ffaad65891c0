-------------------------------- MODULE Sched --------------------------------
(***************************************************************************)
(* Operating Systems/Project9-Scheduler/sched.c: a preemptive scheduler of *)
(* simulated tasks inside one process.  SIGVTALRM is the timer interrupt   *)
(* and masking it is the only protection of the scheduler's data.          *)
(*                                                                         *)
(* A function of sched.c runs with SIGVTALRM masked from its first line,   *)
(* so everything up to its sigprocmask(SIG_UNBLOCK) is one action; what it *)
(* does after that line is an action of its own, which a tick may precede. *)
(* ctl[p] says where task p goes on when it runs.                          *)
(***************************************************************************)
EXTENDS Integers, FiniteSets

CONSTANTS NProc,      \* SCHED_NPROC: pids are 1 .. NProc-1
          Nice,       \* 20: nice values are -Nice .. Nice-1
          NiceArgs,   \* the arguments tasks give to sched_nice
          MaxTicks,   \* bound: timer ticks
          MaxTasks    \* bound: tasks ever created, the first one included

ASSUME NProcAssumption == NProc \in Nat /\ NProc > 1
ASSUME NiceAssumption  == Nice \in Nat \ {0} /\ NiceArgs \subseteq Int
ASSUME BoundAssumption == MaxTicks \in Nat /\ MaxTasks \in Nat \ {0}

Pids  == 1 .. NProc - 1
Ids   == 1 .. MaxTasks
NoTask == [state |-> "none"]

VARIABLES procs,      \* q.procs: the task of each pid, or NoTask
          current,    \* the pid of current
          next,       \* next->pid
          numticks,
          masked,     \* SIGVTALRM is blocked while user code runs
          halted,     \* the process has called exit(0)
          ctl,        \* per pid, where the task goes on
          kid,        \* per pid, the child its last sched_fork created
          \* history: tasks are numbered 1, 2, ... as they are created, since
          \* a pid is used again when its task is gone
          id,         \* per pid, the number of its task
          mother,     \* per number, the number of the task that forked it
          made,       \* how many tasks there have been
          dead,       \* the numbers of the tasks that have called sched_exit
          reaped      \* pairs <<m, code>>: sched_wait gave code to task m

hist  == <<id, mother, made, dead, reaped>>
vars  == <<procs, current, next, numticks, masked, halted, ctl, kid, hist>>

NewTask(p) == [state |-> "ready", nice |-> 0, quantum |-> Nice, act |-> 0,
               dyn |-> 0, slot |-> Nice, parent |-> p, exit |-> 0,
               childExit |-> 0]

\* The increment of dynamic_p for one tick, 21+niceval.
Weight(n) == Nice + 1 + n

Init == /\ procs = [p \in Pids |-> IF p = 1
                                   THEN [NewTask(0) EXCEPT !.state = "running"]
                                   ELSE NoTask]
        /\ current = 1
        /\ next = 0
        /\ numticks = 0
        /\ masked = FALSE
        /\ halted = FALSE
        /\ ctl = [p \in Pids |-> "user"]
        /\ kid = [p \in Pids |-> 0]
        /\ id = [p \in Pids |-> IF p = 1 THEN 1 ELSE 0]
        /\ mother = [n \in Ids |-> 0]
        /\ made = 1
        /\ dead = {}
        /\ reaped = {}

In(t, p)       == p \in Pids /\ t[p] # NoTask
Has(t, p, st)  == In(t, p) /\ t[p].state = st
Children(t, p) == {c \in Pids : In(t, c) /\ t[c].parent = p}
Zombies(t, p)  == {c \in Children(t, p) : t[c].state = "zombie"}
Lowest(S)      == CHOOSE x \in S : \A y \in S : x <= y

------------------------------------------------------------------------------
\* sched_findlowest: of the READY tasks with the lowest dynamic_p, the one
\* with the lowest pid.
Ready(t)      == {p \in Pids : Has(t, p, "ready")}
\* Fault: the highest dynamic_p instead of the lowest.
BestReversed(t) == {p \in Ready(t) : \A r \in Ready(t) : t[p].dyn >= t[r].dyn}
Best(t)       == {p \in Ready(t) : \A r \in Ready(t) : t[p].dyn <= t[r].dyn}
FindLowest(t) == Lowest(Best(t))

\* The tail of sched_switch once the table is t and the suspended tasks go on
\* at k: go to the best READY task, or print "all procs ended" and exit(0).
\* Wherever that task was suspended, it first unblocks SIGVTALRM: in
\* sched_fork (a new child, which returns 0), or in sched_switch itself.
Dispatch(t, k) ==
    \/ /\ Ready(t) = {}
       /\ procs' = t
       /\ ctl' = k
       /\ next' = 0
       /\ halted' = TRUE
       /\ UNCHANGED <<current, masked>>
    \/ /\ Ready(t) # {}
       /\ LET n == FindLowest(t) IN
             /\ procs' = [t EXCEPT ![n].state = "running"]
             /\ current' = n
             /\ next' = n
             /\ ctl' = [k EXCEPT ![n] = CASE @ = "child"  -> "user"
                                          [] @ = "asleep" -> "woken"
                                          [] OTHER        -> @]
       /\ masked' = FALSE
       /\ UNCHANGED halted

\* Fault: the time slot is not filled up.
YieldNoRefill(t) == [t EXCEPT ![current].state = "ready"]

\* Fault: the task stays RUNNING.
YieldStillRunning(t) == [t EXCEPT ![current].slot = t[current].quantum]

\* sched_switch for a RUNNING task: it is READY again, with a full time slot.
Yield(t) == [t EXCEPT ![current].state = "ready",
                      ![current].slot = t[current].quantum]

\* The current task is executing user code or, for at # "user", the
\* statements of a scheduler function after it has unblocked SIGVTALRM.
Running(at) == ~halted /\ ctl[current] = at

Resume(at) == ctl' = [ctl EXCEPT ![current] = at]

------------------------------------------------------------------------------
\* sched_tick, the handler of SIGVTALRM.
Tick == /\ ~halted /\ ~masked
        /\ numticks < MaxTicks
        /\ numticks' = numticks + 1
        /\ LET c == procs[current]
               t == [procs EXCEPT ![current].act = c.act + 1,
                                  ![current].slot = c.slot - 1,
                                  ![current].dyn = Weight(c.nice) * (c.act + 1)]
           IN \/ /\ c.slot - 1 # 0
                 /\ procs' = t
                 /\ UNCHANGED <<current, next, masked, halted, ctl>>
              \/ /\ c.slot - 1 = 0
                 /\ Dispatch(Yield(t), ctl)
        /\ UNCHANGED <<kid, id, mother, made, dead, reaped>>

\* sched_fork when all pids are in use: -1, SIGVTALRM left blocked.
ForkFull == /\ Running("user")
            /\ \A p \in Pids : In(procs, p)
            /\ masked' = TRUE
            /\ UNCHANGED <<procs, current, next, numticks, halted, ctl, kid, hist>>

\* sched_fork when mmap fails: the same, after next was pointed to the struct
\* that is now lost.
ForkNoStack == /\ Running("user")
               /\ \E p \in Pids : ~In(procs, p)
               /\ next' = Lowest({p \in Pids : ~In(procs, p)})
               /\ masked' = TRUE
               /\ UNCHANGED <<procs, current, numticks, halted, ctl, kid, hist>>

\* sched_fork up to its sigprocmask(SIG_UNBLOCK) in the parent.
Fork == /\ Running("user")
        /\ made < MaxTasks
        /\ \E p \in Pids : ~In(procs, p)
        /\ LET p == Lowest({x \in Pids : ~In(procs, x)}) IN
              /\ procs' = [procs EXCEPT ![p] = NewTask(current)]
              /\ next' = p
              /\ kid' = [kid EXCEPT ![current] = p]
              /\ ctl' = [ctl EXCEPT ![current] = "forked", ![p] = "child"]
              /\ id' = [id EXCEPT ![p] = made + 1]
        /\ mother' = [mother EXCEPT ![made + 1] = id[current]]
        /\ made' = made + 1
        /\ masked' = FALSE
        /\ UNCHANGED <<current, numticks, halted, dead, reaped>>

\* return next->pid
ForkReturn == /\ Running("forked")
              /\ Resume("user")
              /\ kid' = [kid EXCEPT ![current] = 0]
              /\ UNCHANGED <<procs, current, next, numticks, masked, halted, hist>>

\* Fault: the code is handed to any parent, asleep or not.
ExitToAnyParent(code) ==
    /\ Running("user")
    /\ LET p == procs[current].parent IN
          \/ /\ In(procs, p)
             /\ Dispatch([procs EXCEPT ![p].childExit = code,
                                       ![p].state = "ready",
                                       ![current] = NoTask], ctl)
          \/ /\ ~In(procs, p)
             /\ Dispatch([procs EXCEPT ![current].state = "zombie",
                                       ![current].exit = code], ctl)
    /\ dead' = dead \cup {id[current]}
    /\ UNCHANGED <<numticks, kid, id, mother, made, reaped>>

\* Fault: the parent is left asleep.
ExitNoWake(code) ==
    /\ Running("user")
    /\ LET p == procs[current].parent IN
          \/ /\ Has(procs, p, "sleeping")
             /\ Dispatch([procs EXCEPT ![p].childExit = code,
                                       ![current] = NoTask], ctl)
          \/ /\ ~Has(procs, p, "sleeping")
             /\ Dispatch([procs EXCEPT ![current].state = "zombie",
                                       ![current].exit = code], ctl)
    /\ dead' = dead \cup {id[current]}
    /\ UNCHANGED <<numticks, kid, id, mother, made, reaped>>

\* sched_exit: hand the code to a parent asleep in sched_wait and leave the
\* table, or else keep it as a zombie; then sched_switch.
Exit(code) ==
    /\ Running("user")
    /\ LET p == procs[current].parent IN
          \/ /\ Has(procs, p, "sleeping")
             /\ Dispatch([procs EXCEPT ![p].childExit = code,
                                       ![p].state = "ready",
                                       ![current] = NoTask], ctl)
          \/ /\ ~Has(procs, p, "sleeping")
             /\ Dispatch([procs EXCEPT ![current].state = "zombie",
                                       ![current].exit = code], ctl)
    /\ dead' = dead \cup {id[current]}
    /\ UNCHANGED <<numticks, kid, id, mother, made, reaped>>

\* sched_wait without children: -1, SIGVTALRM left blocked.
WaitNoChild == /\ Running("user")
               /\ Children(procs, current) = {}
               /\ masked' = TRUE
               /\ UNCHANGED <<procs, current, next, numticks, halted, ctl, kid, hist>>

\* Fault: any zombie is taken.
WaitAnyZombie == /\ Running("user")
                 /\ Zombies(procs, current) # {}
                 /\ LET z == Lowest({p \in Pids : Has(procs, p, "zombie")}) IN
                       /\ reaped' = reaped \cup {<<id[current], procs[z].exit>>}
                       /\ procs' = [procs EXCEPT ![z] = NoTask]
                 /\ masked' = FALSE
                 /\ UNCHANGED <<current, next, numticks, halted, ctl, kid,
                                id, mother, made, dead>>

\* sched_wait with a zombie child (sched_zombie finds the one with the lowest
\* pid): its code is returned and it leaves the table.
WaitZombie == /\ Running("user")
              /\ Zombies(procs, current) # {}
              /\ LET z == Lowest(Zombies(procs, current)) IN
                    /\ reaped' = reaped \cup {<<id[current], procs[z].exit>>}
                    /\ procs' = [procs EXCEPT ![z] = NoTask]
              /\ masked' = FALSE
              /\ UNCHANGED <<current, next, numticks, halted, ctl, kid,
                             id, mother, made, dead>>

\* Fault: zombies are not looked for.
WaitSleepAlways == /\ Running("user")
                   /\ Children(procs, current) # {}
                   /\ Dispatch([procs EXCEPT ![current].state = "sleeping"],
                               [ctl EXCEPT ![current] = "asleep"])
                   /\ UNCHANGED <<numticks, kid, id, mother, made, dead, reaped>>

\* sched_wait with children but no zombie: sleep, in sched_switch.
WaitSleep == /\ Running("user")
             /\ Children(procs, current) # {}
             /\ Zombies(procs, current) = {}
             /\ Dispatch([procs EXCEPT ![current].state = "sleeping"],
                         [ctl EXCEPT ![current] = "asleep"])
             /\ UNCHANGED <<numticks, kid, id, mother, made, dead, reaped>>

\* *exit_code=current->child_exit, in the awakened task, with SIGVTALRM
\* already unblocked by sched_switch
WaitRead == /\ Running("woken")
            /\ Resume("read")
            /\ reaped' = reaped \cup {<<id[current], procs[current].childExit>>}
            /\ UNCHANGED <<procs, current, next, numticks, masked, halted, kid,
                           id, mother, made, dead>>

\* current->child_exit=0; return 0
WaitClear == /\ Running("read")
             /\ Resume("user")
             /\ procs' = [procs EXCEPT ![current].childExit = 0]
             /\ masked' = FALSE
             /\ UNCHANGED <<current, next, numticks, halted, kid, hist>>

\* MIN(19, MAX(-20, niceval))
Clamp(n) == IF n < -Nice THEN -Nice ELSE IF n > Nice - 1 THEN Nice - 1 ELSE n

\* Fault: the priority is not computed again.
SetNiceStale(n) == /\ Running("user")
                   /\ procs' = [procs EXCEPT
                                  ![current].nice = Clamp(n),
                                  ![current].quantum = Nice - Clamp(n),
                                  ![current].slot = Nice - Clamp(n)]
                   /\ masked' = FALSE
                   /\ UNCHANGED <<current, next, numticks, halted, ctl, kid, hist>>

\* sched_nice: the quantum and the priority follow the new nice value, and
\* the time slot is filled up.
SetNice(n) == /\ Running("user")
              /\ procs' = [procs EXCEPT
                             ![current].nice = Clamp(n),
                             ![current].quantum = Nice - Clamp(n),
                             ![current].dyn = Weight(Clamp(n)) * procs[current].act,
                             ![current].slot = Nice - Clamp(n)]
              /\ masked' = FALSE
              /\ UNCHANGED <<current, next, numticks, halted, ctl, kid, hist>>

\* What tasks do between ticks: any sequence of calls.  A task ends with its
\* own number as exit code, so that codes tell tasks apart.
Call == \/ ForkFull \/ ForkNoStack \/ Fork \/ Exit(id[current])
        \/ WaitNoChild \/ WaitZombie \/ WaitSleep
        \/ \E n \in NiceArgs : SetNice(n)

Next == Tick \/ Call \/ ForkReturn \/ WaitRead \/ WaitClear

Spec == Init /\ [][Next]_vars

------------------------------------------------------------------------------
Task == [state : {"ready", "running", "sleeping", "zombie"},
         nice : -Nice .. Nice - 1, quantum : Nat, act : Nat, dyn : Nat,
         slot : Nat, parent : 0 .. NProc - 1, exit : Int, childExit : Int]

Points == {"user", "child", "forked", "asleep", "woken", "read"}

\* Type of the state: current is always a task of the table.
TypeOK == /\ procs \in [Pids -> Task \cup {NoTask}]
          /\ current \in Pids
          /\ next \in 0 .. NProc - 1
          /\ numticks \in Nat
          /\ masked \in BOOLEAN
          /\ halted \in BOOLEAN
          /\ ctl \in [Pids -> Points]
          /\ kid \in [Pids -> 0 .. NProc - 1]

\* As long as the scheduler runs, current is the only RUNNING task: a context
\* switch leaves the states of the two tasks in agreement with where the
\* processor is (sched.c:151, 199, 301, 315-316).
OneRunning == ~halted => {p \in Pids : Has(procs, p, "running")} = {current}

\* The time slot of a task that can run is neither used up nor larger than
\* its quantum.  At zero sched_tick would go on below zero and never switch
\* again: this is what the clamp to 19 is for (sched.c:229-234, 302, 327-333).
SlotInRange == \A p \in Pids : In(procs, p) =>
                  procs[p].slot \in 1 .. procs[p].quantum

\* The dynamic priority is up to date with the nice value and the accumulated
\* time it is computed from, for every task in the table (sched.c:233, 329).
PriorityFresh == \A p \in Pids : In(procs, p) =>
                    procs[p].dyn = Weight(procs[p].nice) * procs[p].act

\* A task sleeps in sched_wait only while it has a child and none of its
\* children is a zombie: no sched_exit is missed between the search for a
\* zombie and the sleep, and whoever sleeps can be awakened (sched.c:153-164,
\* 192-200).
SleeperSound ==
    \A p \in Pids : Has(procs, p, "sleeping") =>
        /\ Children(procs, p) # {}
        /\ Zombies(procs, p) = {}
        /\ ctl[p] = "asleep"

\* The exit code of a task that has ended is in exactly one place: with its
\* zombie, on its way to the awakened parent, or with whoever reaped it.  A
\* code is never overwritten before it is read and never given twice
\* (sched.c:153-164, 198-207).
Places(n) ==
    Cardinality({p \in Pids : Has(procs, p, "zombie") /\ procs[p].exit = n})
    + Cardinality({p \in Pids : /\ In(procs, p) /\ procs[p].childExit = n
                                /\ ctl[p] # "read"})
    + Cardinality({x \in reaped : x[2] = n})

ExitCodesKept == \A n \in dead : Places(n) = 1

\* The parent field of every task is the pid of the task that forked it, or
\* of nobody: no pid has gone to another task while a child still names it.
Genuine == \A c \in Pids : In(procs, c) /\ In(procs, procs[c].parent) =>
               id[procs[c].parent] = mother[id[c]]

AllEnded == \A p \in Pids : In(procs, p) => procs[p].state = "zombie"

\* As long as no pid has been taken over by another task, "all procs ended"
\* is true when the scheduler prints it: no task is left asleep (sched.c:306).
EndedWhenGenuine == halted /\ Genuine => AllEnded

\* The same without the condition, as the message says it (sched.c:308).
EndedWhenHalted == halted => AllEnded

\* sched_wait gives a task the exit codes of its own children, or of tasks
\* whose mother is gone and whose parent field names its pid (sched.c:153,
\* 177): a task that is still there never loses a child to another.
ReapedByMother == \A x \in reaped : mother[x[2]] = x[1] \/ mother[x[2]] \in dead

\* sched_fork returns the pid of the child to the parent
\* (pset-w09.ps:311-312): what "return next->pid" is about to return.
ForkReturnsChild == Running("forked") => next = kid[current]
==============================================================================
