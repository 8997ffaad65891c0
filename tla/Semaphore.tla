------------------------------ MODULE Semaphore ------------------------------
(***************************************************************************)
(* Operating Systems/Project7-Semaphore_FIFO/sem.c: counting semaphores in *)
(* memory shared by processes, made of a test-and-set spin lock, a count,  *)
(* a table of sleeping pids and SIGUSR1 as the wake-up call.               *)
(*                                                                         *)
(* One action per access to shared memory and per system call, so that     *)
(* every interleaving of the processes' instructions is a behaviour.  The  *)
(* spin "while(tas(..)!=0)" is an action enabled when the lock is free: a  *)
(* failing tas writes the value that is already there.  count++ and        *)
(* count-- are a load into a register and a store.                         *)
(***************************************************************************)
EXTENDS Integers, FiniteSets

CONSTANTS Procs,      \* processes, identified by pid
          NoPid,      \* the pid 0 of an empty slot of q
          Sems,       \* the struct sem objects
          InitCount,  \* the count given to sem_init, per semaphore
          NSlots,     \* N_PROC, the length of q
          Calls,      \* the operations the clients use
          MaxCount    \* bound: clients call sem_inc only below this count

ASSUME PidAssumption   == NoPid \notin Procs
ASSUME CountAssumption == Sems # {} /\ InitCount \in [Sems -> Nat]
ASSUME SlotAssumption  == NSlots \in Nat
ASSUME CallAssumption  == Calls \subseteq {"wait", "inc", "try"}

Slots == 1 .. NSlots

VARIABLES count,      \* s->count
          lock,       \* s->lock, 0 or 1
          q,          \* s->q: the pid in each slot, or NoPid
          pending,    \* SIGUSR1 is pending for the process
          handler,    \* the process has installed sighand
          pc,         \* where the process is
          cur,        \* the semaphore it called with
          idx,        \* the slot i found by sem_wait
          reg         \* the count it has loaded

shared == <<count, lock, q>>
local  == <<cur, idx, reg>>
semVars == <<count, lock, q, pending, handler, pc, cur, idx, reg>>

\* Program points.  In Critical the process has the lock of cur; the
\* process in "helped" has called exit(1) without giving it back.
WaitCritical == {"w_test", "w_dec", "w_find", "w_inst", "w_enq", "w_rel", "w_unl"}
IncCritical  == {"i_load", "i_store", "i_scan", "i_unl"}
TryCritical  == {"t_test", "t_unl"}
Critical     == WaitCritical \cup IncCritical \cup TryCritical \cup {"helped"}
Points       == Critical \cup
                {"idle", "w_tas", "w_susp", "w_sleep", "i_tas", "t_tas", "killed"}

SemInit == /\ count = InitCount
           /\ lock = [s \in Sems |-> 0]
           /\ q = [s \in Sems |-> [i \in Slots |-> NoPid]]
           /\ pending = [p \in Procs |-> FALSE]
           /\ handler = [p \in Procs |-> FALSE]
           /\ pc = [p \in Procs |-> "idle"]
           /\ cur = [p \in Procs |-> CHOOSE s \in Sems : TRUE]
           /\ idx = [p \in Procs |-> 0]
           /\ reg = [p \in Procs |-> 0]

Goto(p, a, b) == /\ pc[p] = a
                 /\ pc' = [pc EXCEPT ![p] = b]

Call(p, s, entry) == /\ Goto(p, "idle", entry)
                     /\ cur' = [cur EXCEPT ![p] = s]
                     /\ UNCHANGED <<shared, pending, handler, idx, reg>>

\* Fault: the answer of tas is ignored.
TasUnchecked(p, a, b) == /\ Goto(p, a, b)
                         /\ lock' = [lock EXCEPT ![cur[p]] = 1]
                         /\ UNCHANGED <<count, q, pending, handler, local>>

\* while(tas(&(s->lock))!=0) {}
Tas(p, a, b) == /\ Goto(p, a, b)
                /\ lock[cur[p]] = 0
                /\ lock' = [lock EXCEPT ![cur[p]] = 1]
                /\ UNCHANGED <<count, q, pending, handler, local>>

\* s->lock=0
Unlock(p, a, b) == /\ Goto(p, a, b)
                   /\ lock' = [lock EXCEPT ![cur[p]] = 0]
                   /\ UNCHANGED <<count, q, pending, handler>>

\* The same as the last statement of a function, whose locals are then gone.
Leave(p, a) == /\ Unlock(p, a, "idle")
               /\ idx' = [idx EXCEPT ![p] = 0]
               /\ reg' = [reg EXCEPT ![p] = 0]
               /\ UNCHANGED cur

------------------------------------------------------------------------------
\* sem_wait

CallWait(p, s) == Call(p, s, "w_tas")

WaitTas(p) == Tas(p, "w_tas", "w_test")

\* while (s->count==0): leave the loop with the count loaded ...
WaitNonZero(p) == /\ Goto(p, "w_test", "w_dec")
                  /\ count[cur[p]] # 0
                  /\ reg' = [reg EXCEPT ![p] = count[cur[p]]]
                  /\ UNCHANGED <<shared, pending, handler, cur, idx>>

\* ... or enter its body.
WaitZero(p) == /\ Goto(p, "w_test", "w_find")
               /\ count[cur[p]] = 0
               /\ UNCHANGED <<shared, pending, handler, local>>

\* Fault: the search stops before the last slot.
FreeShort(s) == {i \in Slots : i < NSlots /\ q[s][i] = NoPid}

\* The empty entries of q.
Free(s) == {i \in Slots : q[s][i] = NoPid}

\* The first empty entry of q.
WaitFind(p) == /\ Goto(p, "w_find", "w_inst")
               /\ \E i \in Free(cur[p]) :
                     /\ \A k \in Free(cur[p]) : i <= k
                     /\ idx' = [idx EXCEPT ![p] = i]
               /\ UNCHANGED <<shared, pending, handler, cur, reg>>

\* if (i>=64): "HELP!!!" and exit(1), with the lock held.
WaitHelp(p) == /\ Goto(p, "w_find", "helped")
               /\ Free(cur[p]) = {}
               /\ UNCHANGED <<shared, pending, handler, local>>

\* signal(SIGUSR1,sighand)
WaitInstall(p) == /\ Goto(p, "w_inst", "w_enq")
                  /\ handler' = [handler EXCEPT ![p] = TRUE]
                  /\ UNCHANGED <<shared, pending, local>>

\* s->q[i]=pid
WaitEnqueue(p) == /\ Goto(p, "w_enq", "w_rel")
                  /\ q' = [q EXCEPT ![cur[p]][idx[p]] = p]
                  /\ UNCHANGED <<count, lock, pending, handler, local>>

WaitRelease(p) == Unlock(p, "w_rel", "w_susp") /\ UNCHANGED local

\* sigsuspend(&mask) is entered.  SIGUSR1 was never blocked before it.
WaitSuspend(p) == /\ Goto(p, "w_susp", "w_sleep")
                  /\ UNCHANGED <<shared, pending, handler, local>>

\* The handler has run inside sigsuspend, which returns: take the lock again.
WaitWake(p) == /\ Goto(p, "w_sleep", "w_tas")
               /\ pending[p]
               /\ pending' = [pending EXCEPT ![p] = FALSE]
               /\ UNCHANGED <<shared, handler, local>>

\* s->count--
WaitDec(p) == /\ Goto(p, "w_dec", "w_unl")
              /\ count' = [count EXCEPT ![cur[p]] = reg[p] - 1]
              /\ UNCHANGED <<lock, q, pending, handler, local>>

WaitReturn(p) == Leave(p, "w_unl")

------------------------------------------------------------------------------
\* sem_inc

CallInc(p, s) == Call(p, s, "i_tas")

\* Fault: sem_inc does not take the lock.
IncTasUnlocked(p) == /\ Goto(p, "i_tas", "i_load")
                     /\ UNCHANGED <<shared, pending, handler, local>>

IncTas(p) == Tas(p, "i_tas", "i_load")

\* s->count++
IncLoad(p) == /\ Goto(p, "i_load", "i_store")
              /\ reg' = [reg EXCEPT ![p] = count[cur[p]]]
              /\ UNCHANGED <<shared, pending, handler, cur, idx>>

IncStore(p) == /\ Goto(p, "i_store", "i_scan")
               /\ count' = [count EXCEPT ![cur[p]] = reg[p] + 1]
               /\ UNCHANGED <<lock, q, pending, handler, local>>

\* Fault: the slot keeps its pid.
IncWakeKeepsSlot(p) == /\ pc[p] = "i_scan"
                       /\ \E i \in Slots \ Free(cur[p]) :
                             pending' = [pending EXCEPT ![q[cur[p]][i]] = TRUE]
                       /\ UNCHANGED <<shared, handler, pc, local>>

\* Fault: the pid is read after the slot is emptied, and kill(0,SIGUSR1)
\* signals the whole process group.
IncWakeGroup(p) == /\ pc[p] = "i_scan"
                   /\ \E i \in Slots \ Free(cur[p]) :
                         q' = [q EXCEPT ![cur[p]][i] = NoPid]
                   /\ pending' = [r \in Procs |-> TRUE]
                   /\ UNCHANGED <<count, lock, handler, pc, local>>

\* The next occupied slot: empty it and kill(pid,SIGUSR1).  A SIGUSR1 that
\* is already pending absorbs the new one.
IncWake(p) == /\ pc[p] = "i_scan"
              /\ \E i \in Slots \ Free(cur[p]) :
                    /\ \A k \in Slots \ Free(cur[p]) : i <= k
                    /\ q' = [q EXCEPT ![cur[p]][i] = NoPid]
                    /\ pending' = [pending EXCEPT ![q[cur[p]][i]] = TRUE]
              /\ UNCHANGED <<count, lock, handler, pc, local>>

\* Fault: the loop is left before all slots are seen (the break that is
\* commented out in sem.c:84).
IncScannedEarly(p) == /\ Goto(p, "i_scan", "i_unl")
                      /\ UNCHANGED <<shared, pending, handler, local>>

\* No occupied slot is left.
IncScanned(p) == /\ Goto(p, "i_scan", "i_unl")
                 /\ Free(cur[p]) = Slots
                 /\ UNCHANGED <<shared, pending, handler, local>>

IncReturn(p) == Leave(p, "i_unl")

------------------------------------------------------------------------------
\* sem_try

CallTry(p, s) == Call(p, s, "t_tas")

TryTas(p) == Tas(p, "t_tas", "t_test")

\* Both branches of "if (s->count==0)" only release the lock; the answer is
\* count /= 0 and the count stays as it is.
TryTest(p) == /\ Goto(p, "t_test", "t_unl")
              /\ reg' = [reg EXCEPT ![p] = count[cur[p]]]
              /\ UNCHANGED <<shared, pending, handler, cur, idx>>

TryReturn(p) == Leave(p, "t_unl")

------------------------------------------------------------------------------
\* SIGUSR1 reaches a process that is not inside sigsuspend: sighand does
\* nothing, and without sighand the default action ends the process.
Deliver(p) == /\ pending[p]
              /\ pc[p] \notin {"w_sleep", "helped", "killed"}
              /\ pending' = [pending EXCEPT ![p] = FALSE]
              /\ pc' = IF handler[p] THEN pc ELSE [pc EXCEPT ![p] = "killed"]
              /\ UNCHANGED <<shared, handler, local>>

WaitStep(p) == \/ WaitTas(p) \/ WaitNonZero(p) \/ WaitZero(p) \/ WaitFind(p)
               \/ WaitHelp(p) \/ WaitInstall(p) \/ WaitEnqueue(p)
               \/ WaitRelease(p) \/ WaitSuspend(p) \/ WaitWake(p)
               \/ WaitDec(p) \/ WaitReturn(p)
IncStep(p)  == \/ IncTas(p) \/ IncLoad(p) \/ IncStore(p) \/ IncWake(p)
               \/ IncScanned(p) \/ IncReturn(p)
TryStep(p)  == TryTas(p) \/ TryTest(p) \/ TryReturn(p)

\* A step of the semaphore code, by a process that is inside it.
SemStep(p) == WaitStep(p) \/ IncStep(p) \/ TryStep(p)

\* Clients of every kind: a process outside the semaphores calls any
\* operation on any of them.
Client(p) == \E s \in Sems :
                \/ "wait" \in Calls /\ CallWait(p, s)
                \/ "inc" \in Calls /\ count[s] < MaxCount /\ CallInc(p, s)
                \/ "try" \in Calls /\ CallTry(p, s)

SemNext == \E p \in Procs : Client(p) \/ SemStep(p) \/ Deliver(p)

SemSpec == SemInit /\ [][SemNext]_semVars

------------------------------------------------------------------------------
\* Type of the state: in particular no count is ever negative, although
\* count-- is done by a process that tested the count some steps before
\* (sem.c:40-66).
TypeOK == /\ count \in [Sems -> Nat]
          /\ lock \in [Sems -> {0, 1}]
          /\ q \in [Sems -> [Slots -> Procs \cup {NoPid}]]
          /\ pending \in [Procs -> BOOLEAN]
          /\ handler \in [Procs -> BOOLEAN]
          /\ pc \in [Procs -> Points]
          /\ cur \in [Procs -> Sems]
          /\ idx \in [Procs -> Nat]
          /\ reg \in [Procs -> Nat]

Inside(p, s) == pc[p] \in Critical /\ cur[p] = s

\* Between a successful tas and the matching "lock=0" a process is alone in
\* the critical sections of that semaphore, whichever of the three functions
\* the others are in (sem.c:23-30, 38-67, 72-87).
LockExclusion == \A p, r \in Procs : \A s \in Sems :
                    Inside(p, s) /\ Inside(r, s) => p = r

InSlot(p, s, i) == q[s][i] = p

\* The table of sleepers and the signals agree with where the processes are:
\* a registered process is between its registration and its wake-up, in the
\* slot it chose, and has no signal on its way; a signal is on its way only
\* to a process that has left the critical section to sleep, so it never
\* interrupts anything else, never comes twice and never comes late into
\* another call (sem.c:43-64, 77-86).
SignalDiscipline ==
    /\ \A p \in Procs, s \in Sems, i \in Slots :
          InSlot(p, s, i) => /\ pc[p] \in {"w_rel", "w_susp", "w_sleep"}
                            /\ cur[p] = s /\ idx[p] = i
                            /\ ~pending[p]
    /\ \A p \in Procs : pending[p] => pc[p] \in {"w_susp", "w_sleep"}

\* No process is killed by SIGUSR1: whoever is in q has installed sighand
\* before it got there (sem.c:59-60).
NeverKilled == \A p \in Procs : pc[p] # "killed"

\* When the lock is free nobody is registered as sleeping on a semaphore
\* that has units: sem_inc leaves no sleeper behind (sem.c:77-86).
NoUnitWhileRegistered ==
    \A s \in Sems : lock[s] = 0 /\ count[s] > 0 => Free(s) = Slots

Registered(s) == {r \in Procs : \E i \in Slots : InSlot(r, s, i)}

\* "HELP!!!" is printed only when N_PROC other processes are registered: no
\* slot is ever left to a process that no longer sleeps.  main.c:15 lets at
\* most N_PROC processes run, so that with it nobody ever comes there.
HelpNeedsCrowd ==
    \A p \in Procs : pc[p] = "helped" =>
        /\ p \notin Registered(cur[p])
        /\ Cardinality(Registered(cur[p])) = NSlots

\* After "HELP!!!" the semaphore is dead for everybody else: exit(1) keeps
\* the lock (sem.c:51-55), so nothing of it ever changes again.
HelpFreezes ==
    [][\A p \in Procs : pc[p] = "helped" =>
          LET s == cur[p] IN
          lock'[s] = 1 /\ count'[s] = count[s] /\ q'[s] = q[s]]_semVars

\* Asleep, not registered and with no signal on the way.
Stranded(p) == /\ pc[p] = "w_sleep"
               /\ ~pending[p]
               /\ \A s \in Sems, i \in Slots : ~InSlot(p, s, i)

\* A wake-up lost between "lock=0" and sigsuspend (sem.c:61-62) is lost for
\* good: no later sem_inc, on any semaphore, wakes that process.
StrandedForever == [][\A p \in Procs : Stranded(p) => Stranded(p)']_semVars

\* What pset-w07.ps:307-310 asks of sem_try: when it answers 1 it has done the
\* "P" operation.  The code answers 1 and leaves the count (sem.c:25-31).
TryTakesUnit ==
    [][\A p \in Procs :
          pc[p] = "t_test" /\ pc'[p] = "t_unl" /\ count[cur[p]] > 0
             => count'[cur[p]] = count[cur[p]] - 1]_semVars

\* The operation a process is still waiting to have done.
PendingOp(p) ==
    CASE pc[p] \in {"w_tas", "w_test", "w_dec", "w_find", "w_inst", "w_enq",
                    "w_rel", "w_susp", "w_sleep", "helped", "killed"}
                                            -> [kind |-> "P", sem |-> cur[p]]
      [] pc[p] \in {"i_tas", "i_load", "i_store"}
                                            -> [kind |-> "V", sem |-> cur[p]]
      [] pc[p] \in {"t_tas", "t_test"}      -> [kind |-> "peek", sem |-> cur[p]]
      [] OTHER                              -> [kind |-> "none"]

Abstract == INSTANCE CountingSemaphore
               WITH avail <- count, op <- [p \in Procs |-> PendingOp(p)]

\* The code implements the abstract semaphores: every unit is taken or given
\* exactly once, by an atomic step inside the call, and never taken from an
\* empty semaphore, although the code tests, loads and stores the count in
\* separate steps (sem.c:21-88).
Refines == Abstract!Spec
==============================================================================
