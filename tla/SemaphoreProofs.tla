--------------------------- MODULE SemaphoreProofs ---------------------------
(***************************************************************************)
(* What Semaphore.tla and SemFifo.tla promise for every number of          *)
(* processes, semaphores, slots and items, every size of the ring and      *)
(* every width of its indices.                                             *)
(*                                                                         *)
(* The first part is about Semaphore and knows nothing of the fifo.  IInv  *)
(* is its inductive invariant: who is inside has the lock and is alone, so *)
(* what it has loaded or found is still true when it stores, and the table *)
(* of sleepers agrees with the program points.  The second part is about   *)
(* SemFifo.                                                                *)
(***************************************************************************)
EXTENDS SemFifo, FiniteSetTheorems, SequenceTheorems, FunctionTheorems, TLAPS

\* Who is inside the critical section of a semaphore has its lock.
LockHeld == \A p \in Procs : pc[p] \in Critical => lock[cur[p]] = 1

\* The loaded count is still the count when it is written back, and sem_wait
\* takes a unit that is there.
RegCurrent == \A p \in Procs :
                 /\ pc[p] \in {"w_dec", "i_store"} => reg[p] = count[cur[p]]
                 /\ pc[p] = "w_dec" => reg[p] > 0

\* Whoever is on its way to sleep still sees a count of zero.
ZeroCurrent == \A p \in Procs :
                  pc[p] \in {"w_find", "w_inst", "w_enq", "w_rel"}
                     => count[cur[p]] = 0

\* The slot that was found is still empty when it is filled.
SlotCurrent == \A p \in Procs :
                  pc[p] \in {"w_inst", "w_enq"}
                     => idx[p] \in Slots /\ q[cur[p]][idx[p]] = NoPid

\* Whoever can be sent SIGUSR1 has installed sighand.
HandlerFirst == \A p \in Procs :
                   pc[p] \in {"w_enq", "w_rel", "w_susp", "w_sleep"} => handler[p]

\* Units and sleepers are together only while sem_inc empties the table.
UnitsSeen ==
    \A s \in Sems, i \in Slots :
       count[s] > 0 /\ q[s][i] # NoPid
          => \E p \in Procs : Inside(p, s) /\ pc[p] = "i_scan"

\* Grouped as the proof of a step uses them.
Alone   == LockHeld /\ LockExclusion
Current == RegCurrent /\ ZeroCurrent /\ SlotCurrent /\ HandlerFirst
Signals == SignalDiscipline /\ NeverKilled

IInv == TypeOK /\ Alone /\ Current /\ Signals /\ UnitsSeen

------------------------------------------------------------------------------
USE PidAssumption, CountAssumption, SlotAssumption
USE DEF Alone, Current, Signals, Goto, Tas, Unlock, Leave, shared, local, Inside,
        InSlot, Slots, Free, Critical, WaitCritical, IncCritical, TryCritical

\* The invariant holds when the semaphores have been initialised.
LEMMA InitInv == SemInit => IInv
<1> SUFFICES ASSUME SemInit PROVE IInv
  OBVIOUS
<1>1. TypeOK
  BY DEF SemInit, TypeOK, Points
<1>2. Alone /\ Current /\ Signals /\ UnitsSeen
  BY DEF SemInit, LockHeld, LockExclusion, RegCurrent, ZeroCurrent, SlotCurrent,
         HandlerFirst, SignalDiscipline, NeverKilled, UnitsSeen
<1> QED BY <1>1, <1>2 DEF IInv

\* Every step of sem_wait preserves the invariant.
LEMMA WaitStepInv ==
  ASSUME IInv, NEW p \in Procs, WaitStep(p)
  PROVE  IInv'
<1> USE DEF IInv
<1>1. CASE WaitTas(p)
  <2>1. TypeOK'
    BY <1>1 DEF WaitTas, TypeOK, Points, RegCurrent, SlotCurrent
  <2>2. Alone'
    BY <1>1, SMTT(30) DEF WaitTas, TypeOK, LockHeld, LockExclusion
  <2>3. Current'
    BY <1>1 DEF WaitTas, TypeOK, LockHeld, LockExclusion, RegCurrent, ZeroCurrent,
             SlotCurrent, HandlerFirst
  <2>4. Signals'
    BY <1>1 DEF WaitTas, TypeOK, LockHeld, LockExclusion, SlotCurrent, HandlerFirst,
             SignalDiscipline, NeverKilled
  <2>5. UnitsSeen'
    BY <1>1 DEF WaitTas, TypeOK, LockHeld, LockExclusion, ZeroCurrent, SlotCurrent,
             SignalDiscipline, RegCurrent, UnitsSeen
  <2> QED BY <2>1, <2>2, <2>3, <2>4, <2>5
<1>2. CASE WaitNonZero(p)
  <2>1. TypeOK'
    BY <1>2 DEF WaitNonZero, TypeOK, Points, RegCurrent, SlotCurrent
  <2>2. Alone'
    BY <1>2, SMTT(30) DEF WaitNonZero, TypeOK, LockHeld, LockExclusion
  <2>3. Current'
    BY <1>2 DEF WaitNonZero, TypeOK, LockHeld, LockExclusion, RegCurrent, ZeroCurrent,
             SlotCurrent, HandlerFirst
  <2>4. Signals'
    BY <1>2 DEF WaitNonZero, TypeOK, LockHeld, LockExclusion, SlotCurrent, HandlerFirst,
             SignalDiscipline, NeverKilled
  <2>5. UnitsSeen'
    BY <1>2 DEF WaitNonZero, TypeOK, LockHeld, LockExclusion, ZeroCurrent, SlotCurrent,
             SignalDiscipline, RegCurrent, UnitsSeen
  <2> QED BY <2>1, <2>2, <2>3, <2>4, <2>5
<1>3. CASE WaitZero(p)
  <2>1. TypeOK'
    BY <1>3 DEF WaitZero, TypeOK, Points, RegCurrent, SlotCurrent
  <2>2. Alone'
    BY <1>3 DEF WaitZero, TypeOK, LockHeld, LockExclusion
  <2>3. Current'
    BY <1>3 DEF WaitZero, TypeOK, LockHeld, LockExclusion, RegCurrent, ZeroCurrent,
             SlotCurrent, HandlerFirst
  <2>4. Signals'
    BY <1>3 DEF WaitZero, TypeOK, LockHeld, LockExclusion, SlotCurrent, HandlerFirst,
             SignalDiscipline, NeverKilled
  <2>5. UnitsSeen'
    BY <1>3 DEF WaitZero, TypeOK, LockHeld, LockExclusion, ZeroCurrent, SlotCurrent,
             SignalDiscipline, RegCurrent, UnitsSeen
  <2> QED BY <2>1, <2>2, <2>3, <2>4, <2>5
<1>4. CASE WaitFind(p)
  <2>1. TypeOK'
    BY <1>4 DEF WaitFind, TypeOK, Points, RegCurrent, SlotCurrent
  <2>2. Alone'
    BY <1>4, ZenonT(60) DEF WaitFind, TypeOK, LockHeld, LockExclusion
  <2>3. Current'
    BY <1>4, SMTT(30) DEF WaitFind, TypeOK, LockHeld, LockExclusion, RegCurrent, ZeroCurrent,
             SlotCurrent, HandlerFirst
  <2>4. Signals'
    BY <1>4, SMTT(30) DEF WaitFind, TypeOK, LockHeld, LockExclusion, SlotCurrent, HandlerFirst,
             SignalDiscipline, NeverKilled
  <2>5. UnitsSeen'
    BY <1>4, SMTT(30) DEF WaitFind, TypeOK, LockHeld, LockExclusion, ZeroCurrent, SlotCurrent,
             SignalDiscipline, RegCurrent, UnitsSeen
  <2> QED BY <2>1, <2>2, <2>3, <2>4, <2>5
<1>5. CASE WaitHelp(p)
  <2>1. TypeOK'
    BY <1>5 DEF WaitHelp, TypeOK, Points, RegCurrent, SlotCurrent
  <2>2. Alone'
    BY <1>5 DEF WaitHelp, TypeOK, LockHeld, LockExclusion
  <2>3. Current'
    BY <1>5 DEF WaitHelp, TypeOK, LockHeld, LockExclusion, RegCurrent, ZeroCurrent,
             SlotCurrent, HandlerFirst
  <2>4. Signals'
    BY <1>5 DEF WaitHelp, TypeOK, LockHeld, LockExclusion, SlotCurrent, HandlerFirst,
             SignalDiscipline, NeverKilled
  <2>5. UnitsSeen'
    BY <1>5 DEF WaitHelp, TypeOK, LockHeld, LockExclusion, ZeroCurrent, SlotCurrent,
             SignalDiscipline, RegCurrent, UnitsSeen
  <2> QED BY <2>1, <2>2, <2>3, <2>4, <2>5
<1>6. CASE WaitInstall(p)
  <2>1. TypeOK'
    BY <1>6 DEF WaitInstall, TypeOK, Points, RegCurrent, SlotCurrent
  <2>2. Alone'
    BY <1>6, SMTT(30) DEF WaitInstall, TypeOK, LockHeld, LockExclusion
  <2>3. Current'
    BY <1>6 DEF WaitInstall, TypeOK, LockHeld, LockExclusion, RegCurrent, ZeroCurrent,
             SlotCurrent, HandlerFirst
  <2>4. Signals'
    BY <1>6 DEF WaitInstall, TypeOK, LockHeld, LockExclusion, SlotCurrent, HandlerFirst,
             SignalDiscipline, NeverKilled
  <2>5. UnitsSeen'
    BY <1>6 DEF WaitInstall, TypeOK, LockHeld, LockExclusion, ZeroCurrent, SlotCurrent,
             SignalDiscipline, RegCurrent, UnitsSeen
  <2> QED BY <2>1, <2>2, <2>3, <2>4, <2>5
<1>7. CASE WaitEnqueue(p)
  <2>1. TypeOK'
    BY <1>7 DEF WaitEnqueue, TypeOK, Points, RegCurrent, SlotCurrent
  <2>2. Alone'
    BY <1>7, SMTT(30) DEF WaitEnqueue, TypeOK, LockHeld, LockExclusion
  <2>3. Current'
    BY <1>7 DEF WaitEnqueue, TypeOK, LockHeld, LockExclusion, RegCurrent, ZeroCurrent,
             SlotCurrent, HandlerFirst
  <2>4. Signals'
    BY <1>7 DEF WaitEnqueue, TypeOK, LockHeld, LockExclusion, SlotCurrent, HandlerFirst,
             SignalDiscipline, NeverKilled
  <2>5. UnitsSeen'
    BY <1>7 DEF WaitEnqueue, TypeOK, LockHeld, LockExclusion, ZeroCurrent, SlotCurrent,
             SignalDiscipline, RegCurrent, UnitsSeen
  <2> QED BY <2>1, <2>2, <2>3, <2>4, <2>5
<1>8. CASE WaitRelease(p)
  <2>1. TypeOK'
    BY <1>8 DEF WaitRelease, TypeOK, Points, RegCurrent, SlotCurrent
  <2>2. Alone'
    BY <1>8, SMTT(30) DEF WaitRelease, TypeOK, LockHeld, LockExclusion
  <2>3. Current'
    BY <1>8 DEF WaitRelease, TypeOK, LockHeld, LockExclusion, RegCurrent, ZeroCurrent,
             SlotCurrent, HandlerFirst
  <2>4. Signals'
    BY <1>8 DEF WaitRelease, TypeOK, LockHeld, LockExclusion, SlotCurrent, HandlerFirst,
             SignalDiscipline, NeverKilled
  <2>5. UnitsSeen'
    BY <1>8 DEF WaitRelease, TypeOK, LockHeld, LockExclusion, ZeroCurrent, SlotCurrent,
             SignalDiscipline, RegCurrent, UnitsSeen
  <2> QED BY <2>1, <2>2, <2>3, <2>4, <2>5
<1>9. CASE WaitSuspend(p)
  <2>1. TypeOK'
    BY <1>9 DEF WaitSuspend, TypeOK, Points, RegCurrent, SlotCurrent
  <2>2. Alone'
    BY <1>9, SMTT(30) DEF WaitSuspend, TypeOK, LockHeld, LockExclusion
  <2>3. Current'
    BY <1>9 DEF WaitSuspend, TypeOK, LockHeld, LockExclusion, RegCurrent, ZeroCurrent,
             SlotCurrent, HandlerFirst
  <2>4. Signals'
    BY <1>9 DEF WaitSuspend, TypeOK, LockHeld, LockExclusion, SlotCurrent, HandlerFirst,
             SignalDiscipline, NeverKilled
  <2>5. UnitsSeen'
    BY <1>9 DEF WaitSuspend, TypeOK, LockHeld, LockExclusion, ZeroCurrent, SlotCurrent,
             SignalDiscipline, RegCurrent, UnitsSeen
  <2> QED BY <2>1, <2>2, <2>3, <2>4, <2>5
<1>10. CASE WaitWake(p)
  <2>1. TypeOK'
    BY <1>10 DEF WaitWake, TypeOK, Points, RegCurrent, SlotCurrent
  <2>2. Alone'
    BY <1>10, SMTT(30) DEF WaitWake, TypeOK, LockHeld, LockExclusion
  <2>3. Current'
    BY <1>10 DEF WaitWake, TypeOK, LockHeld, LockExclusion, RegCurrent, ZeroCurrent,
             SlotCurrent, HandlerFirst
  <2>4. Signals'
    BY <1>10 DEF WaitWake, TypeOK, LockHeld, LockExclusion, SlotCurrent, HandlerFirst,
             SignalDiscipline, NeverKilled
  <2>5. UnitsSeen'
    BY <1>10 DEF WaitWake, TypeOK, LockHeld, LockExclusion, ZeroCurrent, SlotCurrent,
             SignalDiscipline, RegCurrent, UnitsSeen
  <2> QED BY <2>1, <2>2, <2>3, <2>4, <2>5
<1>11. CASE WaitDec(p)
  <2>1. TypeOK'
    BY <1>11 DEF WaitDec, TypeOK, Points, RegCurrent, SlotCurrent
  <2>2. Alone'
    BY <1>11, SMTT(30) DEF WaitDec, TypeOK, LockHeld, LockExclusion
  <2>3. Current'
    BY <1>11 DEF WaitDec, TypeOK, LockHeld, LockExclusion, RegCurrent, ZeroCurrent,
             SlotCurrent, HandlerFirst
  <2>4. Signals'
    BY <1>11 DEF WaitDec, TypeOK, LockHeld, LockExclusion, SlotCurrent, HandlerFirst,
             SignalDiscipline, NeverKilled
  <2>5. UnitsSeen'
    BY <1>11, SMTT(30) DEF WaitDec, TypeOK, LockHeld, LockExclusion, ZeroCurrent, SlotCurrent,
             SignalDiscipline, RegCurrent, UnitsSeen
  <2> QED BY <2>1, <2>2, <2>3, <2>4, <2>5
<1>12. CASE WaitReturn(p)
  <2>1. TypeOK'
    BY <1>12 DEF WaitReturn, TypeOK, Points, RegCurrent, SlotCurrent
  <2>2. Alone'
    BY <1>12, SMTT(30) DEF WaitReturn, TypeOK, LockHeld, LockExclusion
  <2>3. Current'
    BY <1>12 DEF WaitReturn, TypeOK, LockHeld, LockExclusion, RegCurrent, ZeroCurrent,
             SlotCurrent, HandlerFirst
  <2>4. Signals'
    BY <1>12 DEF WaitReturn, TypeOK, LockHeld, LockExclusion, SlotCurrent, HandlerFirst,
             SignalDiscipline, NeverKilled
  <2>5. UnitsSeen'
    BY <1>12 DEF WaitReturn, TypeOK, LockHeld, LockExclusion, ZeroCurrent, SlotCurrent,
             SignalDiscipline, RegCurrent, UnitsSeen
  <2> QED BY <2>1, <2>2, <2>3, <2>4, <2>5
<1> QED BY <1>1, <1>2, <1>3, <1>4, <1>5, <1>6, <1>7, <1>8, <1>9, <1>10, <1>11, <1>12 DEF WaitStep

\* Every step of sem_inc preserves the invariant.
LEMMA IncStepInv ==
  ASSUME IInv, NEW p \in Procs, IncStep(p)
  PROVE  IInv'
<1> USE DEF IInv
<1>1. CASE IncTas(p)
  <2>1. TypeOK'
    BY <1>1 DEF IncTas, TypeOK, Points, RegCurrent, SlotCurrent
  <2>2. Alone'
    BY <1>1, SMTT(30) DEF IncTas, TypeOK, LockHeld, LockExclusion
  <2>3. Current'
    BY <1>1 DEF IncTas, TypeOK, LockHeld, LockExclusion, RegCurrent, ZeroCurrent,
             SlotCurrent, HandlerFirst
  <2>4. Signals'
    BY <1>1 DEF IncTas, TypeOK, LockHeld, LockExclusion, SlotCurrent, HandlerFirst,
             SignalDiscipline, NeverKilled
  <2>5. UnitsSeen'
    BY <1>1 DEF IncTas, TypeOK, LockHeld, LockExclusion, ZeroCurrent, SlotCurrent,
             SignalDiscipline, RegCurrent, UnitsSeen
  <2> QED BY <2>1, <2>2, <2>3, <2>4, <2>5
<1>2. CASE IncLoad(p)
  <2>1. TypeOK'
    BY <1>2 DEF IncLoad, TypeOK, Points, RegCurrent, SlotCurrent
  <2>2. Alone'
    BY <1>2, SMTT(30) DEF IncLoad, TypeOK, LockHeld, LockExclusion
  <2>3. Current'
    BY <1>2 DEF IncLoad, TypeOK, LockHeld, LockExclusion, RegCurrent, ZeroCurrent,
             SlotCurrent, HandlerFirst
  <2>4. Signals'
    BY <1>2 DEF IncLoad, TypeOK, LockHeld, LockExclusion, SlotCurrent, HandlerFirst,
             SignalDiscipline, NeverKilled
  <2>5. UnitsSeen'
    BY <1>2 DEF IncLoad, TypeOK, LockHeld, LockExclusion, ZeroCurrent, SlotCurrent,
             SignalDiscipline, RegCurrent, UnitsSeen
  <2> QED BY <2>1, <2>2, <2>3, <2>4, <2>5
<1>3. CASE IncStore(p)
  <2>1. TypeOK'
    BY <1>3 DEF IncStore, TypeOK, Points, RegCurrent, SlotCurrent
  <2>2. Alone'
    BY <1>3, SMTT(30) DEF IncStore, TypeOK, LockHeld, LockExclusion
  <2>3. Current'
    BY <1>3 DEF IncStore, TypeOK, LockHeld, LockExclusion, RegCurrent, ZeroCurrent,
             SlotCurrent, HandlerFirst
  <2>4. Signals'
    BY <1>3 DEF IncStore, TypeOK, LockHeld, LockExclusion, SlotCurrent, HandlerFirst,
             SignalDiscipline, NeverKilled
  <2>5. UnitsSeen'
    BY <1>3, SMTT(30) DEF IncStore, TypeOK, LockHeld, LockExclusion, ZeroCurrent, SlotCurrent,
             SignalDiscipline, RegCurrent, UnitsSeen
  <2> QED BY <2>1, <2>2, <2>3, <2>4, <2>5
<1>4. CASE IncWake(p)
  <2>1. TypeOK'
    BY <1>4 DEF IncWake, TypeOK, Points, RegCurrent, SlotCurrent
  <2>2. Alone'
    BY <1>4 DEF IncWake, TypeOK, LockHeld, LockExclusion
  <2>3. Current'
    BY <1>4 DEF IncWake, TypeOK, LockHeld, LockExclusion, RegCurrent, ZeroCurrent,
             SlotCurrent, HandlerFirst
  <2>4. Signals'
    BY <1>4, SMTT(30) DEF IncWake, TypeOK, LockHeld, LockExclusion, SlotCurrent, HandlerFirst,
             SignalDiscipline, NeverKilled
  <2>5. UnitsSeen'
    BY <1>4 DEF IncWake, TypeOK, LockHeld, LockExclusion, ZeroCurrent, SlotCurrent,
             SignalDiscipline, RegCurrent, UnitsSeen
  <2> QED BY <2>1, <2>2, <2>3, <2>4, <2>5
<1>5. CASE IncScanned(p)
  <2>1. TypeOK'
    BY <1>5 DEF IncScanned, TypeOK, Points, RegCurrent, SlotCurrent
  <2>2. Alone'
    BY <1>5 DEF IncScanned, TypeOK, LockHeld, LockExclusion
  <2>3. Current'
    BY <1>5 DEF IncScanned, TypeOK, LockHeld, LockExclusion, RegCurrent, ZeroCurrent,
             SlotCurrent, HandlerFirst
  <2>4. Signals'
    BY <1>5 DEF IncScanned, TypeOK, LockHeld, LockExclusion, SlotCurrent, HandlerFirst,
             SignalDiscipline, NeverKilled
  <2>5. \A i \in Slots : q[cur[p]][i] = NoPid
    BY <1>5 DEF IncScanned
  <2>6. UnitsSeen'
    BY <1>5, <2>5 DEF TypeOK, LockHeld, LockExclusion, UnitsSeen, IncScanned
  <2> QED BY <2>1, <2>2, <2>3, <2>4, <2>6
<1>6. CASE IncReturn(p)
  <2>1. TypeOK'
    BY <1>6 DEF IncReturn, TypeOK, Points, RegCurrent, SlotCurrent
  <2>2. Alone'
    BY <1>6, SMTT(30) DEF IncReturn, TypeOK, LockHeld, LockExclusion
  <2>3. Current'
    BY <1>6 DEF IncReturn, TypeOK, LockHeld, LockExclusion, RegCurrent, ZeroCurrent,
             SlotCurrent, HandlerFirst
  <2>4. Signals'
    BY <1>6 DEF IncReturn, TypeOK, LockHeld, LockExclusion, SlotCurrent, HandlerFirst,
             SignalDiscipline, NeverKilled
  <2>5. UnitsSeen'
    BY <1>6 DEF IncReturn, TypeOK, LockHeld, LockExclusion, ZeroCurrent, SlotCurrent,
             SignalDiscipline, RegCurrent, UnitsSeen
  <2> QED BY <2>1, <2>2, <2>3, <2>4, <2>5
<1> QED BY <1>1, <1>2, <1>3, <1>4, <1>5, <1>6 DEF IncStep

\* Every step of sem_try preserves the invariant.
LEMMA TryStepInv ==
  ASSUME IInv, NEW p \in Procs, TryStep(p)
  PROVE  IInv'
<1> USE DEF IInv
<1>1. CASE TryTas(p)
  <2>1. TypeOK'
    BY <1>1 DEF TryTas, TypeOK, Points, RegCurrent, SlotCurrent
  <2>2. Alone'
    BY <1>1, SMTT(30) DEF TryTas, TypeOK, LockHeld, LockExclusion
  <2>3. Current'
    BY <1>1 DEF TryTas, TypeOK, LockHeld, LockExclusion, RegCurrent, ZeroCurrent,
             SlotCurrent, HandlerFirst
  <2>4. Signals'
    BY <1>1 DEF TryTas, TypeOK, LockHeld, LockExclusion, SlotCurrent, HandlerFirst,
             SignalDiscipline, NeverKilled
  <2>5. UnitsSeen'
    BY <1>1 DEF TryTas, TypeOK, LockHeld, LockExclusion, ZeroCurrent, SlotCurrent,
             SignalDiscipline, RegCurrent, UnitsSeen
  <2> QED BY <2>1, <2>2, <2>3, <2>4, <2>5
<1>2. CASE TryTest(p)
  <2>1. TypeOK'
    BY <1>2 DEF TryTest, TypeOK, Points, RegCurrent, SlotCurrent
  <2>2. Alone'
    BY <1>2, SMTT(30) DEF TryTest, TypeOK, LockHeld, LockExclusion
  <2>3. Current'
    BY <1>2 DEF TryTest, TypeOK, LockHeld, LockExclusion, RegCurrent, ZeroCurrent,
             SlotCurrent, HandlerFirst
  <2>4. Signals'
    BY <1>2 DEF TryTest, TypeOK, LockHeld, LockExclusion, SlotCurrent, HandlerFirst,
             SignalDiscipline, NeverKilled
  <2>5. UnitsSeen'
    BY <1>2 DEF TryTest, TypeOK, LockHeld, LockExclusion, ZeroCurrent, SlotCurrent,
             SignalDiscipline, RegCurrent, UnitsSeen
  <2> QED BY <2>1, <2>2, <2>3, <2>4, <2>5
<1>3. CASE TryReturn(p)
  <2>1. TypeOK'
    BY <1>3 DEF TryReturn, TypeOK, Points, RegCurrent, SlotCurrent
  <2>2. Alone'
    BY <1>3, SMTT(30) DEF TryReturn, TypeOK, LockHeld, LockExclusion
  <2>3. Current'
    BY <1>3 DEF TryReturn, TypeOK, LockHeld, LockExclusion, RegCurrent, ZeroCurrent,
             SlotCurrent, HandlerFirst
  <2>4. Signals'
    BY <1>3 DEF TryReturn, TypeOK, LockHeld, LockExclusion, SlotCurrent, HandlerFirst,
             SignalDiscipline, NeverKilled
  <2>5. UnitsSeen'
    BY <1>3 DEF TryReturn, TypeOK, LockHeld, LockExclusion, ZeroCurrent, SlotCurrent,
             SignalDiscipline, RegCurrent, UnitsSeen
  <2> QED BY <2>1, <2>2, <2>3, <2>4, <2>5
<1> QED BY <1>1, <1>2, <1>3 DEF TryStep

\* So do a call, the delivery of a signal, and a step of something else.
LEMMA CallInv ==
  ASSUME IInv, NEW p \in Procs, NEW s \in Sems,
         NEW entry \in {"w_tas", "i_tas", "t_tas"}, Call(p, s, entry)
  PROVE  IInv'
<1> USE DEF IInv, Call
<1>1. TypeOK'
  BY DEF TypeOK, Points
<1>2. \A r \in Procs : pc'[r] \in Critical =>
                          r # p /\ pc[r] \in Critical /\ cur'[r] = cur[r]
  BY DEF TypeOK
<1>3. Alone'
  BY <1>2, SMTT(30) DEF TypeOK, LockHeld, LockExclusion
<1>4. Current'
  BY DEF TypeOK, RegCurrent, ZeroCurrent, SlotCurrent, HandlerFirst
<1>5. Signals'
  BY DEF TypeOK, SignalDiscipline, NeverKilled
<1>6. UnitsSeen'
  BY SMTT(30) DEF TypeOK, UnitsSeen
<1> QED BY <1>1, <1>3, <1>4, <1>5, <1>6

LEMMA DeliverInv ==
  ASSUME IInv, NEW p \in Procs, Deliver(p)
  PROVE  IInv'
<1> USE DEF IInv, Deliver
<1>1. TypeOK'
  BY DEF TypeOK, Points, SignalDiscipline, HandlerFirst
<1>2. Alone'
  BY DEF TypeOK, LockHeld, LockExclusion, SignalDiscipline, HandlerFirst
<1>3. Current'
  BY DEF TypeOK, RegCurrent, ZeroCurrent, SlotCurrent, HandlerFirst, SignalDiscipline
<1>4. Signals'
  BY DEF TypeOK, SignalDiscipline, NeverKilled, HandlerFirst
<1>5. UnitsSeen'
  BY DEF TypeOK, UnitsSeen, SignalDiscipline, HandlerFirst
<1> QED BY <1>1, <1>2, <1>3, <1>4, <1>5

LEMMA StepInv == IInv /\ [SemNext]_semVars => IInv'
<1> SUFFICES ASSUME IInv, [SemNext]_semVars PROVE IInv'
  OBVIOUS
<1>1. CASE UNCHANGED semVars
  BY <1>1 DEF semVars, IInv, TypeOK, LockHeld, LockExclusion, RegCurrent,
              ZeroCurrent, SlotCurrent, HandlerFirst, SignalDiscipline,
              NeverKilled, UnitsSeen
<1>2. ASSUME NEW p \in Procs, Client(p) PROVE IInv'
  BY <1>2, CallInv DEF Client, CallWait, CallInc, CallTry
<1>3. ASSUME NEW p \in Procs, SemStep(p) PROVE IInv'
  BY <1>3, WaitStepInv, IncStepInv, TryStepInv DEF SemStep
<1>4. ASSUME NEW p \in Procs, Deliver(p) PROVE IInv'
  BY <1>4, DeliverInv
<1> QED BY <1>1, <1>2, <1>3, <1>4 DEF SemNext

\* The inductive invariant, for any client of the semaphores.
THEOREM Invariance == SemSpec => []IInv
  BY InitInv, StepInv, PTL DEF SemSpec

\* The state has its type; no count is ever negative.
THEOREM TypeCorrect == SemSpec => []TypeOK
<1>1. IInv => TypeOK
  BY DEF IInv
<1> QED BY <1>1, Invariance, PTL

\* The spin lock excludes: no two processes are inside the same semaphore.
THEOREM Exclusion == SemSpec => []LockExclusion
<1>1. IInv => LockExclusion
  BY DEF IInv
<1> QED BY <1>1, Invariance, PTL

\* Registrations and signals agree with the program points, and nobody is
\* killed by a signal.
THEOREM SignalsAgree == SemSpec => [](SignalDiscipline /\ NeverKilled)
<1>1. IInv => SignalDiscipline /\ NeverKilled
  BY DEF IInv
<1> QED BY <1>1, Invariance, PTL

\* No unit and sleeper side by side when the lock is free.
THEOREM NoUnitLeft == SemSpec => []NoUnitWhileRegistered
<1>1. IInv => NoUnitWhileRegistered
  <2> SUFFICES ASSUME IInv, NEW s \in Sems, lock[s] = 0, count[s] > 0,
                      NEW i \in Slots
               PROVE  q[s][i] = NoPid
    BY DEF NoUnitWhileRegistered
  <2>1. ~ \E p \in Procs : Inside(p, s) /\ pc[p] = "i_scan"
    BY DEF IInv, LockHeld
  <2> QED BY <2>1 DEF IInv, UnitsSeen
<1> QED BY <1>1, Invariance, PTL

------------------------------------------------------------------------------
\* A lost wake-up is lost for good, with any number of semaphores.
THEOREM StrandedStays == SemSpec => StrandedForever
<1>1. IInv /\ [SemNext]_semVars => [\A p \in Procs : Stranded(p) => Stranded(p)']_semVars
  <2> SUFFICES ASSUME IInv, SemNext, NEW p \in Procs, Stranded(p)
               PROVE  Stranded(p)'
    OBVIOUS
  <2> USE DEF IInv, TypeOK, Stranded
  <2>1. PICK r \in Procs : Client(r) \/ SemStep(r) \/ Deliver(r)
    BY DEF SemNext
  <2>2. CASE WaitStep(r)
    <3>1. CASE WaitEnqueue(r)
      BY <3>1 DEF WaitEnqueue
    <3>2. CASE WaitWake(r)
      BY <3>2 DEF WaitWake
    <3> QED
      BY <2>2, <3>1, <3>2 DEF WaitStep, WaitTas, WaitNonZero, WaitZero, WaitFind,
            WaitHelp, WaitInstall, WaitRelease, WaitSuspend, WaitDec, WaitReturn
  <2>3. CASE IncStep(r)
    <3>1. CASE IncWake(r)
      <4>1. PICK i \in Slots :
               /\ q' = [q EXCEPT ![cur[r]][i] = NoPid]
               /\ pending' = [pending EXCEPT ![q[cur[r]][i]] = TRUE]
        BY <3>1 DEF IncWake
      <4>2. q[cur[r]][i] # p
        OBVIOUS
      <4>3. ~pending'[p]
        BY <4>1, <4>2
      <4>4. \A s \in Sems, k \in Slots : q'[s][k] # p
        BY <4>1
      <4> QED BY <3>1, <4>3, <4>4 DEF IncWake
    <3> QED
      BY <2>3, <3>1 DEF IncStep, IncTas, IncLoad, IncStore, IncScanned, IncReturn
  <2>4. CASE TryStep(r)
    BY <2>4 DEF TryStep, TryTas, TryTest, TryReturn
  <2>5. CASE Deliver(r)
    BY <2>5 DEF Deliver
  <2>6. CASE Client(r)
    BY <2>6 DEF Client, CallWait, CallInc, CallTry, Call
  <2> QED BY <2>1, <2>2, <2>3, <2>4, <2>5, <2>6 DEF SemStep
<1> QED BY <1>1, Invariance, PTL DEF SemSpec, StrandedForever

\* Once a process is in "helped" its semaphore does not change any more, ...
LEMMA HelpedStep ==
  ASSUME IInv, SemNext, NEW p \in Procs, pc[p] = "helped"
  PROVE  /\ lock'[cur[p]] = 1
         /\ count'[cur[p]] = count[cur[p]]
         /\ q'[cur[p]] = q[cur[p]]
         /\ cur'[p] = cur[p]
<1>0. PICK r \in Procs : Client(r) \/ SemStep(r) \/ Deliver(r)
  BY DEF SemNext
<1>1. /\ lock[cur[p]] = 1
      /\ pc[r] \in Critical /\ cur[r] = cur[p] => pc[r] = "helped"
  BY DEF IInv, TypeOK, LockHeld, LockExclusion
<1> USE DEF IInv, TypeOK
<1>2. CASE WaitStep(r)
  BY <1>1, <1>2 DEF WaitStep, WaitTas, WaitNonZero, WaitZero, WaitFind, WaitHelp,
              WaitInstall, WaitEnqueue, WaitRelease, WaitSuspend, WaitWake,
              WaitDec, WaitReturn
<1>3. CASE IncStep(r)
  BY <1>1, <1>3 DEF IncStep, IncTas, IncLoad, IncStore, IncWake, IncScanned, IncReturn
<1>4. CASE TryStep(r)
  BY <1>1, <1>4 DEF TryStep, TryTas, TryTest, TryReturn
<1>5. CASE Deliver(r)
  BY <1>1, <1>5 DEF Deliver
<1>6. CASE Client(r)
  BY <1>1, <1>6 DEF Client, CallWait, CallInc, CallTry, Call
<1> QED BY <1>0, <1>2, <1>3, <1>4, <1>5, <1>6 DEF SemStep

\* ... and no step but the failed search of a slot leads there.
LEMMA HelpEntry ==
  ASSUME IInv, [SemNext]_semVars,
         NEW p \in Procs, pc[p] # "helped", pc'[p] = "helped"
  PROVE  WaitHelp(p)
<1> USE DEF IInv, TypeOK
<1>1. PICK r \in Procs : Client(r) \/ SemStep(r) \/ Deliver(r)
  BY DEF SemNext, semVars
<1>2. CASE WaitStep(r)
  BY <1>2, SMTT(30) DEF WaitStep, WaitTas, WaitNonZero, WaitZero, WaitFind, WaitHelp,
              WaitInstall, WaitEnqueue, WaitRelease, WaitSuspend, WaitWake,
              WaitDec, WaitReturn
<1>3. CASE IncStep(r)
  BY <1>3 DEF IncStep, IncTas, IncLoad, IncStore, IncWake, IncScanned, IncReturn
<1>4. CASE TryStep(r)
  BY <1>4 DEF TryStep, TryTas, TryTest, TryReturn
<1>5. CASE Deliver(r)
  BY <1>5 DEF Deliver
<1>6. CASE Client(r)
  BY <1>6 DEF Client, CallWait, CallInc, CallTry, Call
<1> QED BY <1>1, <1>2, <1>3, <1>4, <1>5, <1>6 DEF SemStep

\* After "HELP!!!" nothing of that semaphore ever changes.
THEOREM HelpIsFinal == SemSpec => HelpFreezes
<1>1. IInv /\ [SemNext]_semVars =>
        [\A p \in Procs : pc[p] = "helped" =>
            LET s == cur[p] IN
            lock'[s] = 1 /\ count'[s] = count[s] /\ q'[s] = q[s]]_semVars
  BY HelpedStep
<1> QED BY <1>1, Invariance, PTL DEF SemSpec, HelpFreezes

\* There are NSlots slots.
LEMMA SlotCount == IsFiniteSet(Slots) /\ Cardinality(Slots) = NSlots
  BY FS_Interval

\* A table without an empty slot holds as many processes as slots: no process
\* is registered twice, because each is in the slot it has found.
LEMMA FullTable ==
  ASSUME IInv, NEW s \in Sems, \A i \in Slots : q[s][i] # NoPid
  PROVE  IsFiniteSet(Registered(s)) /\ Cardinality(Registered(s)) = NSlots
<1> DEFINE R == Registered(s)
<1>1. \A i \in Slots : q[s][i] \in R
  <2>1. \A i \in Slots : q[s][i] \in Procs
    BY DEF IInv, TypeOK
  <2> QED BY <2>1 DEF Registered
<1>2. q[s] \in [Slots -> R]
  BY <1>1 DEF IInv, TypeOK
<1>3. \A i, k \in Slots : q[s][i] = q[s][k] => i = k
  BY <1>1 DEF IInv, TypeOK, SignalDiscipline, Registered
<1>4. \A r \in R : \E i \in Slots : q[s][i] = r
  BY DEF Registered
<1>5. ExistsBijection(Slots, R)
  BY <1>2, <1>3, <1>4 DEF ExistsBijection, Bijection, Injection, Surjection, IsInjective
<1>6. IsFiniteSet(Slots) /\ Cardinality(Slots) = NSlots
  BY SlotCount
<1> HIDE DEF R, Slots
<1>7. IsFiniteSet(R) /\ Cardinality(R) = Cardinality(Slots)
  BY <1>5, <1>6, FS_Bijection
<1> QED BY <1>6, <1>7 DEF R

\* "HELP!!!" means that N_PROC other processes are registered.
THEOREM HelpMeansFull == SemSpec => []HelpNeedsCrowd
<1>1. SemInit => HelpNeedsCrowd
  BY DEF SemInit, HelpNeedsCrowd
<1>2. IInv /\ HelpNeedsCrowd /\ [SemNext]_semVars => HelpNeedsCrowd'
  <2> SUFFICES ASSUME IInv, HelpNeedsCrowd, [SemNext]_semVars,
                      NEW p \in Procs, pc'[p] = "helped"
               PROVE  /\ p \notin Registered(cur[p])'
                      /\ Cardinality(Registered(cur[p])') = NSlots
    BY DEF HelpNeedsCrowd
  <2>1. /\ p \notin Registered(cur[p])
        /\ Cardinality(Registered(cur[p])) = NSlots
    <3>1. CASE pc[p] = "helped"
      BY <3>1 DEF HelpNeedsCrowd
    <3>2. CASE pc[p] # "helped"
      <4>1. WaitHelp(p)
        BY <3>2, HelpEntry
      <4>2. pc[p] = "w_find" /\ Free(cur[p]) = {} /\ cur[p] \in Sems
        BY <4>1 DEF WaitHelp, IInv, TypeOK
      <4>3. p \notin Registered(cur[p])
        BY <4>2 DEF Registered, IInv, SignalDiscipline
      <4>4. \A i \in Slots : q[cur[p]][i] # NoPid
        BY <4>2
      <4> QED BY <4>2, <4>3, <4>4, FullTable
    <3> QED BY <3>1, <3>2
  <2>2. cur'[p] = cur[p] /\ q'[cur[p]] = q[cur[p]]
    <3>1. CASE UNCHANGED semVars
      BY <3>1 DEF semVars
    <3>2. CASE SemNext /\ pc[p] = "helped"
      BY <3>2, HelpedStep
    <3>3. CASE pc[p] # "helped"
      BY <3>3, HelpEntry DEF WaitHelp
    <3> QED BY <3>1, <3>2, <3>3
  <2>3. Registered(cur[p])' = Registered(cur[p])
    BY <2>2 DEF Registered
  <2> QED BY <2>1, <2>3
<1> QED BY <1>1, <1>2, Invariance, PTL DEF SemSpec

\* main.c lets at most N_PROC processes run, and then nobody ever prints
\* "HELP!!!".
THEOREM NoHelp ==
  ASSUME IsFiniteSet(Procs), Cardinality(Procs) <= NSlots
  PROVE  SemSpec => [](\A p \in Procs : pc[p] # "helped")
<1>1. HelpNeedsCrowd => \A p \in Procs : pc[p] # "helped"
  <2> SUFFICES ASSUME HelpNeedsCrowd, NEW p \in Procs, pc[p] = "helped"
               PROVE  FALSE
    OBVIOUS
  <2> DEFINE Others == Procs \ {p}
             R == Registered(cur[p])
  <2>1. R \in SUBSET Others /\ Cardinality(R) = NSlots
    BY DEF HelpNeedsCrowd, Registered
  <2>2. IsFiniteSet(Others) /\ Cardinality(Others) = Cardinality(Procs) - 1
    BY FS_RemoveElement
  <2> HIDE DEF Others, R
  <2>3. Cardinality(R) <= Cardinality(Others)
    BY <2>1, <2>2, FS_Subset
  <2>4. Cardinality(Procs) \in Nat
    BY FS_CardinalityType
  <2> QED BY <2>1, <2>2, <2>3, <2>4
<1> QED BY <1>1, HelpMeansFull, PTL

------------------------------------------------------------------------------
\* A step that leaves the counts alone and the operation of every process is
\* a stutter of the abstract semaphores.
Stutter == /\ UNCHANGED count
           /\ \A p \in Procs : PendingOp(p)' = PendingOp(p)

\* A step of p that changes no count and moves p between points of the same
\* operation.
LEMMA QuietStep ==
  ASSUME IInv, NEW p \in Procs, NEW a, NEW b,
         Goto(p, a, b), UNCHANGED <<count, cur>>,
         \/ a \in {"w_tas", "w_test", "w_find", "w_inst", "w_enq", "w_rel",
                   "w_susp", "w_sleep"}
            /\ b \in {"w_test", "w_dec", "w_find", "w_inst", "w_enq", "w_rel",
                      "w_susp", "w_sleep", "helped", "w_tas"}
         \/ a \in {"i_tas", "i_load"} /\ b \in {"i_load", "i_store"}
         \/ a = "t_tas" /\ b = "t_test"
         \/ a \in {"w_unl", "i_scan", "i_unl", "t_unl"} /\ b \in {"i_unl", "idle"}
  PROVE  Stutter
<1>1. PendingOp(p)' = PendingOp(p)
  BY DEF IInv, TypeOK, PendingOp
<1>2. \A r \in Procs \ {p} : PendingOp(r)' = PendingOp(r)
  BY DEF IInv, TypeOK, PendingOp
<1> QED BY <1>1, <1>2 DEF Stutter

\* A call is the request of its operation.
LEMMA CallRequests ==
  ASSUME IInv, NEW p \in Procs, NEW s \in Sems,
         NEW entry \in {"w_tas", "i_tas", "t_tas"}, Call(p, s, entry)
  PROVE  Abstract!Request(p)
<1> DEFINE k == CASE entry = "w_tas" -> "P"
                  [] entry = "i_tas" -> "V"
                  [] entry = "t_tas" -> "peek"
           o == [kind |-> k, sem |-> s]
<1>1. PendingOp(p) = Abstract!NoOp
  BY DEF Call, PendingOp, Abstract!NoOp
<1>2. PendingOp(p)' = o
  BY DEF IInv, TypeOK, Call, PendingOp
<1>3. \A r \in Procs \ {p} : PendingOp(r)' = PendingOp(r)
  BY DEF IInv, TypeOK, Call, PendingOp
<1>4. o \in Abstract!Ops("P") \cup Abstract!Ops("V") \cup Abstract!Ops("peek")
  BY DEF Abstract!Ops
<1>5. [r \in Procs |-> PendingOp(r)]'
         = [[r \in Procs |-> PendingOp(r)] EXCEPT ![p] = o]
  BY <1>2, <1>3
<1>6. UNCHANGED count
  BY DEF Call
<1> QED BY <1>1, <1>4, <1>5, <1>6 DEF Abstract!Request

\* The store of count-- is the abstract "P" ...
LEMMA DecIsP ==
  ASSUME IInv, NEW p \in Procs, WaitDec(p)
  PROVE  Abstract!P(p, cur[p])
<1> USE DEF IInv, TypeOK
<1>1. PendingOp(p) = [kind |-> "P", sem |-> cur[p]] /\ PendingOp(p)' = Abstract!NoOp
  BY DEF WaitDec, PendingOp, Abstract!NoOp
<1>2. \A r \in Procs \ {p} : PendingOp(r)' = PendingOp(r)
  BY DEF WaitDec, PendingOp
<1>3. [r \in Procs |-> PendingOp(r)]'
         = [[r \in Procs |-> PendingOp(r)] EXCEPT ![p] = Abstract!NoOp]
  BY <1>1, <1>2
<1>4. count[cur[p]] > 0 /\ count' = [count EXCEPT ![cur[p]] = @ + (-1)]
  BY DEF WaitDec, RegCurrent
<1> QED BY <1>1, <1>3, <1>4 DEF Abstract!P, Abstract!Done

\* ... the store of count++ the abstract "V" ...
LEMMA StoreIsV ==
  ASSUME IInv, NEW p \in Procs, IncStore(p)
  PROVE  Abstract!V(p, cur[p])
<1> USE DEF IInv, TypeOK
<1>1. PendingOp(p) = [kind |-> "V", sem |-> cur[p]] /\ PendingOp(p)' = Abstract!NoOp
  BY DEF IncStore, PendingOp, Abstract!NoOp
<1>2. \A r \in Procs \ {p} : PendingOp(r)' = PendingOp(r)
  BY DEF IncStore, PendingOp
<1>3. [r \in Procs |-> PendingOp(r)]'
         = [[r \in Procs |-> PendingOp(r)] EXCEPT ![p] = Abstract!NoOp]
  BY <1>1, <1>2
<1>4. count' = [count EXCEPT ![cur[p]] = @ + 1]
  BY DEF IncStore, RegCurrent
<1> QED BY <1>1, <1>3, <1>4 DEF Abstract!V, Abstract!Done

\* ... and the test of sem_try the abstract "peek".
LEMMA TestIsPeek ==
  ASSUME IInv, NEW p \in Procs, TryTest(p)
  PROVE  Abstract!Peek(p, cur[p])
<1> USE DEF IInv, TypeOK
<1>1. PendingOp(p) = [kind |-> "peek", sem |-> cur[p]] /\ PendingOp(p)' = Abstract!NoOp
  BY DEF TryTest, PendingOp, Abstract!NoOp
<1>2. \A r \in Procs \ {p} : PendingOp(r)' = PendingOp(r)
  BY DEF TryTest, PendingOp
<1>3. [r \in Procs |-> PendingOp(r)]'
         = [[r \in Procs |-> PendingOp(r)] EXCEPT ![p] = Abstract!NoOp]
  BY <1>1, <1>2
<1>4. count' = [count EXCEPT ![cur[p]] = @ + 0]
  BY DEF TryTest
<1> QED BY <1>1, <1>3, <1>4 DEF Abstract!Peek, Abstract!Done

\* Every step of the code is a step of the abstract semaphores or a stutter.
LEMMA StepRefines ==
  ASSUME IInv, SemNext
  PROVE  Abstract!Next \/ Stutter
<1> USE DEF IInv
<1>1. PICK p \in Procs : Client(p) \/ SemStep(p) \/ Deliver(p)
  BY DEF SemNext
<1>2. CASE Client(p)
  BY <1>2, CallRequests DEF Client, CallWait, CallInc, CallTry, Abstract!Next
<1>3. CASE WaitDec(p)
  BY <1>3, DecIsP DEF TypeOK, Abstract!Next
<1>4. CASE IncStore(p)
  BY <1>4, StoreIsV DEF TypeOK, Abstract!Next
<1>5. CASE WaitStep(p) /\ ~WaitDec(p)
  BY <1>5, QuietStep DEF WaitStep, WaitTas, WaitNonZero, WaitZero, WaitFind,
        WaitHelp, WaitInstall, WaitEnqueue, WaitRelease, WaitSuspend, WaitWake,
        WaitReturn
<1>6. CASE IncWake(p)
  BY <1>6 DEF IncWake, Stutter, PendingOp
<1>7. CASE IncStep(p) /\ ~IncStore(p) /\ ~IncWake(p)
  BY <1>7, QuietStep DEF IncStep, IncTas, IncLoad, IncScanned, IncReturn
<1>8. CASE TryTest(p)
  BY <1>8, TestIsPeek DEF TypeOK, Abstract!Next
<1>9. CASE TryStep(p) /\ ~TryTest(p)
  BY <1>9, QuietStep DEF TryStep, TryTas, TryReturn
<1>10. CASE Deliver(p)
  BY <1>10 DEF Deliver, Stutter, PendingOp, SignalDiscipline, HandlerFirst, TypeOK
<1> QED BY <1>1, <1>2, <1>3, <1>4, <1>5, <1>6, <1>7, <1>8, <1>9, <1>10
   DEF SemStep

\* The code implements the abstract semaphores, for any number of processes,
\* semaphores and slots and for clients of every kind.
THEOREM Implements == SemSpec => Refines
<1>1. SemInit => Abstract!Init
  BY DEF SemInit, Abstract!Init, Abstract!NoOp, PendingOp
<1>2. IInv /\ [SemNext]_semVars => [Abstract!Next]_Abstract!aVars
  <2>1. ASSUME UNCHANGED semVars PROVE UNCHANGED Abstract!aVars
    BY <2>1 DEF semVars, Abstract!aVars, PendingOp
  <2>2. ASSUME Stutter PROVE UNCHANGED Abstract!aVars
    BY <2>2 DEF Stutter, Abstract!aVars
  <2> QED BY <2>1, <2>2, StepRefines
<1> QED BY <1>1, <1>2, Invariance, PTL DEF SemSpec, Refines, Abstract!Spec

(***************************************************************************)
(* The fifo on top of the semaphores.                                      *)
(*                                                                         *)
(* The semaphores contribute IInv and, through SemStepEffect, what a step  *)
(* of theirs does to a caller: it takes a unit, gives one, or does         *)
(* neither.  On that rest AccessInv, that one process at a time is at the  *)
(* ring, PlacesConserved, that the units of read and write count its items *)
(* and free places, and StreamInv, that what was received and what is in   *)
(* the ring is together an interleaving of the streams of the writers.     *)
(***************************************************************************)
\* A call that has not yet got or given its unit.
AskingUnit == {"w_tas", "w_test", "w_dec", "w_find", "w_inst", "w_enq", "w_rel", "w_susp",
               "w_sleep", "helped"}
GivingUnit == {"i_tas", "i_load", "i_store"}
Asked(p)   == pc[p] \in AskingUnit \cup GivingUnit

\* Inside a call on s, or back from it.
Waits(p, s) == pc[p] # "idle" => cur[p] = s /\ pc[p] \in AskingUnit \cup {"w_unl"}
Incs(p, s)  == pc[p] # "idle" => cur[p] = s /\ pc[p] \in GivingUnit \cup {"i_scan", "i_unl"}
Free0(p)    == pc[p] = "idle"

\* The call each program point of main.c stands behind.
WriterAt(w) == \/ at[w] = "wr" /\ Incs(w, "read")
               \/ at[w] = "wr_access" /\ Waits(w, "write")
               \/ at[w] = "wr_store" /\ Waits(w, "access")
               \/ at[w] \in {"wr_end", "wr_incaccess", "exit"} /\ Free0(w)
               \/ at[w] = "wr_incread" /\ Incs(w, "access")
ReaderAt(p) == \/ at[p] \in {"rd", "rd_beg", "rd_incaccess", "exit"} /\ Free0(p)
               \/ at[p] = "rd_access" /\ Waits(p, "read")
               \/ at[p] = "rd_load" /\ Waits(p, "access")
               \/ at[p] = "rd_incwrite" /\ Incs(p, "access")
               \/ at[p] = "rd_return" /\ Incs(p, "write")
AtOK == /\ \A w \in Writers : WriterAt(w)
        /\ ReaderAt(Reader)

FifoPoints == {"wr", "wr_access", "wr_store", "wr_end", "wr_incaccess", "wr_incread",
               "rd", "rd_access", "rd_load", "rd_beg", "rd_incaccess", "rd_incwrite",
               "rd_return", "exit"}

Items == (Procs \cup {NoPid}) \X Nat

FifoTypes == /\ addr \in [0 .. BufSize - 1 -> Items]
             /\ beg \in 0 .. UIntMod - 1
             /\ end \in 0 .. UIntMod - 1
             /\ at \in [Procs -> FifoPoints]
             /\ j \in [Procs -> Nat]
             /\ l \in Items
             /\ received \in Seq(Items)

\* Between the unit of access it has taken and the one it will give.
AtRing(p) == \/ at[p] \in {"wr_store", "rd_load"} /\ ~Asked(p)
             \/ at[p] \in {"wr_end", "wr_incaccess", "rd_beg", "rd_incaccess"}
             \/ at[p] \in {"wr_incread", "rd_incwrite"} /\ Asked(p)

\* access is a mutual exclusion.
AccessInv == /\ count["access"] \in {0, 1}
             /\ \A p \in Procs : AtRing(p) => count["access"] = 0
             /\ \A p, r \in Procs : AtRing(p) /\ AtRing(r) => p = r

\* What a process has read or written and not yet announced is still so, and
\* how far the loops have come.
Ready == /\ \A w \in Writers :
               /\ at[w] = "wr_end" => addr[end % BufSize] = <<w, j[w]>>
               /\ j[w] <= NumElems
               /\ at[w] \in {"wr_access", "wr_store", "wr_end", "wr_incaccess", "wr_incread"}
                     => j[w] < NumElems
         /\ at[Reader] = "rd_beg" => l = addr[beg % BufSize]
         /\ j[Reader] = Len(received)
         /\ at[Reader] = "exit" => j[Reader] = Total

\* What has left the ring, and everything that was ever put.
Out    == IF Got(Reader) THEN Append(received, l) ELSE received
AllPut == Out \o Ring

\* The sequence s of items is an interleaving of the first n[w] items of every
\* writer w: it has nothing else, in order, and nothing is missing.
Merged(s, n) ==
    /\ \A i \in 1 .. Len(s) : \E w \in Writers : \E m \in 0 .. n[w] - 1 : s[i] = <<w, m>>
    /\ \A i, k \in 1 .. Len(s) : i < k /\ s[i][1] = s[k][1] => s[i][2] < s[k][2]
    /\ \A w \in Writers : \A m \in 0 .. n[w] - 1 : \E i \in 1 .. Len(s) : s[i] = <<w, m>>

WrittenBy == [w \in Writers |-> Written(w)]

StreamInv == Merged(AllPut, WrittenBy)

Places == FifoTypes /\ AtOK /\ AccessInv /\ Ready /\ PlacesConserved

FInv == IInv /\ Places /\ StreamInv

------------------------------------------------------------------------------
(***************************************************************************)
(* Arithmetic of the ring.                                                 *)
(***************************************************************************)
\* A remainder is known by its range.
LEMMA ModUnique ==
  ASSUME NEW m \in Nat \ {0}, NEW a \in Int, NEW q0 \in Int, NEW d \in 0 .. m - 1,
         a = q0 * m + d
  PROVE  a % m = d
OBVIOUS

\* Adding the size of the ring changes no place.
LEMMA ModShift ==
  ASSUME NEW m \in Nat \ {0}, NEW a \in Int, NEW k \in Int
  PROVE  (a + k * m) % m = a % m
<1> DEFINE q0 == a \div m
           d == a % m
<1>1. q0 \in Int /\ d \in 0 .. m - 1 /\ a = q0 * m + d
  OBVIOUS
<1> HIDE DEF q0, d
<1>2. a + k * m = (q0 + k) * m + d
  BY <1>1
<1>3. (a + k * m) % m = d
  BY <1>1, <1>2, ModUnique
<1>4. a % m = d
  BY <1>1, ModUnique
<1> QED BY <1>3, <1>4

\* Numbers less than one turn apart are at different places.
LEMMA ModApart ==
  ASSUME NEW m \in Nat \ {0}, NEW a \in Int, NEW b \in Int, a < b, b < a + m
  PROVE  a % m # b % m
<1> DEFINE qa == a \div m
           qb == b \div m
           d == a % m
<1> SUFFICES ASSUME b % m = d PROVE FALSE
  OBVIOUS
<1>1. qa \in Int /\ qb \in Int /\ d \in 0 .. m - 1 /\ a = qa * m + d /\ b = qb * m + d
  OBVIOUS
<1> HIDE DEF qa, qb, d
<1>2. b - a = (qb - qa) * m
  BY <1>1
<1> DEFINE k == qb - qa
<1>3. k \in Int /\ 0 < k * m /\ k * m < m
  BY <1>1, <1>2
<1> HIDE DEF k
<1> QED BY <1>3

\* The remainder of a number less than one turn away from the range.
LEMMA ModNear ==
  ASSUME NEW m \in Nat \ {0}, NEW a \in Int, -m <= a, a < 2 * m
  PROVE  a % m = IF a < 0 THEN a + m ELSE IF a < m THEN a ELSE a - m
<1>1. CASE a < 0
  <2>1. a = (-1) * m + (a + m)
    OBVIOUS
  <2> QED BY <1>1, <2>1, ModUnique
<1>2. CASE 0 <= a /\ a < m
  <2>1. a = 0 * m + a
    OBVIOUS
  <2> QED BY <1>2, <2>1, ModUnique
<1>3. CASE m <= a
  <2>1. a = 1 * m + (a - m)
    OBVIOUS
  <2> QED BY <1>3, <2>1, ModUnique
<1> QED BY <1>1, <1>2, <1>3

------------------------------------------------------------------------------
(***************************************************************************)
(* Counting: a set of processes of which only p may come or go.            *)
(***************************************************************************)
LEMMA SetChange ==
  ASSUME NEW P, IsFiniteSet(P), NEW p \in P, NEW S \in SUBSET P, NEW T \in SUBSET P,
         \A r \in P \ {p} : r \in S <=> r \in T
  PROVE  /\ Cardinality(S) \in Nat /\ Cardinality(T) \in Nat
         /\ p \in S => Cardinality(S) >= 1
         /\ p \in S /\ p \notin T => Cardinality(T) = Cardinality(S) - 1
         /\ p \notin S /\ p \in T => Cardinality(T) = Cardinality(S) + 1
         /\ (p \in S <=> p \in T) => Cardinality(T) = Cardinality(S)
<1>1. IsFiniteSet(S) /\ IsFiniteSet(T)
  BY FS_Subset
<1>2. Cardinality(S) \in Nat /\ Cardinality(T) \in Nat
  BY <1>1, FS_CardinalityType
<1>3. ASSUME p \in S, p \notin T PROVE Cardinality(T) = Cardinality(S) - 1
  <2>1. T = S \ {p}
    BY <1>3
  <2> QED BY <1>1, <1>3, <2>1, FS_RemoveElement
<1>4. ASSUME p \notin S, p \in T PROVE Cardinality(T) = Cardinality(S) + 1
  <2>1. T = S \cup {p}
    BY <1>4
  <2> QED BY <1>1, <1>4, <2>1, FS_AddElement
<1>5. ASSUME p \in S <=> p \in T PROVE Cardinality(T) = Cardinality(S)
  <2>1. T = S
    BY <1>5
  <2> QED BY <2>1
<1>6. p \in S => Cardinality(S) >= 1
  <2>1. S = {} <=> Cardinality(S) = 0
    BY <1>1, FS_EmptySet
  <2> QED BY <1>2, <2>1
<1> QED BY <1>2, <1>3, <1>4, <1>5, <1>6

------------------------------------------------------------------------------
(***************************************************************************)
(* What a step of the semaphores does to its caller.                       *)
(***************************************************************************)
LEMMA SemStepEffect ==
  ASSUME IInv, NEW p \in Procs, SemStep(p), pc[p] \notin {"t_tas", "t_test", "t_unl"}
  PROVE  /\ cur' = cur
         /\ \A r \in Procs \ {p} : pc'[r] = pc[r]
         /\ pc[p] \in AskingUnit => pc'[p] \in AskingUnit \cup {"w_unl"}
         /\ pc[p] = "w_unl" => pc'[p] = "idle"
         /\ pc[p] \in GivingUnit => pc'[p] \in GivingUnit \cup {"i_scan"}
         /\ pc[p] \in {"i_scan", "i_unl"} => pc'[p] \in {"i_scan", "i_unl", "idle"}
         /\ pc[p] # "idle"
         /\ Asked(p)' => Asked(p)
         /\ (Asked(p)' <=> Asked(p)) => count' = count
         /\ Asked(p) /\ ~Asked(p)' /\ pc[p] \in AskingUnit =>
               count[cur[p]] > 0 /\ count' = [count EXCEPT ![cur[p]] = @ - 1]
         /\ Asked(p) /\ ~Asked(p)' /\ pc[p] \in GivingUnit =>
               count' = [count EXCEPT ![cur[p]] = @ + 1]
<1> USE DEF IInv, TypeOK, Asked, AskingUnit, GivingUnit, Goto, Tas, Unlock, Leave, shared, local
<1>1. CASE WaitDec(p)
  BY <1>1 DEF WaitDec, Current, RegCurrent
<1>2. CASE IncStore(p)
  BY <1>2 DEF IncStore, Current, RegCurrent
<1>3. CASE WaitStep(p) /\ ~WaitDec(p)
  BY <1>3 DEF WaitStep, WaitTas, WaitNonZero, WaitZero, WaitFind, WaitHelp, WaitInstall,
        WaitEnqueue, WaitRelease, WaitSuspend, WaitWake, WaitReturn
<1>4. CASE IncStep(p) /\ ~IncStore(p)
  BY <1>4 DEF IncStep, IncTas, IncLoad, IncWake, IncScanned, IncReturn
<1>5. CASE TryStep(p)
  BY <1>5 DEF TryStep, TryTas, TryTest, TryReturn
<1> QED BY <1>1, <1>2, <1>3, <1>4, <1>5 DEF SemStep
------------------------------------------------------------------------------
(***************************************************************************)
(* The semaphores keep their invariant under the clients of the fifo.      *)
(***************************************************************************)
LEMMA CallsOK ==
  ASSUME NEW p \in Procs, NEW s \in Sems, CallWait(p, s) \/ CallInc(p, s), IInv
  PROVE  IInv'
BY CallInv DEF CallWait, CallInc

LEMMA SemsInv == IInv /\ [Next]_vars => IInv'
<1> SUFFICES ASSUME IInv, [Next]_vars PROVE IInv'
  OBVIOUS
<1>1. CASE UNCHANGED semVars
  BY <1>1, StepInv
<1>2. CASE UNCHANGED vars
  BY <1>1, <1>2 DEF vars
<1>3. ASSUME NEW p \in Procs, SemStep(p) \/ Deliver(p) PROVE IInv'
  BY <1>3, StepInv DEF SemNext
<1>4. ASSUME NEW p \in Procs, Write(p) \/ Read(p) PROVE IInv'
  BY <1>1, <1>4, CallsOK, FifoSems DEF Write, WrWaitWrite, WrWaitAccess, WrStore, WrEnd,
     WrIncAccess, WrIncRead, WrExit, Read, RdWaitRead, RdWaitAccess, RdLoad, RdBeg,
     RdIncAccess, RdIncWrite, RdReturn, RdExit, Outside
<1> QED BY <1>2, <1>3, <1>4 DEF Next, Process, Signal, Main

------------------------------------------------------------------------------
(***************************************************************************)
(* Every kind of step keeps the typing and the program points in order.    *)
(***************************************************************************)
\* A signal never reaches a process that it would kill, so it changes nothing
\* that matters here.
LEMMA DeliverQuiet ==
  ASSUME IInv, NEW p \in Procs, Deliver(p)
  PROVE  UNCHANGED <<pc, cur, count>>
BY DEF IInv, TypeOK, Deliver, Signals, SignalDiscipline, HandlerFirst, Current, shared, local

LEMMA TypesInit == Init => FifoTypes
<1> SUFFICES ASSUME Init PROVE FifoTypes
  OBVIOUS
<1> USE SizeAssumption, ProcAssumption DEF Init, Items, NoItem, FifoPoints
<1>1. NoItem \in Items
  OBVIOUS
<1>2. addr \in [0 .. BufSize - 1 -> Items]
  BY <1>1
<1>3. beg \in 0 .. UIntMod - 1 /\ end \in 0 .. UIntMod - 1
  OBVIOUS
<1>4. at \in [Procs -> FifoPoints] /\ j \in [Procs -> Nat]
  OBVIOUS
<1>5. received \in Seq(Items)
  OBVIOUS
<1> QED BY <1>1, <1>2, <1>3, <1>4, <1>5 DEF FifoTypes

LEMMA TypesStep == FifoTypes /\ IInv /\ [Next]_vars => FifoTypes'
<1> SUFFICES ASSUME FifoTypes, IInv, [Next]_vars PROVE FifoTypes'
  OBVIOUS
<1> USE SizeAssumption, ProcAssumption DEF FifoTypes, Items, FifoPoints
<1>1. CASE UNCHANGED fifoVars
  BY <1>1 DEF fifoVars
<1>2. ASSUME NEW w \in Writers, Write(w) PROVE FifoTypes'
  <2>1. w \in Procs
    OBVIOUS
  <2>2. end % BufSize \in 0 .. BufSize - 1 /\ (end + 1) % UIntMod \in 0 .. UIntMod - 1
    OBVIOUS
  <2>3. CASE WrWaitWrite(w)
    BY <2>1, <2>2, <2>3 DEF WrWaitWrite, Move, Count
  <2>4. CASE WrWaitAccess(w)
    BY <2>1, <2>2, <2>4 DEF WrWaitAccess, Move, Count
  <2>5. CASE WrStore(w)
    BY <2>1, <2>2, <2>5 DEF WrStore, Move, Count
  <2>6. CASE WrEnd(w)
    BY <2>1, <2>2, <2>6 DEF WrEnd, Move, Count
  <2>7. CASE WrIncAccess(w)
    BY <2>1, <2>2, <2>7 DEF WrIncAccess, Move, Count
  <2>8. CASE WrIncRead(w)
    <3>1. j' \in [Procs -> Nat] /\ at' \in [Procs -> FifoPoints]
      BY <2>1, <2>8 DEF WrIncRead, Move, Count
    <3> QED BY <2>8, <3>1 DEF WrIncRead
  <2>9. CASE WrExit(w)
    BY <2>1, <2>2, <2>9 DEF WrExit, Move, Count
  <2> QED BY <1>2, <2>3, <2>4, <2>5, <2>6, <2>7, <2>8, <2>9 DEF Write
<1>3. ASSUME Read(Reader) PROVE FifoTypes'
  <2>1. beg % BufSize \in 0 .. BufSize - 1 /\ (beg + 1) % UIntMod \in 0 .. UIntMod - 1
    OBVIOUS
  <2>2. CASE RdWaitRead(Reader)
    BY <2>1, <2>2 DEF RdWaitRead, Move, Count
  <2>3. CASE RdWaitAccess(Reader)
    BY <2>1, <2>3 DEF RdWaitAccess, Move, Count
  <2>4. CASE RdLoad(Reader)
    BY <2>1, <2>4 DEF RdLoad, Move, Count
  <2>5. CASE RdBeg(Reader)
    BY <2>1, <2>5 DEF RdBeg, Move, Count
  <2>6. CASE RdIncAccess(Reader)
    BY <2>1, <2>6 DEF RdIncAccess, Move, Count
  <2>7. CASE RdIncWrite(Reader)
    BY <2>1, <2>7 DEF RdIncWrite, Move, Count
  <2>8. CASE RdReturn(Reader)
    <3>1. j' \in [Procs -> Nat] /\ at' \in [Procs -> FifoPoints]
      BY <2>8 DEF RdReturn, Move, Count
    <3>2. received' \in Seq(Items)
      BY <2>8 DEF RdReturn
    <3> QED BY <2>8, <3>1, <3>2 DEF RdReturn
  <2>9. CASE RdExit(Reader)
    BY <2>1, <2>9 DEF RdExit, Move, Count
  <2> QED BY <1>3, <2>2, <2>3, <2>4, <2>5, <2>6, <2>7, <2>8, <2>9 DEF Read
<1> QED BY <1>1, <1>2, <1>3 DEF Next, Process, Signal, Main, vars, fifoVars

LEMMA AtInit == Init => AtOK
BY ProcAssumption DEF Init, SemInit, AtOK, WriterAt, ReaderAt, Incs, Waits, Free0

LEMMA AtStep == FifoTypes /\ AtOK /\ IInv /\ [Next]_vars => AtOK'
<1> SUFFICES ASSUME FifoTypes, AtOK, IInv, [Next]_vars PROVE AtOK'
  OBVIOUS
<1> USE ProcAssumption DEF AtOK, WriterAt, ReaderAt, Incs, Waits, Free0
<1>1. CASE UNCHANGED vars
  BY <1>1 DEF vars, fifoVars, semVars
<1>2. ASSUME NEW p \in Procs, SemStep(p), UNCHANGED fifoVars PROVE AtOK'
  <2>1. pc[p] \notin {"t_tas", "t_test", "t_unl"}
    BY DEF AskingUnit, GivingUnit
  <2>2. UNCHANGED <<at, cur>> /\ \A r \in Procs \ {p} : pc'[r] = pc[r]
    BY <1>2, <2>1, SemStepEffect DEF fifoVars
  <2>3. /\ pc[p] \in AskingUnit => pc'[p] \in AskingUnit \cup {"w_unl"}
        /\ pc[p] = "w_unl" => pc'[p] = "idle"
        /\ pc[p] \in GivingUnit => pc'[p] \in GivingUnit \cup {"i_scan"}
        /\ pc[p] \in {"i_scan", "i_unl"} => pc'[p] \in {"i_scan", "i_unl", "idle"}
        /\ pc[p] # "idle"
    BY <1>2, <2>1, SemStepEffect
  <2> QED BY <2>2, <2>3 DEF AskingUnit, GivingUnit
<1>3. ASSUME NEW p \in Procs, Deliver(p), UNCHANGED fifoVars PROVE AtOK'
  BY <1>3, DeliverQuiet DEF fifoVars
<1>4. ASSUME NEW w \in Writers, Write(w) PROVE AtOK'
  <2>1. CASE WrWaitWrite(w)
    BY <2>1, SMTT(30) DEF WrWaitWrite, Move, Outside, CallWait, CallInc, Call, Goto, FifoTypes, IInv, TypeOK,
          semVars, AskingUnit, GivingUnit
  <2>2. CASE WrWaitAccess(w)
    BY <2>2 DEF WrWaitAccess, Move, Outside, CallWait, CallInc, Call, Goto, FifoTypes, IInv, TypeOK,
          semVars, AskingUnit, GivingUnit
  <2>3. CASE WrStore(w)
    BY <2>3 DEF WrStore, Move, Outside, CallWait, CallInc, Call, Goto, FifoTypes, IInv, TypeOK,
          semVars, AskingUnit, GivingUnit
  <2>4. CASE WrEnd(w)
    BY <2>4 DEF WrEnd, Move, Outside, CallWait, CallInc, Call, Goto, FifoTypes, IInv, TypeOK,
          semVars, AskingUnit, GivingUnit
  <2>5. CASE WrIncAccess(w)
    BY <2>5 DEF WrIncAccess, Move, Outside, CallWait, CallInc, Call, Goto, FifoTypes, IInv, TypeOK,
          semVars, AskingUnit, GivingUnit
  <2>6. CASE WrIncRead(w)
    BY <2>6, SMTT(30) DEF WrIncRead, Move, Outside, CallWait, CallInc, Call, Goto, FifoTypes, IInv, TypeOK,
          semVars, AskingUnit, GivingUnit
  <2>7. CASE WrExit(w)
    BY <2>7 DEF WrExit, Move, Outside, CallWait, CallInc, Call, Goto, FifoTypes, IInv, TypeOK,
          semVars, AskingUnit, GivingUnit
  <2> QED BY <1>4, <2>1, <2>2, <2>3, <2>4, <2>5, <2>6, <2>7 DEF Write
<1>5. ASSUME Read(Reader) PROVE AtOK'
  <2>1. CASE RdWaitRead(Reader)
    BY <2>1 DEF RdWaitRead, Move, Outside, CallWait, CallInc, Call, Goto, FifoTypes, IInv, TypeOK,
          semVars, AskingUnit, GivingUnit
  <2>2. CASE RdWaitAccess(Reader)
    BY <2>2 DEF RdWaitAccess, Move, Outside, CallWait, CallInc, Call, Goto, FifoTypes, IInv, TypeOK,
          semVars, AskingUnit, GivingUnit
  <2>3. CASE RdLoad(Reader)
    BY <2>3 DEF RdLoad, Move, Outside, CallWait, CallInc, Call, Goto, FifoTypes, IInv, TypeOK,
          semVars, AskingUnit, GivingUnit
  <2>4. CASE RdBeg(Reader)
    BY <2>4 DEF RdBeg, Move, Outside, CallWait, CallInc, Call, Goto, FifoTypes, IInv, TypeOK,
          semVars, AskingUnit, GivingUnit
  <2>5. CASE RdIncAccess(Reader)
    BY <2>5 DEF RdIncAccess, Move, Outside, CallWait, CallInc, Call, Goto, FifoTypes, IInv, TypeOK,
          semVars, AskingUnit, GivingUnit
  <2>6. CASE RdIncWrite(Reader)
    BY <2>6 DEF RdIncWrite, Move, Outside, CallWait, CallInc, Call, Goto, FifoTypes, IInv, TypeOK,
          semVars, AskingUnit, GivingUnit
  <2>7. CASE RdReturn(Reader)
    BY <2>7 DEF RdReturn, Move, Outside, CallWait, CallInc, Call, Goto, FifoTypes, IInv, TypeOK,
          semVars, AskingUnit, GivingUnit
  <2>8. CASE RdExit(Reader)
    BY <2>8 DEF RdExit, Move, Outside, CallWait, CallInc, Call, Goto, FifoTypes, IInv, TypeOK,
          semVars, AskingUnit, GivingUnit
  <2> QED BY <1>5, <2>1, <2>2, <2>3, <2>4, <2>5, <2>6, <2>7, <2>8 DEF Read
<1> QED BY <1>1, <1>2, <1>3, <1>4, <1>5 DEF Next, Process, Signal, Main

------------------------------------------------------------------------------
(***************************************************************************)
(* Control: where a step of the fifo takes its process, and whether the    *)
(* process is then in a call that has not got or given its unit.           *)
(***************************************************************************)
Goes(p, a, b, asked) == /\ at[p] = a /\ at'[p] = b
                        /\ ~Asked(p) /\ (Asked(p)' <=> asked)
                        /\ count' = count
                        /\ \A r \in Procs \ {p} : at'[r] = at[r] /\ (Asked(r)' <=> Asked(r))

LEMMA CallGoes ==
  ASSUME IInv, FifoTypes, NEW p \in Procs, NEW s \in Sems, NEW a, NEW b,
         Move(p, a, b), CallWait(p, s) \/ CallInc(p, s)
  PROVE  Goes(p, a, b, TRUE)
BY DEF IInv, TypeOK, FifoTypes, Move, CallWait, CallInc, Call, Goto, Goes, Asked, AskingUnit,
       GivingUnit, shared

LEMMA OutsideGoes ==
  ASSUME IInv, FifoTypes, NEW p \in Procs, NEW a, NEW b, Move(p, a, b), Outside(p)
  PROVE  Goes(p, a, b, FALSE)
BY DEF IInv, TypeOK, FifoTypes, Move, Outside, semVars, Goes, Asked, AskingUnit, GivingUnit

\* A step of the semaphores by p, or a signal that reaches it, takes a unit,
\* gives one, or does neither.
TakesUnit(p) == /\ Asked(p) /\ ~Asked(p)' /\ pc[p] \in AskingUnit
                /\ count[cur[p]] > 0 /\ count' = [count EXCEPT ![cur[p]] = @ - 1]
GivesUnit(p) == /\ Asked(p) /\ ~Asked(p)' /\ pc[p] \in GivingUnit
                /\ count' = [count EXCEPT ![cur[p]] = @ + 1]
LeavesUnits(p) == (Asked(p)' <=> Asked(p)) /\ count' = count

LEMMA SemGoes ==
  ASSUME IInv, FifoTypes, AtOK, NEW p \in Procs, SemStep(p) \/ Deliver(p), UNCHANGED fifoVars
  PROVE  /\ at' = at /\ \A r \in Procs \ {p} : Asked(r)' <=> Asked(r)
         /\ TakesUnit(p) \/ GivesUnit(p) \/ LeavesUnits(p)
<1>1. CASE SemStep(p)
  <2>1. pc[p] \notin {"t_tas", "t_test", "t_unl"}
    BY ProcAssumption DEF AtOK, WriterAt, ReaderAt, Incs, Waits, Free0, AskingUnit, GivingUnit
  <2>2. at' = at /\ \A r \in Procs \ {p} : pc'[r] = pc[r]
    BY <1>1, <2>1, SemStepEffect DEF fifoVars
  <2>3. TakesUnit(p) \/ GivesUnit(p) \/ LeavesUnits(p)
    <3>1. Asked(p)' => Asked(p)
      BY <1>1, <2>1, SemStepEffect
    <3>2. (Asked(p)' <=> Asked(p)) => count' = count
      BY <1>1, <2>1, SemStepEffect
    <3>3. CASE Asked(p) /\ ~Asked(p)' /\ pc[p] \in AskingUnit
      BY <1>1, <2>1, <3>3, SemStepEffect DEF TakesUnit
    <3>4. CASE Asked(p) /\ ~Asked(p)' /\ pc[p] \in GivingUnit
      BY <1>1, <2>1, <3>4, SemStepEffect DEF GivesUnit
    <3>5. Asked(p) => pc[p] \in AskingUnit \/ pc[p] \in GivingUnit
      BY DEF Asked
    <3>6. CASE Asked(p)' <=> Asked(p)
      BY <3>2, <3>6 DEF LeavesUnits
    <3> QED BY <3>1, <3>3, <3>4, <3>5, <3>6
  <2> QED BY <2>2, <2>3 DEF Asked
<1>2. CASE Deliver(p)
  BY <1>2, DeliverQuiet DEF fifoVars, Asked, LeavesUnits
<1> QED BY <1>1, <1>2

\* Every step of main.c.
LEMMA WriteGoes ==
  ASSUME IInv, FifoTypes, NEW w \in Writers
  PROVE  /\ WrWaitWrite(w)  => Goes(w, "wr", "wr_access", TRUE)
         /\ WrWaitAccess(w) => Goes(w, "wr_access", "wr_store", TRUE)
         /\ WrStore(w)      => Goes(w, "wr_store", "wr_end", FALSE)
         /\ WrEnd(w)        => Goes(w, "wr_end", "wr_incaccess", FALSE)
         /\ WrIncAccess(w)  => Goes(w, "wr_incaccess", "wr_incread", TRUE)
         /\ WrIncRead(w)    => Goes(w, "wr_incread", "wr", TRUE)
         /\ WrExit(w)       => Goes(w, "wr", "exit", FALSE)
<1>1. w \in Procs
  BY ProcAssumption
<1> QED BY <1>1, FifoSems, CallGoes, OutsideGoes DEF WrWaitWrite, WrWaitAccess, WrStore, WrEnd,
           WrIncAccess, WrIncRead, WrExit

LEMMA ReadGoes ==
  ASSUME IInv, FifoTypes
  PROVE  /\ RdWaitRead(Reader)   => Goes(Reader, "rd", "rd_access", TRUE)
         /\ RdWaitAccess(Reader) => Goes(Reader, "rd_access", "rd_load", TRUE)
         /\ RdLoad(Reader)       => Goes(Reader, "rd_load", "rd_beg", FALSE)
         /\ RdBeg(Reader)        => Goes(Reader, "rd_beg", "rd_incaccess", FALSE)
         /\ RdIncAccess(Reader)  => Goes(Reader, "rd_incaccess", "rd_incwrite", TRUE)
         /\ RdIncWrite(Reader)   => Goes(Reader, "rd_incwrite", "rd_return", TRUE)
         /\ RdReturn(Reader)     => Goes(Reader, "rd_return", "rd", FALSE)
         /\ RdExit(Reader)       => Goes(Reader, "rd", "exit", FALSE)
<1>1. Reader \in Procs
  BY ProcAssumption
<1> QED BY <1>1, FifoSems, CallGoes, OutsideGoes DEF RdWaitRead, RdWaitAccess, RdLoad, RdBeg,
           RdIncAccess, RdIncWrite, RdReturn, RdExit

------------------------------------------------------------------------------
(***************************************************************************)
(* access is a mutual exclusion.                                           *)
(***************************************************************************)
LEMMA AccessInit == Init => AccessInv
BY FifoInit DEF Init, SemInit, FifoCounts, AccessInv, AtRing

LEMMA AccessStep == FifoTypes /\ AtOK /\ AccessInv /\ IInv /\ [Next]_vars => AccessInv'
<1> SUFFICES ASSUME FifoTypes, AtOK, AccessInv, IInv, [Next]_vars PROVE AccessInv'
  OBVIOUS
<1>1. ASSUME count' = count, \A p \in Procs : AtRing(p)' <=> AtRing(p) PROVE AccessInv'
  BY <1>1 DEF AccessInv
<1>2. CASE UNCHANGED vars
  BY <1>1, <1>2 DEF vars, fifoVars, semVars, AtRing, Asked
<1>3. ASSUME NEW w \in Writers, Write(w) PROVE AccessInv'
  <2>1. count' = count /\ \A r \in Procs \ {w} : at'[r] = at[r] /\ (Asked(r)' <=> Asked(r))
    BY <1>3, WriteGoes DEF Goes, Write
  <2>2. AtRing(w)' <=> AtRing(w)
    BY <1>3, WriteGoes DEF Goes, Write, AtRing
  <2> QED BY <1>1, <2>1, <2>2 DEF AtRing
<1>4. ASSUME Read(Reader) PROVE AccessInv'
  <2>1. /\ count' = count
        /\ \A r \in Procs \ {Reader} : at'[r] = at[r] /\ (Asked(r)' <=> Asked(r))
    BY <1>4, ReadGoes DEF Goes, Read
  <2>2. AtRing(Reader)' <=> AtRing(Reader)
    BY <1>4, ReadGoes DEF Goes, Read, AtRing
  <2> QED BY <1>1, <2>1, <2>2 DEF AtRing
<1>5. ASSUME NEW p \in Procs, SemStep(p) \/ Deliver(p), UNCHANGED fifoVars PROVE AccessInv'
  <2>1. at' = at /\ \A r \in Procs \ {p} : AtRing(r)' <=> AtRing(r)
    BY <1>5, SemGoes DEF AtRing
  <2>2. CASE LeavesUnits(p)
    BY <1>1, <2>1, <2>2 DEF AtRing, LeavesUnits
  <2>3. CASE TakesUnit(p)
    <3>1. CASE cur[p] = "access"
      <4>1. count["access"] = 1 /\ count'["access"] = 0
        BY <2>3, <3>1, FifoSems DEF TakesUnit, AccessInv, IInv, TypeOK
      <4> QED BY <2>1, <4>1 DEF AccessInv
    <3>2. CASE cur[p] # "access"
      <4>1. count'["access"] = count["access"]
        BY <2>3, <3>2, FifoSems DEF TakesUnit, IInv, TypeOK
      <4>2. at[p] \notin {"wr_store", "rd_load", "wr_incread", "rd_incwrite"}
        BY <2>3, <3>2, ProcAssumption DEF TakesUnit, AtOK, WriterAt, ReaderAt, Waits, Incs, Free0,
                                  AskingUnit, GivingUnit, Asked
      <4> QED BY <2>1, <4>1, <4>2 DEF AccessInv, AtRing
    <3> QED BY <3>1, <3>2
  <2>4. CASE GivesUnit(p)
    <3>1. CASE cur[p] = "access"
      <4>1. at[p] \in {"wr_incread", "rd_incwrite"}
        BY <2>4, <3>1, ProcAssumption DEF GivesUnit, AtOK, WriterAt, ReaderAt, Waits, Incs, Free0,
                                  AskingUnit, GivingUnit, Asked
      <4>2. AtRing(p) /\ ~AtRing(p)'
        BY <2>1, <2>4, <4>1 DEF GivesUnit, AtRing
      <4>3. count["access"] = 0 /\ count'["access"] = 1
        BY <2>4, <3>1, <4>2, FifoSems DEF GivesUnit, AccessInv, IInv, TypeOK
      <4> QED BY <2>1, <4>2, <4>3 DEF AccessInv
    <3>2. CASE cur[p] # "access"
      <4>1. count'["access"] = count["access"]
        BY <2>4, <3>2, FifoSems DEF GivesUnit, IInv, TypeOK
      <4>2. at[p] \notin {"wr_store", "rd_load", "wr_incread", "rd_incwrite"}
        BY <2>4, <3>2, ProcAssumption DEF GivesUnit, AtOK, WriterAt, ReaderAt, Waits, Incs, Free0,
                                  AskingUnit, GivingUnit, Asked
      <4> QED BY <2>1, <4>1, <4>2 DEF AccessInv, AtRing
    <3> QED BY <3>1, <3>2
  <2> QED BY <1>5, <2>2, <2>3, <2>4, SemGoes
<1> QED BY <1>2, <1>3, <1>4, <1>5, ProcAssumption DEF Next, Process, Signal, Main

------------------------------------------------------------------------------
(***************************************************************************)
(* Items and free places are counted by the units of read and write.       *)
(***************************************************************************)
NOwesRead   == Cardinality({p \in Procs : OwesRead(p)})
NHoldsRead  == Cardinality({p \in Procs : HoldsRead(p)})
NOwesWrite  == Cardinality({p \in Procs : OwesWrite(p)})
NHoldsWrite == Cardinality({p \in Procs : HoldsWrite(p)})

\* Where the four kinds of accounts are held, in terms of program points.
AccountsAt(p) ==
    /\ OwesRead(p)   <=> \/ at[p] \in {"wr_incaccess", "wr_incread"}
                         \/ at[p] = "wr" /\ Asked(p)
    /\ HoldsRead(p)  <=> \/ at[p] \in {"rd_load", "rd_beg"}
                         \/ at[p] = "rd_access" /\ ~Asked(p)
    /\ OwesWrite(p)  <=> \/ at[p] \in {"rd_incaccess", "rd_incwrite"}
                         \/ at[p] = "rd_return" /\ Asked(p)
    /\ HoldsWrite(p) <=> \/ at[p] \in {"wr_store", "wr_end"}
                         \/ at[p] = "wr_access" /\ ~Asked(p)

LEMMA Accounts == AtOK => \A p \in Procs : AccountsAt(p)
BY ProcAssumption DEF AtOK, WriterAt, ReaderAt, Waits, Incs, Free0, OwesRead, HoldsRead, OwesWrite,
   HoldsWrite, Giving, Taken, Asked, AskingUnit, GivingUnit, AccountsAt

LEMMA AccountsAfter == (AtOK => \A p \in Procs : AccountsAt(p))'
BY Accounts, PTL

LEMMA ProcsFinite == IsFiniteSet(Procs)
BY ProcAssumption, FS_AddElement

Bit(b) == IF b THEN 1 ELSE 0

\* A step in which only the accounts of p may change.
LEMMA Numbers ==
  ASSUME AtOK, AtOK', NEW p \in Procs,
         \A r \in Procs \ {p} : at'[r] = at[r] /\ (Asked(r)' <=> Asked(r))
  PROVE  /\ NOwesRead \in Nat /\ NOwesRead >= Bit(OwesRead(p))
         /\ NHoldsRead \in Nat /\ NHoldsRead >= Bit(HoldsRead(p))
         /\ NOwesWrite \in Nat /\ NOwesWrite >= Bit(OwesWrite(p))
         /\ NHoldsWrite \in Nat /\ NHoldsWrite >= Bit(HoldsWrite(p))
         /\ NOwesRead'   = NOwesRead   + Bit(OwesRead(p)')   - Bit(OwesRead(p))
         /\ NHoldsRead'  = NHoldsRead  + Bit(HoldsRead(p)')  - Bit(HoldsRead(p))
         /\ NOwesWrite'  = NOwesWrite  + Bit(OwesWrite(p)')  - Bit(OwesWrite(p))
         /\ NHoldsWrite' = NHoldsWrite + Bit(HoldsWrite(p)') - Bit(HoldsWrite(p))
<1> DEFINE OR == {r \in Procs : OwesRead(r)}    HR == {r \in Procs : HoldsRead(r)}
           OW == {r \in Procs : OwesWrite(r)}   HW == {r \in Procs : HoldsWrite(r)}
<1>1. \A r \in Procs \ {p} : /\ OwesRead(r)'   <=> OwesRead(r)
                             /\ HoldsRead(r)'  <=> HoldsRead(r)
                             /\ OwesWrite(r)'  <=> OwesWrite(r)
                             /\ (HoldsWrite(r)' <=> HoldsWrite(r))
  BY Accounts, AccountsAfter DEF AccountsAt
<1>2. /\ OR \in SUBSET Procs /\ OR' \in SUBSET Procs /\ HR \in SUBSET Procs /\ HR' \in SUBSET Procs
      /\ OW \in SUBSET Procs /\ OW' \in SUBSET Procs /\ HW \in SUBSET Procs /\ HW' \in SUBSET Procs
  OBVIOUS
<1>3. /\ (p \in OR <=> OwesRead(p))   /\ (p \in OR' <=> OwesRead(p)')
      /\ (p \in HR <=> HoldsRead(p))  /\ (p \in HR' <=> HoldsRead(p)')
      /\ (p \in OW <=> OwesWrite(p))  /\ (p \in OW' <=> OwesWrite(p)')
      /\ (p \in HW <=> HoldsWrite(p)) /\ (p \in HW' <=> HoldsWrite(p)')
  OBVIOUS
<1>4. \A r \in Procs \ {p} : /\ r \in OR <=> r \in OR'
                             /\ r \in HR <=> r \in HR'
                             /\ r \in OW <=> r \in OW'
                             /\ r \in HW <=> r \in HW'
  BY <1>1
<1>5. /\ NOwesRead = Cardinality(OR) /\ NOwesRead' = Cardinality(OR')
      /\ NHoldsRead = Cardinality(HR) /\ NHoldsRead' = Cardinality(HR')
      /\ NOwesWrite = Cardinality(OW) /\ NOwesWrite' = Cardinality(OW')
      /\ NHoldsWrite = Cardinality(HW) /\ NHoldsWrite' = Cardinality(HW')
  BY DEF NOwesRead, NHoldsRead, NOwesWrite, NHoldsWrite
<1> HIDE DEF OR, HR, OW, HW
<1>6. NOwesRead \in Nat /\ NOwesRead >= Bit(OwesRead(p))
      /\ NOwesRead' = NOwesRead + Bit(OwesRead(p)') - Bit(OwesRead(p))
  <2>1. \A r \in Procs \ {p} : r \in OR <=> r \in OR'
    BY <1>4
  <2>2. /\ Cardinality(OR) \in Nat /\ Cardinality(OR') \in Nat
        /\ p \in OR => Cardinality(OR) >= 1
        /\ p \in OR /\ p \notin OR' => Cardinality(OR') = Cardinality(OR) - 1
        /\ p \notin OR /\ p \in OR' => Cardinality(OR') = Cardinality(OR) + 1
        /\ (p \in OR <=> p \in OR') => Cardinality(OR') = Cardinality(OR)
    BY <1>2, <2>1, ProcsFinite, SetChange
  <2> QED BY <1>3, <1>5, <2>2 DEF Bit
<1>7. NHoldsRead \in Nat /\ NHoldsRead >= Bit(HoldsRead(p))
      /\ NHoldsRead' = NHoldsRead + Bit(HoldsRead(p)') - Bit(HoldsRead(p))
  <2>1. \A r \in Procs \ {p} : r \in HR <=> r \in HR'
    BY <1>4
  <2>2. /\ Cardinality(HR) \in Nat /\ Cardinality(HR') \in Nat
        /\ p \in HR => Cardinality(HR) >= 1
        /\ p \in HR /\ p \notin HR' => Cardinality(HR') = Cardinality(HR) - 1
        /\ p \notin HR /\ p \in HR' => Cardinality(HR') = Cardinality(HR) + 1
        /\ (p \in HR <=> p \in HR') => Cardinality(HR') = Cardinality(HR)
    BY <1>2, <2>1, ProcsFinite, SetChange
  <2> QED BY <1>3, <1>5, <2>2 DEF Bit
<1>8. NOwesWrite \in Nat /\ NOwesWrite >= Bit(OwesWrite(p))
      /\ NOwesWrite' = NOwesWrite + Bit(OwesWrite(p)') - Bit(OwesWrite(p))
  <2>1. \A r \in Procs \ {p} : r \in OW <=> r \in OW'
    BY <1>4
  <2>2. /\ Cardinality(OW) \in Nat /\ Cardinality(OW') \in Nat
        /\ p \in OW => Cardinality(OW) >= 1
        /\ p \in OW /\ p \notin OW' => Cardinality(OW') = Cardinality(OW) - 1
        /\ p \notin OW /\ p \in OW' => Cardinality(OW') = Cardinality(OW) + 1
        /\ (p \in OW <=> p \in OW') => Cardinality(OW') = Cardinality(OW)
    BY <1>2, <2>1, ProcsFinite, SetChange
  <2> QED BY <1>3, <1>5, <2>2 DEF Bit
<1>9. NHoldsWrite \in Nat /\ NHoldsWrite >= Bit(HoldsWrite(p))
      /\ NHoldsWrite' = NHoldsWrite + Bit(HoldsWrite(p)') - Bit(HoldsWrite(p))
  <2>1. \A r \in Procs \ {p} : r \in HW <=> r \in HW'
    BY <1>4
  <2>2. /\ Cardinality(HW) \in Nat /\ Cardinality(HW') \in Nat
        /\ p \in HW => Cardinality(HW) >= 1
        /\ p \in HW /\ p \notin HW' => Cardinality(HW') = Cardinality(HW) - 1
        /\ p \notin HW /\ p \in HW' => Cardinality(HW') = Cardinality(HW) + 1
        /\ (p \in HW <=> p \in HW') => Cardinality(HW') = Cardinality(HW)
    BY <1>2, <2>1, ProcsFinite, SetChange
  <2> QED BY <1>3, <1>5, <2>2 DEF Bit
<1> QED BY <1>6, <1>7, <1>8, <1>9

\* SizeAssumption without the divisibility, which slows arithmetic down.
LEMMA Sizes ==
  /\ BufSize \in Nat /\ BufSize > 0 /\ NumElems \in Nat
  /\ UIntMod \in Nat /\ UIntMod > BufSize
BY SizeAssumption

\* How many items are in the ring, and what end++ and beg++ do to it.
LEMMA InUseIs ==
  ASSUME FifoTypes
  PROVE  InUse = IF end >= beg THEN end - beg ELSE end - beg + UIntMod
<1>1. end - beg \in Int /\ -UIntMod <= end - beg /\ end - beg < UIntMod
  BY Sizes DEF FifoTypes
<1>2. (end - beg) % UIntMod = IF end - beg < 0 THEN end - beg + UIntMod ELSE end - beg
  BY <1>1, Sizes, ModNear
<1> QED BY <1>2, Sizes DEF InUse, FifoTypes

LEMMA InUseAfter == (FifoTypes => InUse = IF end >= beg THEN end - beg ELSE end - beg + UIntMod)'
<1>1. FifoTypes => InUse = IF end >= beg THEN end - beg ELSE end - beg + UIntMod
  BY InUseIs
<1> QED BY <1>1, PTL

LEMMA Advanced ==
  ASSUME NEW n \in 0 .. UIntMod - 1
  PROVE  (n + 1) % UIntMod = IF n + 1 = UIntMod THEN 0 ELSE n + 1
<1>1. n + 1 \in Int /\ -UIntMod <= n + 1 /\ n + 1 < 2 * UIntMod /\ UIntMod \in Nat \ {0}
  BY Sizes
<1> DEFINE k == n + 1
           M == UIntMod
<1>2. k \in Int /\ -M <= k /\ k < 2 * M /\ M \in Nat \ {0} /\ 0 < k /\ k <= M
  BY Sizes
<1> HIDE DEF k, M
<1>3. k % M = IF k < 0 THEN k + M ELSE IF k < M THEN k ELSE k - M
  BY <1>2, ModNear
<1>4. k % M = IF k = M THEN 0 ELSE k
  BY <1>2, <1>3
<1> QED BY <1>4 DEF k, M

LEMMA EndAdvances ==
  ASSUME FifoTypes, FifoTypes', InUse < BufSize, end' = (end + 1) % UIntMod, UNCHANGED beg
  PROVE  InUse' = InUse + 1
<1>1. beg \in 0 .. UIntMod - 1 /\ end \in 0 .. UIntMod - 1
  BY DEF FifoTypes
<1>2. end' = IF end + 1 = UIntMod THEN 0 ELSE end + 1
  BY <1>1, Advanced
<1>3. InUse = IF end >= beg THEN end - beg ELSE end - beg + UIntMod
  BY InUseIs
<1>4. InUse' = IF end' >= beg THEN end' - beg ELSE end' - beg + UIntMod
  BY InUseAfter
<1> QED BY <1>1, <1>2, <1>3, <1>4, Sizes

LEMMA BegAdvances ==
  ASSUME FifoTypes, FifoTypes', InUse > 0, beg' = (beg + 1) % UIntMod, UNCHANGED end
  PROVE  InUse' = InUse - 1
<1>1. beg \in 0 .. UIntMod - 1 /\ end \in 0 .. UIntMod - 1
  BY DEF FifoTypes
<1>2. beg' = IF beg + 1 = UIntMod THEN 0 ELSE beg + 1
  BY <1>1, Advanced
<1>3. InUse = IF end >= beg THEN end - beg ELSE end - beg + UIntMod
  BY InUseIs
<1>4. InUse' = IF end >= beg' THEN end - beg' ELSE end - beg' + UIntMod
  BY InUseAfter
<1> QED BY <1>1, <1>2, <1>3, <1>4, Sizes

LEMMA PlacesInit == Init => PlacesConserved
<1> SUFFICES ASSUME Init PROVE PlacesConserved
  OBVIOUS
<1>1. /\ {p \in Procs : OwesRead(p)} = {} /\ {p \in Procs : HoldsRead(p)} = {}
      /\ {p \in Procs : OwesWrite(p)} = {} /\ {p \in Procs : HoldsWrite(p)} = {}
  BY DEF Init, SemInit, OwesRead, HoldsRead, OwesWrite, HoldsWrite, Giving, Taken
<1>2. InUse = 0
  BY TypesInit, InUseIs DEF Init
<1>3. count["read"] = 0 /\ count["write"] = BufSize
  BY FifoInit DEF Init, SemInit, FifoCounts
<1>4. Cardinality({}) = 0
  BY FS_EmptySet
<1> QED BY <1>1, <1>2, <1>3, <1>4, Sizes DEF PlacesConserved

\* PlacesConserved, with the sets it counts named.
LEMMA PlacesMeans ==
  PlacesConserved <=> /\ InUse = count["read"] + NOwesRead + NHoldsRead
                      /\ BufSize - InUse = count["write"] + NOwesWrite + NHoldsWrite
BY DEF PlacesConserved, NOwesRead, NHoldsRead, NOwesWrite, NHoldsWrite

LEMMA PlacesMeansAfter ==
  (PlacesConserved <=> /\ InUse = count["read"] + NOwesRead + NHoldsRead
                       /\ BufSize - InUse = count["write"] + NOwesWrite + NHoldsWrite)'
BY PlacesMeans, PTL

\* A step of p that leaves InUse and the counts and changes no account.
LEMMA PlacesQuiet ==
  ASSUME AtOK, AtOK', PlacesConserved, FifoTypes, IInv, NEW p \in Procs,
         \A r \in Procs \ {p} : at'[r] = at[r] /\ (Asked(r)' <=> Asked(r)),
         InUse' = InUse, count'["read"] = count["read"], count'["write"] = count["write"],
         OwesRead(p)' <=> OwesRead(p), HoldsRead(p)' <=> HoldsRead(p),
         OwesWrite(p)' <=> OwesWrite(p), HoldsWrite(p)' <=> HoldsWrite(p)
  PROVE  PlacesConserved'
BY Numbers, PlacesMeans, PlacesMeansAfter DEF Bit

LEMMA PlacesWrite ==
  ASSUME AtOK, AtOK', PlacesConserved, FifoTypes, FifoTypes', IInv, NEW w \in Writers, Write(w)
  PROVE  PlacesConserved'
<1>1. w \in Procs
  BY ProcAssumption
<1>2. AccountsAt(w) /\ AccountsAt(w)'
  BY <1>1, Accounts, AccountsAfter
<1>3. count' = count /\ \A r \in Procs \ {w} : at'[r] = at[r] /\ (Asked(r)' <=> Asked(r))
  BY WriteGoes DEF Write, Goes
<1>4. CASE WrEnd(w)
  <2>1. /\ OwesRead(w)' /\ ~OwesRead(w)
        /\ HoldsWrite(w) /\ ~HoldsWrite(w)'
        /\ (HoldsRead(w)' <=> HoldsRead(w))
        /\ (OwesWrite(w)' <=> OwesWrite(w))
    BY <1>2, <1>4, WriteGoes DEF Goes, AccountsAt
  <2>2. NHoldsWrite >= 1 /\ InUse < BufSize
    <3>1. /\ NOwesRead \in Nat /\ NHoldsRead \in Nat /\ NOwesWrite \in Nat /\ NHoldsWrite \in Nat
          /\ NHoldsWrite >= 1
      BY <1>1, <1>3, <2>1, Numbers DEF Bit
    <3>2. count["read"] \in Nat /\ count["write"] \in Nat
      BY FifoSems DEF IInv, TypeOK
    <3>3. InUse \in Int
      BY InUseIs, Sizes DEF FifoTypes
    <3> QED BY <3>1, <3>2, <3>3, PlacesMeans, Sizes
  <2>3. InUse' = InUse + 1 /\ InUse \in Int
    BY <1>4, <2>2, EndAdvances, InUseIs, Sizes DEF WrEnd, FifoTypes
  <2>4. /\ NOwesRead' = NOwesRead + 1 /\ NHoldsRead' = NHoldsRead
        /\ NOwesWrite' = NOwesWrite /\ NHoldsWrite' = NHoldsWrite - 1
        /\ NOwesRead \in Nat /\ NHoldsRead \in Nat /\ NOwesWrite \in Nat /\ NHoldsWrite \in Nat
    BY <1>1, <1>3, <2>1, Numbers DEF Bit
  <2>5. count["read"] \in Nat /\ count["write"] \in Nat
    BY FifoSems DEF IInv, TypeOK
  <2>6. count'["read"] = count["read"] /\ count'["write"] = count["write"]
    BY <1>3
  <2>7. /\ InUse = count["read"] + NOwesRead + NHoldsRead
        /\ BufSize - InUse = count["write"] + NOwesWrite + NHoldsWrite
    BY PlacesMeans
  <2>8. InUse' = count'["read"] + NOwesRead' + NHoldsRead'
    BY <2>3, <2>4, <2>5, <2>6, <2>7
  <2>9. BufSize - InUse' = count'["write"] + NOwesWrite' + NHoldsWrite'
    <3>1. BufSize \in Int
      BY Sizes
    <3> QED BY <2>3, <2>4, <2>5, <2>6, <2>7, <3>1
  <2> QED BY <2>8, <2>9, PlacesMeansAfter
<1>5. CASE ~WrEnd(w)
  <2>1. UNCHANGED <<beg, end>>
    BY <1>5 DEF Write, WrWaitWrite, WrWaitAccess, WrStore, WrIncAccess, WrIncRead, WrExit
  <2>2. InUse' = InUse
    BY <2>1 DEF InUse
  <2>3. /\ (OwesRead(w)' <=> OwesRead(w))    /\ (HoldsRead(w)' <=> HoldsRead(w))
        /\ (OwesWrite(w)' <=> OwesWrite(w))  /\ (HoldsWrite(w)' <=> HoldsWrite(w))
    BY <1>2, <1>5, WriteGoes DEF Goes, AccountsAt, Write
  <2> QED BY <1>1, <1>3, <2>2, <2>3, PlacesQuiet
<1> QED BY <1>4, <1>5

LEMMA PlacesRead ==
  ASSUME AtOK, AtOK', PlacesConserved, FifoTypes, FifoTypes', IInv, Read(Reader)
  PROVE  PlacesConserved'
<1>1. Reader \in Procs
  BY ProcAssumption
<1>2. AccountsAt(Reader) /\ AccountsAt(Reader)'
  BY <1>1, Accounts, AccountsAfter
<1>3. count' = count /\ \A r \in Procs \ {Reader} : at'[r] = at[r] /\ (Asked(r)' <=> Asked(r))
  BY ReadGoes DEF Read, Goes
<1>4. CASE RdBeg(Reader)
  <2>1. /\ OwesWrite(Reader)' /\ ~OwesWrite(Reader)
        /\ HoldsRead(Reader) /\ ~HoldsRead(Reader)'
        /\ (HoldsWrite(Reader)' <=> HoldsWrite(Reader))
        /\ (OwesRead(Reader)' <=> OwesRead(Reader))
    BY <1>2, <1>4, ReadGoes DEF Goes, AccountsAt
  <2>2. NHoldsRead >= 1 /\ InUse > 0
    <3>1. /\ NOwesRead \in Nat /\ NHoldsRead \in Nat /\ NOwesWrite \in Nat /\ NHoldsWrite \in Nat
          /\ NHoldsRead >= 1
      BY <1>1, <1>3, <2>1, Numbers DEF Bit
    <3>2. count["read"] \in Nat /\ count["write"] \in Nat
      BY FifoSems DEF IInv, TypeOK
    <3>3. InUse \in Int
      BY InUseIs, Sizes DEF FifoTypes
    <3> QED BY <3>1, <3>2, <3>3, PlacesMeans, Sizes
  <2>3. InUse' = InUse - 1 /\ InUse \in Int
    BY <1>4, <2>2, BegAdvances, InUseIs, Sizes DEF RdBeg, FifoTypes
  <2>4. /\ NOwesWrite' = NOwesWrite + 1 /\ NHoldsRead' = NHoldsRead - 1
        /\ NOwesRead' = NOwesRead /\ NHoldsWrite' = NHoldsWrite
        /\ NOwesRead \in Nat /\ NHoldsRead \in Nat /\ NOwesWrite \in Nat /\ NHoldsWrite \in Nat
    BY <1>1, <1>3, <2>1, Numbers DEF Bit
  <2>5. count["read"] \in Nat /\ count["write"] \in Nat
    BY FifoSems DEF IInv, TypeOK
  <2>6. count'["read"] = count["read"] /\ count'["write"] = count["write"]
    BY <1>3
  <2>7. /\ InUse = count["read"] + NOwesRead + NHoldsRead
        /\ BufSize - InUse = count["write"] + NOwesWrite + NHoldsWrite
    BY PlacesMeans
  <2>8. InUse' = count'["read"] + NOwesRead' + NHoldsRead'
    BY <2>3, <2>4, <2>5, <2>6, <2>7
  <2>9. BufSize - InUse' = count'["write"] + NOwesWrite' + NHoldsWrite'
    BY <2>3, <2>4, <2>5, <2>6, <2>7, Sizes
  <2> QED BY <2>8, <2>9, PlacesMeansAfter
<1>5. CASE ~RdBeg(Reader)
  <2>1. UNCHANGED <<beg, end>>
    BY <1>5 DEF Read, RdWaitRead, RdWaitAccess, RdLoad, RdIncAccess, RdIncWrite, RdReturn, RdExit
  <2>2. InUse' = InUse
    BY <2>1 DEF InUse
  <2>3. /\ (OwesRead(Reader)' <=> OwesRead(Reader))    /\ (HoldsRead(Reader)' <=> HoldsRead(Reader))
        /\ (OwesWrite(Reader)' <=> OwesWrite(Reader))  /\ (HoldsWrite(Reader)' <=> HoldsWrite(Reader))
    BY <1>2, <1>5, ReadGoes DEF Goes, AccountsAt, Read
  <2> QED BY <1>1, <1>3, <2>2, <2>3, PlacesQuiet
<1> QED BY <1>4, <1>5

LEMMA PlacesSem ==
  ASSUME AtOK, AtOK', PlacesConserved, FifoTypes, IInv, NEW p \in Procs,
         SemStep(p) \/ Deliver(p), UNCHANGED fifoVars
  PROVE  PlacesConserved'
<1>1. AccountsAt(p) /\ AccountsAt(p)'
  BY Accounts, AccountsAfter
<1>2. at' = at /\ \A r \in Procs \ {p} : at'[r] = at[r] /\ (Asked(r)' <=> Asked(r))
  BY SemGoes
<1>3. InUse' = InUse /\ InUse \in Int
  BY InUseIs, Sizes DEF InUse, fifoVars, FifoTypes
<1>4. count["read"] \in Nat /\ count["write"] \in Nat
  BY FifoSems DEF IInv, TypeOK
<1>5. CASE LeavesUnits(p)
  <2>1. /\ (OwesRead(p)' <=> OwesRead(p))    /\ (HoldsRead(p)' <=> HoldsRead(p))
        /\ (OwesWrite(p)' <=> OwesWrite(p))  /\ (HoldsWrite(p)' <=> HoldsWrite(p))
    BY <1>1, <1>2, <1>5 DEF AccountsAt, LeavesUnits
  <2> QED BY <1>2, <1>3, <1>5, <2>1, PlacesQuiet DEF LeavesUnits
<1>6. CASE TakesUnit(p)
  <2>1. /\ cur[p] = "access" => at[p] \in {"wr_store", "rd_load"}
        /\ cur[p] = "read" => at[p] = "rd_access"
        /\ cur[p] = "write" => at[p] = "wr_access"
    BY <1>6, ProcAssumption DEF TakesUnit, AtOK, WriterAt, ReaderAt, Waits, Incs, Free0,
       AskingUnit, GivingUnit, Asked
  <2>2. cur[p] \in {"access", "read", "write"}
    BY FifoSems DEF IInv, TypeOK
  <2>3. \A s \in Sems : count'[s] = IF s = cur[p] THEN count[s] - 1 ELSE count[s]
    BY <1>6 DEF TakesUnit, IInv, TypeOK
  <2>4. CASE cur[p] = "access"
    <3>1. /\ (OwesRead(p)' <=> OwesRead(p))    /\ (HoldsRead(p)' <=> HoldsRead(p))
          /\ (OwesWrite(p)' <=> OwesWrite(p))  /\ (HoldsWrite(p)' <=> HoldsWrite(p))
      BY <1>1, <1>2, <2>1, <2>4 DEF AccountsAt
    <3> QED BY <1>2, <1>3, <2>3, <2>4, <3>1, FifoSems, PlacesQuiet
  <2>5. CASE cur[p] = "read"
    <3>1. /\ (OwesRead(p)' <=> OwesRead(p))    /\ HoldsRead(p)' /\ ~HoldsRead(p)
          /\ (OwesWrite(p)' <=> OwesWrite(p))  /\ (HoldsWrite(p)' <=> HoldsWrite(p))
      BY <1>1, <1>2, <1>6, <2>1, <2>5 DEF AccountsAt, TakesUnit
    <3>2. /\ NOwesRead' = NOwesRead /\ NHoldsRead' = NHoldsRead + 1
          /\ NOwesWrite' = NOwesWrite /\ NHoldsWrite' = NHoldsWrite
          /\ NOwesRead \in Nat /\ NHoldsRead \in Nat /\ NOwesWrite \in Nat /\ NHoldsWrite \in Nat
      BY <1>2, <3>1, Numbers DEF Bit
    <3>3. count'["read"] = count["read"] - 1 /\ count'["write"] = count["write"]
      BY <2>3, <2>5, FifoSems
    <3> QED BY <1>3, <1>4, <3>2, <3>3, PlacesMeans, PlacesMeansAfter, Sizes
  <2>6. CASE cur[p] = "write"
    <3>1. /\ (OwesRead(p)' <=> OwesRead(p))    /\ (HoldsRead(p)' <=> HoldsRead(p))
          /\ (OwesWrite(p)' <=> OwesWrite(p))  /\ HoldsWrite(p)' /\ ~HoldsWrite(p)
      BY <1>1, <1>2, <1>6, <2>1, <2>6 DEF AccountsAt, TakesUnit
    <3>2. /\ NOwesRead' = NOwesRead /\ NHoldsRead' = NHoldsRead
          /\ NOwesWrite' = NOwesWrite /\ NHoldsWrite' = NHoldsWrite + 1
          /\ NOwesRead \in Nat /\ NHoldsRead \in Nat /\ NOwesWrite \in Nat /\ NHoldsWrite \in Nat
      BY <1>2, <3>1, Numbers DEF Bit
    <3>3. count'["write"] = count["write"] - 1 /\ count'["read"] = count["read"]
      BY <2>3, <2>6, FifoSems
    <3> QED BY <1>3, <1>4, <3>2, <3>3, PlacesMeans, PlacesMeansAfter, Sizes
  <2> QED BY <2>2, <2>4, <2>5, <2>6
<1>7. CASE GivesUnit(p)
  <2>1. /\ cur[p] = "access" => at[p] \in {"wr_incread", "rd_incwrite"}
        /\ cur[p] = "read" => at[p] = "wr"
        /\ cur[p] = "write" => at[p] = "rd_return"
    BY <1>7, ProcAssumption DEF GivesUnit, AtOK, WriterAt, ReaderAt, Waits, Incs, Free0,
       AskingUnit, GivingUnit, Asked
  <2>2. cur[p] \in {"access", "read", "write"}
    BY FifoSems DEF IInv, TypeOK
  <2>3. \A s \in Sems : count'[s] = IF s = cur[p] THEN count[s] + 1 ELSE count[s]
    BY <1>7 DEF GivesUnit, IInv, TypeOK
  <2>4. CASE cur[p] = "access"
    <3>1. /\ (OwesRead(p)' <=> OwesRead(p))    /\ (HoldsRead(p)' <=> HoldsRead(p))
          /\ (OwesWrite(p)' <=> OwesWrite(p))  /\ (HoldsWrite(p)' <=> HoldsWrite(p))
      BY <1>1, <1>2, <2>1, <2>4 DEF AccountsAt
    <3> QED BY <1>2, <1>3, <2>3, <2>4, <3>1, FifoSems, PlacesQuiet
  <2>5. CASE cur[p] = "read"
    <3>1. /\ OwesRead(p) /\ ~OwesRead(p)'    /\ (HoldsRead(p)' <=> HoldsRead(p))
          /\ (OwesWrite(p)' <=> OwesWrite(p))  /\ (HoldsWrite(p)' <=> HoldsWrite(p))
      BY <1>1, <1>2, <1>7, <2>1, <2>5 DEF AccountsAt, GivesUnit
    <3>2. /\ NOwesRead' = NOwesRead - 1 /\ NHoldsRead' = NHoldsRead
          /\ NOwesWrite' = NOwesWrite /\ NHoldsWrite' = NHoldsWrite
          /\ NOwesRead \in Nat /\ NHoldsRead \in Nat /\ NOwesWrite \in Nat /\ NHoldsWrite \in Nat
      BY <1>2, <3>1, Numbers DEF Bit
    <3>3. count'["read"] = count["read"] + 1 /\ count'["write"] = count["write"]
      BY <2>3, <2>5, FifoSems
    <3> QED BY <1>3, <1>4, <3>2, <3>3, PlacesMeans, PlacesMeansAfter, Sizes
  <2>6. CASE cur[p] = "write"
    <3>1. /\ (OwesRead(p)' <=> OwesRead(p))    /\ (HoldsRead(p)' <=> HoldsRead(p))
          /\ OwesWrite(p) /\ ~OwesWrite(p)'  /\ (HoldsWrite(p)' <=> HoldsWrite(p))
      BY <1>1, <1>2, <1>7, <2>1, <2>6 DEF AccountsAt, GivesUnit
    <3>2. /\ NOwesRead' = NOwesRead /\ NHoldsRead' = NHoldsRead
          /\ NOwesWrite' = NOwesWrite - 1 /\ NHoldsWrite' = NHoldsWrite
          /\ NOwesRead \in Nat /\ NHoldsRead \in Nat /\ NOwesWrite \in Nat /\ NHoldsWrite \in Nat
      BY <1>2, <3>1, Numbers DEF Bit
    <3>3. count'["write"] = count["write"] + 1 /\ count'["read"] = count["read"]
      BY <2>3, <2>6, FifoSems
    <3> QED BY <1>3, <1>4, <3>2, <3>3, PlacesMeans, PlacesMeansAfter, Sizes
  <2> QED BY <2>2, <2>4, <2>5, <2>6
<1> QED BY <1>5, <1>6, <1>7, SemGoes

------------------------------------------------------------------------------
(***************************************************************************)
(* What is stored, loaded and counted stays true until it is announced.    *)
(***************************************************************************)
LEMMA ReadyInit == Init => Ready
BY Sizes, ProcAssumption DEF Init, Ready

\* A process that touches the ring is alone at it.
LEMMA AloneAtRing ==
  ASSUME AccessInv, NEW p \in Procs, NEW r \in Procs, p # r, AtRing(p)
  PROVE  at[r] \notin {"wr_end", "wr_incaccess", "rd_beg", "rd_incaccess"}
BY DEF AccessInv, AtRing

LEMMA ReadyWrite ==
  ASSUME FifoTypes, AtOK, AccessInv, IInv, Ready, NEW w \in Writers, Write(w)
  PROVE  Ready'
<1> USE ProcAssumption DEF Ready
<1>1. w \in Procs /\ Reader \in Procs /\ w # Reader
  OBVIOUS
<1>2. AtRing(w) => \A r \in Procs \ {w} : at[r] \notin {"wr_end", "rd_beg"}
  BY <1>1, AloneAtRing
<1>3. CASE WrWaitWrite(w)
  BY <1>1, <1>3 DEF WrWaitWrite, Move, FifoTypes
<1>4. CASE WrWaitAccess(w)
  BY <1>1, <1>4 DEF WrWaitAccess, Move, FifoTypes
<1>5. CASE WrStore(w)
  <2>1. Goes(w, "wr_store", "wr_end", FALSE)
    BY <1>5, WriteGoes
  <2>2. AtRing(w)
    BY <2>1 DEF Goes, AtRing
  <2>3. \A r \in Procs \ {w} : at'[r] \notin {"wr_end", "rd_beg"}
    BY <1>2, <2>1, <2>2 DEF Goes
  <2>4. end % BufSize \in 0 .. BufSize - 1
    BY SizeAssumption DEF FifoTypes
  <2>5. addr'[end % BufSize] = <<w, j[w]>> /\ UNCHANGED <<end, beg, j, l, received>>
    BY <1>5, <2>4 DEF WrStore, FifoTypes
  <2>6. \A v \in Procs : at'[v] = IF v = w THEN "wr_end" ELSE at[v]
    BY <2>1 DEF Goes
  <2> QED BY <1>1, <2>1, <2>3, <2>5, <2>6 DEF Goes
<1>6. CASE WrEnd(w)
  <2>1. Goes(w, "wr_end", "wr_incaccess", FALSE)
    BY <1>6, WriteGoes
  <2>2. AtRing(w)
    BY <2>1 DEF Goes, AtRing
  <2>3. \A r \in Procs : at'[r] \notin {"wr_end", "rd_beg"}
    BY <1>2, <2>1, <2>2 DEF Goes
  <2>4. UNCHANGED <<beg, j, l, received>>
    BY <1>6 DEF WrEnd
  <2>5. \A v \in Procs : at'[v] = IF v = w THEN "wr_incaccess" ELSE at[v]
    BY <2>1 DEF Goes
  <2> QED BY <1>1, <2>1, <2>3, <2>4, <2>5 DEF Goes
<1>7. CASE WrIncAccess(w)
  BY <1>1, <1>7 DEF WrIncAccess, Move, FifoTypes
<1>8. CASE WrIncRead(w)
  <2>1. \A v \in Procs : /\ at'[v] = IF v = w THEN "wr" ELSE at[v]
                         /\ j'[v] = IF v = w THEN j[w] + 1 ELSE j[v]
    BY <1>1, <1>8 DEF WrIncRead, Move, Count, FifoTypes
  <2>2. at[w] = "wr_incread" /\ UNCHANGED <<addr, beg, end, l, received>>
    BY <1>8 DEF WrIncRead, Move
  <2>3. j[w] + 1 <= NumElems
    BY <1>1, <2>2, Sizes DEF FifoTypes
  <2> QED BY <1>1, <2>1, <2>2, <2>3
<1>9. CASE WrExit(w)
  BY <1>1, <1>9 DEF WrExit, Move, FifoTypes
<1> QED BY <1>3, <1>4, <1>5, <1>6, <1>7, <1>8, <1>9 DEF Write

LEMMA ReadyRead ==
  ASSUME FifoTypes, AtOK, AccessInv, IInv, Ready, Read(Reader)
  PROVE  Ready'
<1> USE ProcAssumption DEF Ready
<1>1. Reader \in Procs /\ Writers \subseteq Procs /\ Reader \notin Writers
  OBVIOUS
<1>2. CASE RdReturn(Reader)
  <2>1. \A v \in Procs : /\ at'[v] = IF v = Reader THEN "rd" ELSE at[v]
                         /\ j'[v] = IF v = Reader THEN j[Reader] + 1 ELSE j[v]
    BY <1>1, <1>2 DEF RdReturn, Move, Count, FifoTypes
  <2>2. UNCHANGED <<addr, beg, end, l>>
    BY <1>2 DEF RdReturn
  <2>3. Len(received') = Len(received) + 1
    BY <1>2 DEF RdReturn, FifoTypes
  <2> QED BY <1>1, <2>1, <2>2, <2>3
<1>3. CASE ~RdReturn(Reader)
  <2>1. \A v \in Writers : at'[v] = at[v]
    BY <1>1, ReadGoes DEF Read, Goes
  <2>2. UNCHANGED <<addr, end, j, received>>
    BY <1>3 DEF Read, RdWaitRead, RdWaitAccess, RdLoad, RdBeg, RdIncAccess, RdIncWrite, RdExit
  <2>3. at'[Reader] = "rd_beg" => l' = addr[beg % BufSize] /\ beg' = beg
    BY <1>3, ReadGoes DEF Read, Goes, RdLoad
  <2>4. at'[Reader] = "exit" => j[Reader] = Total
    BY <1>3, ReadGoes DEF Read, Goes, RdExit
  <2> QED BY <1>1, <2>1, <2>2, <2>3, <2>4
<1> QED BY <1>2, <1>3

------------------------------------------------------------------------------
(***************************************************************************)
(* The ring as a sequence.                                                 *)
(***************************************************************************)
\* No more items than places.
LEMMA InUseBounded ==
  ASSUME FifoTypes, PlacesConserved, IInv
  PROVE  InUse \in 0 .. BufSize
<1>1. /\ NOwesRead \in Nat /\ NHoldsRead \in Nat /\ NOwesWrite \in Nat /\ NHoldsWrite \in Nat
  <2>1. /\ {p \in Procs : OwesRead(p)} \in SUBSET Procs /\ {p \in Procs : HoldsRead(p)} \in SUBSET Procs
        /\ {p \in Procs : OwesWrite(p)} \in SUBSET Procs /\ {p \in Procs : HoldsWrite(p)} \in SUBSET Procs
    OBVIOUS
  <2> QED BY <2>1, ProcsFinite, FS_Subset, FS_CardinalityType
          DEF NOwesRead, NHoldsRead, NOwesWrite, NHoldsWrite
<1>2. count["read"] \in Nat /\ count["write"] \in Nat
  BY FifoSems DEF IInv, TypeOK
<1>3. InUse \in Int
  BY InUseIs, Sizes DEF FifoTypes
<1> QED BY <1>1, <1>2, <1>3, PlacesMeans, Sizes

\* The ring has room while a writer holds a unit of write, and an item while
\* the reader holds one of read.
LEMMA Room ==
  ASSUME FifoTypes, AtOK, PlacesConserved, IInv, NEW p \in Procs
  PROVE  /\ at[p] \in {"wr_store", "wr_end"} => InUse < BufSize
         /\ at[p] = "rd_beg" => InUse > 0
<1>1. /\ IsFiniteSet({r \in Procs : HoldsWrite(r)}) /\ IsFiniteSet({r \in Procs : HoldsRead(r)})
      /\ IsFiniteSet({r \in Procs : OwesWrite(r)}) /\ IsFiniteSet({r \in Procs : OwesRead(r)})
  <2>1. /\ {r \in Procs : OwesRead(r)} \in SUBSET Procs /\ {r \in Procs : HoldsRead(r)} \in SUBSET Procs
        /\ {r \in Procs : OwesWrite(r)} \in SUBSET Procs /\ {r \in Procs : HoldsWrite(r)} \in SUBSET Procs
    OBVIOUS
  <2> QED BY <2>1, ProcsFinite, FS_Subset
<1>2. /\ NOwesRead \in Nat /\ NHoldsRead \in Nat /\ NOwesWrite \in Nat /\ NHoldsWrite \in Nat
  BY <1>1, FS_CardinalityType DEF NOwesRead, NHoldsRead, NOwesWrite, NHoldsWrite
<1>3. AccountsAt(p)
  BY Accounts
<1>4. count["read"] \in Nat /\ count["write"] \in Nat /\ InUse \in Int
  BY FifoSems, InUseIs, Sizes DEF IInv, TypeOK, FifoTypes
<1>5. ASSUME at[p] \in {"wr_store", "wr_end"} PROVE InUse < BufSize
  <2>1. p \in {r \in Procs : HoldsWrite(r)}
    BY <1>3, <1>5 DEF AccountsAt
  <2>2. NHoldsWrite # 0
    BY <1>1, <2>1, FS_EmptySet DEF NHoldsWrite
  <2> QED BY <1>2, <1>4, <2>2, PlacesMeans, Sizes
<1>6. ASSUME at[p] = "rd_beg" PROVE InUse > 0
  <2>1. p \in {r \in Procs : HoldsRead(r)}
    BY <1>3, <1>6 DEF AccountsAt
  <2>2. NHoldsRead # 0
    BY <1>1, <2>1, FS_EmptySet DEF NHoldsRead
  <2> QED BY <1>2, <1>4, <2>2, PlacesMeans, Sizes
<1> QED BY <1>5, <1>6

LEMMA RingIs ==
  ASSUME FifoTypes, InUse \in Nat
  PROVE  /\ Ring \in Seq(Items) /\ Len(Ring) = InUse
         /\ \A k \in 1 .. InUse : Ring[k] = addr[(beg + k - 1) % BufSize]
<1>1. \A k \in 1 .. InUse : (beg + k - 1) % BufSize \in 0 .. BufSize - 1
  BY SizeAssumption DEF FifoTypes
<1>2. \A k \in 1 .. InUse : addr[(beg + k - 1) % BufSize] \in Items
  BY <1>1 DEF FifoTypes
<1> QED BY <1>2 DEF Ring

LEMMA RingIsAfter ==
  (FifoTypes /\ InUse \in Nat => /\ Ring \in Seq(Items) /\ Len(Ring) = InUse
                                 /\ \A k \in 1 .. InUse : Ring[k] = addr[(beg + k - 1) % BufSize])'
<1>1. FifoTypes /\ InUse \in Nat => /\ Ring \in Seq(Items) /\ Len(Ring) = InUse
                                 /\ \A k \in 1 .. InUse : Ring[k] = addr[(beg + k - 1) % BufSize]
  BY RingIs
<1> QED BY <1>1, PTL

\* The two indices wrap at a multiple of the size of the ring.
LEMMA WrapIsTurns == \E c \in Nat : UIntMod = c * BufSize
<1>1. UIntMod % BufSize = 0 /\ BufSize \in Nat \ {0} /\ UIntMod \in Nat
  BY SizeAssumption
<1>2. UIntMod = (UIntMod \div BufSize) * BufSize + (UIntMod % BufSize)
  BY <1>1
<1>3. UIntMod \div BufSize \in Nat
  BY <1>1
<1> QED BY <1>1, <1>2, <1>3

LEMMA WrapPlace ==
  ASSUME NEW a \in Int
  PROVE  (a - UIntMod) % BufSize = a % BufSize /\ (a + UIntMod) % BufSize = a % BufSize
<1>1. PICK c \in Nat : UIntMod = c * BufSize
  BY WrapIsTurns
<1>2. BufSize \in Nat \ {0} /\ -c \in Int /\ c \in Int
  BY Sizes
<1>3. (a + (-c) * BufSize) % BufSize = a % BufSize
  BY <1>2, ModShift
<1>4. (a + c * BufSize) % BufSize = a % BufSize
  BY <1>2, ModShift
<1>5. a + (-c) * BufSize = a - UIntMod
  BY <1>1, <1>2
<1> QED BY <1>1, <1>3, <1>4, <1>5

\* The place after the last item.
LEMMA EndPlace ==
  ASSUME FifoTypes
  PROVE  end % BufSize = (beg + InUse) % BufSize
<1>1. CASE end >= beg
  BY <1>1, InUseIs, Sizes DEF FifoTypes
<1>2. CASE end < beg
  <2>1. beg + InUse = end + UIntMod /\ end \in Int
    BY <1>2, InUseIs, Sizes DEF FifoTypes
  <2> QED BY <2>1, WrapPlace
<1> QED BY <1>1, <1>2 DEF FifoTypes

\* Nothing in use is changed.
LEMMA RingKept ==
  ASSUME FifoTypes, FifoTypes', InUse \in Nat, UNCHANGED <<beg, end>>,
         \A k \in 1 .. InUse : addr'[(beg + k - 1) % BufSize] = addr[(beg + k - 1) % BufSize]
  PROVE  Ring' = Ring
<1>1. InUse' = InUse
  BY DEF InUse
<1> QED BY <1>1, RingIs, RingIsAfter

\* end++ puts the item that was stored ...
LEMMA RingPut ==
  ASSUME FifoTypes, FifoTypes', InUse \in Nat, InUse' = InUse + 1, UNCHANGED <<beg, addr>>
  PROVE  Ring' = Append(Ring, addr[end % BufSize])
<1>1. end % BufSize = (beg + InUse) % BufSize
  BY EndPlace
<1>2. /\ Len(Ring') = InUse + 1 /\ Ring' \in Seq(Items)
      /\ \A k \in 1 .. InUse + 1 : Ring'[k] = addr[(beg + k - 1) % BufSize]
  BY RingIsAfter
<1>3. beg + (InUse + 1) - 1 = beg + InUse
  BY Sizes DEF FifoTypes
<1>4. Ring'[InUse + 1] = addr[end % BufSize]
  BY <1>1, <1>2, <1>3
<1>5. end % BufSize \in 0 .. BufSize - 1
  BY SizeAssumption DEF FifoTypes
<1>6. addr[end % BufSize] \in Items
  BY <1>5 DEF FifoTypes
<1>7. /\ Len(Ring) = InUse /\ Ring \in Seq(Items)
      /\ \A k \in 1 .. InUse : Ring[k] = addr[(beg + k - 1) % BufSize]
  BY RingIs
<1> DEFINE s == Append(Ring, addr[end % BufSize])
<1>8. s \in Seq(Items) /\ Len(s) = InUse + 1
  BY <1>6, <1>7
<1>9. \A k \in 1 .. Len(s) : s[k] = Ring'[k]
  BY <1>2, <1>4, <1>7, SMTT(30)
<1> HIDE DEF s
<1>10. s = Ring'
  BY <1>2, <1>8, <1>9, SeqEqual
<1> QED BY <1>10 DEF s

\* ... and beg++ takes the one that was loaded.
LEMMA RingGet ==
  ASSUME FifoTypes, FifoTypes', InUse \in Nat, InUse > 0, InUse' = InUse - 1,
         beg' = (beg + 1) % UIntMod, UNCHANGED addr
  PROVE  Ring # <<>> /\ Ring' = Tail(Ring) /\ Head(Ring) = addr[beg % BufSize]
<1>1. /\ Len(Ring) = InUse /\ Ring \in Seq(Items)
      /\ \A k \in 1 .. InUse : Ring[k] = addr[(beg + k - 1) % BufSize]
  BY RingIs
<1>2. /\ Len(Ring') = InUse - 1 /\ Ring' \in Seq(Items)
      /\ \A k \in 1 .. InUse - 1 : Ring'[k] = addr[(beg' + k - 1) % BufSize]
  BY RingIsAfter
<1>3. beg \in 0 .. UIntMod - 1 /\ beg' = IF beg + 1 = UIntMod THEN 0 ELSE beg + 1
  BY Advanced DEF FifoTypes
<1>4. ASSUME NEW k \in 1 .. InUse - 1
      PROVE  (beg' + k - 1) % BufSize = (beg + (k + 1) - 1) % BufSize
  <2>1. CASE beg + 1 = UIntMod
    <3>1. beg + (k + 1) - 1 \in Int /\ beg' + k - 1 = (beg + (k + 1) - 1) - UIntMod
      BY <1>3, <2>1, Sizes
    <3> QED BY <3>1, WrapPlace
  <2>2. CASE beg + 1 # UIntMod
    BY <1>3, <2>2, Sizes
  <2> QED BY <2>1, <2>2
<1>5. ASSUME NEW k \in 1 .. InUse - 1 PROVE Ring'[k] = Ring[k + 1]
  <2>1. k + 1 \in 1 .. InUse
    OBVIOUS
  <2>2. Ring[k + 1] = addr[(beg + (k + 1) - 1) % BufSize]
    BY <1>1, <2>1
  <2> QED BY <1>2, <1>4, <2>2
<1>6. Ring # <<>> /\ Head(Ring) = Ring[1]
  BY <1>1
<1>7. Ring[1] = addr[beg % BufSize]
  <2>1. beg + 1 - 1 = beg
    BY <1>3, Sizes
  <2> QED BY <1>1, <2>1
<1>8. Tail(Ring) \in Seq(Items) /\ Len(Tail(Ring)) = InUse - 1
      /\ \A k \in 1 .. InUse - 1 : Tail(Ring)[k] = Ring[k + 1]
  BY <1>1, <1>6
<1>9. Ring' = Tail(Ring)
  BY <1>2, <1>5, <1>8, SeqEqual
<1> QED BY <1>6, <1>7, <1>9

------------------------------------------------------------------------------
(***************************************************************************)
(* The ring and its indices are a bounded queue.                           *)
(***************************************************************************)
QStutter == UNCHANGED <<Ring, WrittenBy, Out>>

PutStep(w) == /\ WrittenBy[w] < NumElems /\ Len(Ring) < BufSize
              /\ Ring' = Append(Ring, <<w, WrittenBy[w]>>)
              /\ WrittenBy' = [WrittenBy EXCEPT ![w] = @ + 1]
              /\ Out' = Out

GetStep == /\ Ring # <<>>
           /\ Out' = Append(Out, Head(Ring))
           /\ Ring' = Tail(Ring)
           /\ WrittenBy' = WrittenBy

LEMMA WriteQueue ==
  ASSUME IInv, Places, FifoTypes', NEW w \in Writers, Write(w)
  PROVE  PutStep(w) \/ QStutter
<1> USE ProcAssumption DEF Places
<1>1. w \in Procs /\ Reader \in Procs /\ w # Reader
  OBVIOUS
<1>2. InUse \in 0 .. BufSize
  BY InUseBounded
<1>3. InUse \in Nat
  BY <1>2, Sizes
<1>4. \A r \in Procs \ {w} : at'[r] = at[r]
  BY WriteGoes DEF Write, Goes
<1>5. Out' = Out
  <2>1. UNCHANGED <<l, received>>
    BY DEF Write, WrWaitWrite, WrWaitAccess, WrStore, WrEnd, WrIncAccess, WrIncRead, WrExit
  <2>2. at'[Reader] = at[Reader]
    BY <1>1, <1>4
  <2> QED BY <2>1, <2>2 DEF Out, Got
<1>6. CASE WrEnd(w)
  <2>1. at[w] = "wr_end" /\ at'[w] = "wr_incaccess"
    BY <1>6, WriteGoes DEF Goes
  <2>2. InUse < BufSize
    BY <1>1, <2>1, Room
  <2>3. UNCHANGED <<addr, beg, j>> /\ end' = (end + 1) % UIntMod
    BY <1>6 DEF WrEnd
  <2>4. InUse' = InUse + 1
    BY <2>2, <2>3, EndAdvances
  <2>5. Ring' = Append(Ring, addr[end % BufSize])
    BY <1>3, <2>3, <2>4, RingPut
  <2>6. addr[end % BufSize] = <<w, j[w]>> /\ j[w] < NumElems
    BY <2>1 DEF Ready
  <2>7. Len(Ring) < BufSize
    BY <1>3, <2>2, RingIs
  <2>8. WrittenBy[w] = j[w]
    BY <2>1 DEF WrittenBy, Written
  <2>9. \A v \in Writers : Written(v)' = IF v = w THEN Written(w) + 1 ELSE Written(v)
    BY <1>1, <1>4, <2>1, <2>3 DEF Written
  <2>10. WrittenBy' = [WrittenBy EXCEPT ![w] = @ + 1]
    BY <2>9 DEF WrittenBy
  <2> QED BY <1>5, <2>5, <2>6, <2>7, <2>8, <2>10 DEF PutStep
<1>7. CASE ~WrEnd(w)
  <2>1. UNCHANGED <<beg, end>>
    BY <1>7 DEF Write, WrWaitWrite, WrWaitAccess, WrStore, WrIncAccess, WrIncRead, WrExit
  <2>2. Ring' = Ring
    <3>1. CASE WrStore(w)
      <4>1. at[w] = "wr_store"
        BY <3>1, WriteGoes DEF Goes
      <4>2. InUse < BufSize
        BY <1>1, <4>1, Room
      <4>3. end % BufSize = (beg + InUse) % BufSize
        BY EndPlace
      <4>4. ASSUME NEW k \in 1 .. InUse
            PROVE  (beg + k - 1) % BufSize # (beg + InUse) % BufSize
        <5>1. /\ beg + k - 1 \in Int /\ beg + InUse \in Int /\ beg + k - 1 < beg + InUse
              /\ beg + InUse < beg + k - 1 + BufSize /\ BufSize \in Nat \ {0}
          BY <1>3, <4>2, Sizes DEF FifoTypes
        <5> QED BY <5>1, ModApart
      <4>5. \A d : d # end % BufSize => addr'[d] = addr[d] \/ d \notin 0 .. BufSize - 1
        BY <3>1 DEF WrStore, FifoTypes
      <4>6. \A k \in 1 .. InUse : (beg + k - 1) % BufSize \in 0 .. BufSize - 1
        BY SizeAssumption DEF FifoTypes
      <4>7. \A k \in 1 .. InUse : addr'[(beg + k - 1) % BufSize] = addr[(beg + k - 1) % BufSize]
        BY <4>3, <4>4, <4>5, <4>6
      <4> QED BY <1>3, <2>1, <4>7, RingKept
    <3>2. CASE ~WrStore(w)
      <4>1. UNCHANGED addr
        BY <1>7, <3>2 DEF Write, WrWaitWrite, WrWaitAccess, WrIncAccess, WrIncRead, WrExit
      <4> QED BY <1>3, <2>1, <4>1, RingKept
    <3> QED BY <3>1, <3>2
  <2>3. Written(w)' = Written(w)
    <3>1. CASE WrIncRead(w)
      <4>1. at[w] = "wr_incread" /\ at'[w] = "wr" /\ j'[w] = j[w] + 1
        BY <1>1, <3>1 DEF WrIncRead, Move, Count, FifoTypes
      <4> QED BY <4>1 DEF Written
    <3>2. CASE ~WrIncRead(w)
      <4>1. j' = j
        BY <1>7, <3>2 DEF Write, WrWaitWrite, WrWaitAccess, WrStore, WrIncAccess, WrExit
      <4>2. at[w] \in {"wr_incaccess", "wr_incread"} <=> at'[w] \in {"wr_incaccess", "wr_incread"}
        BY <1>7, <3>2, WriteGoes DEF Write, Goes
      <4> QED BY <4>1, <4>2 DEF Written
    <3> QED BY <3>1, <3>2
  <2>4. \A v \in Writers \ {w} : j'[v] = j[v]
    BY DEF Write, WrWaitWrite, WrWaitAccess, WrStore, WrEnd, WrIncAccess, WrIncRead, WrExit,
           Count, FifoTypes
  <2>5. \A v \in Writers : Written(v)' = Written(v)
    BY <1>1, <1>4, <2>3, <2>4 DEF Written
  <2> QED BY <1>5, <2>2, <2>5 DEF QStutter, WrittenBy
<1> QED BY <1>6, <1>7

LEMMA ReadQueue ==
  ASSUME IInv, Places, FifoTypes', Read(Reader)
  PROVE  GetStep \/ QStutter
<1> USE ProcAssumption DEF Places
<1>1. Reader \in Procs /\ Reader \notin Writers
  OBVIOUS
<1>2. InUse \in Nat
  BY InUseBounded, Sizes
<1>3. \A r \in Writers : at'[r] = at[r]
  BY <1>1, ReadGoes DEF Read, Goes
<1>4. \A r \in Writers : j'[r] = j[r]
  BY <1>1 DEF Read, RdWaitRead, RdWaitAccess, RdLoad, RdBeg, RdIncAccess, RdIncWrite, RdReturn,
          RdExit, Count, FifoTypes
<1>5. WrittenBy' = WrittenBy
  BY <1>3, <1>4 DEF WrittenBy, Written
<1>6. addr' = addr /\ end' = end
  BY DEF Read, RdWaitRead, RdWaitAccess, RdLoad, RdBeg, RdIncAccess, RdIncWrite, RdReturn, RdExit
<1>7. CASE RdBeg(Reader)
  <2>1. at[Reader] = "rd_beg" /\ at'[Reader] = "rd_incaccess"
    BY <1>7, ReadGoes DEF Goes
  <2>2. UNCHANGED <<l, received>> /\ beg' = (beg + 1) % UIntMod
    BY <1>7 DEF RdBeg
  <2>3. InUse > 0
    BY <1>1, <2>1, Room
  <2>4. InUse' = InUse - 1
    BY <1>6, <2>2, <2>3, BegAdvances
  <2>5. Ring # <<>> /\ Ring' = Tail(Ring) /\ Head(Ring) = addr[beg % BufSize]
    BY <1>2, <1>6, <2>2, <2>3, <2>4, RingGet
  <2>6. l = addr[beg % BufSize]
    BY <2>1 DEF Ready
  <2>7. Out = received /\ Out' = Append(received, l)
    BY <2>1, <2>2 DEF Out, Got
  <2> QED BY <1>5, <2>5, <2>6, <2>7 DEF GetStep
<1>8. CASE ~RdBeg(Reader)
  <2>1. beg' = beg
    BY <1>8 DEF Read, RdWaitRead, RdWaitAccess, RdLoad, RdIncAccess, RdIncWrite, RdReturn, RdExit
  <2>2. Ring' = Ring
    BY <1>2, <1>6, <2>1, RingKept
  <2>3. Out' = Out
    <3>1. CASE RdReturn(Reader)
      <4>1. at[Reader] = "rd_return" /\ at'[Reader] = "rd"
        BY <3>1, ReadGoes DEF Goes
      <4> QED BY <3>1, <4>1 DEF Out, Got, RdReturn
    <3>2. CASE RdLoad(Reader)
      <4>1. at[Reader] = "rd_load" /\ at'[Reader] = "rd_beg"
        BY <3>2, ReadGoes DEF Goes
      <4> QED BY <3>2, <4>1 DEF Out, Got, RdLoad
    <3>3. CASE ~RdReturn(Reader) /\ ~RdLoad(Reader)
      <4>1. UNCHANGED <<l, received>>
        BY <1>8, <3>3 DEF Read, RdWaitRead, RdWaitAccess, RdIncAccess, RdIncWrite, RdExit
      <4>2. Got(Reader)' <=> Got(Reader)
        BY <1>8, <3>3, ReadGoes DEF Read, Goes, Got
      <4> QED BY <4>1, <4>2 DEF Out
    <3> QED BY <3>1, <3>2, <3>3
  <2> QED BY <1>5, <2>2, <2>3 DEF QStutter
<1> QED BY <1>7, <1>8

\* Every step of the fifo puts an item, gets one, or is a stutter of the queue.
LEMMA StepQueue ==
  ASSUME IInv, Places, FifoTypes', [Next]_vars
  PROVE  (\E w \in Writers : PutStep(w)) \/ GetStep \/ QStutter
<1>1. ASSUME UNCHANGED fifoVars PROVE QStutter
  BY <1>1 DEF fifoVars, QStutter, Ring, InUse, WrittenBy, Written, Out, Got
<1> QED BY <1>1, WriteQueue, ReadQueue, ProcAssumption DEF Next, Process, Signal, Main, vars

------------------------------------------------------------------------------
(***************************************************************************)
(* All of it, step by step.                                                *)
(***************************************************************************)
LEMMA PlacesStep == Places /\ IInv /\ [Next]_vars => Places'
<1> SUFFICES ASSUME Places, IInv, [Next]_vars PROVE Places'
  OBVIOUS
<1>1. FifoTypes /\ AtOK /\ AccessInv /\ Ready /\ PlacesConserved
  BY DEF Places
<1>2. FifoTypes'
  BY <1>1, TypesStep
<1>3. AtOK'
  BY <1>1, AtStep
<1>4. AccessInv'
  BY <1>1, AccessStep
<1>5. Ready' /\ PlacesConserved'
  <2>1. ASSUME UNCHANGED fifoVars PROVE Ready'
    BY <1>1, <2>1 DEF Ready, fifoVars
  <2>2. CASE UNCHANGED vars
    <3>1. PlacesConserved'
      BY <1>1, <2>2 DEF PlacesConserved, vars, semVars, fifoVars, InUse, OwesRead, HoldsRead,
                        OwesWrite, HoldsWrite, Giving, Taken
    <3> QED BY <2>1, <2>2, <3>1 DEF vars
  <2>3. ASSUME NEW w \in Writers, Write(w) PROVE Ready' /\ PlacesConserved'
    BY <1>1, <1>2, <1>3, <2>3, ReadyWrite, PlacesWrite
  <2>4. ASSUME Read(Reader) PROVE Ready' /\ PlacesConserved'
    BY <1>1, <1>2, <1>3, <2>4, ReadyRead, PlacesRead
  <2>5. ASSUME NEW p \in Procs, SemStep(p) \/ Deliver(p), UNCHANGED fifoVars
        PROVE  Ready' /\ PlacesConserved'
    BY <1>1, <1>3, <2>1, <2>5, PlacesSem
  <2> QED BY <2>2, <2>3, <2>4, <2>5 DEF Next, Process, Signal, Main
<1> QED BY <1>2, <1>3, <1>4, <1>5 DEF Places

LEMMA RingInit == Init => Ring = <<>> /\ Out = <<>> /\ WrittenBy = [w \in Writers |-> 0]
<1> SUFFICES ASSUME Init PROVE Ring = <<>> /\ Out = <<>> /\ WrittenBy = [w \in Writers |-> 0]
  OBVIOUS
<1>1. FifoTypes
  BY TypesInit
<1>2. InUse = 0
  BY <1>1, InUseIs DEF Init
<1>3. Ring = <<>>
  BY <1>1, <1>2, RingIs
<1>4. Out = <<>>
  BY ProcAssumption DEF Init, Out, Got
<1>5. \A w \in Writers : Written(w) = 0
  BY ProcAssumption DEF Init, Written
<1> QED BY <1>3, <1>4, <1>5 DEF WrittenBy

------------------------------------------------------------------------------
(***************************************************************************)
(* Interleavings of the streams.                                           *)
(***************************************************************************)
LEMMA MergedPut ==
  ASSUME NEW s \in Seq(Items), NEW n \in [Writers -> Nat], NEW w \in Writers, Merged(s, n)
  PROVE  Merged(Append(s, <<w, n[w]>>), [n EXCEPT ![w] = @ + 1])
<1> DEFINE t == Append(s, <<w, n[w]>>)
           m == [n EXCEPT ![w] = @ + 1]
<1>1. Len(t) = Len(s) + 1 /\ t[Len(s) + 1] = <<w, n[w]>> /\ Len(s) \in Nat
      /\ \A i \in 1 .. Len(s) : t[i] = s[i]
  OBVIOUS
<1>2. m[w] = n[w] + 1 /\ n[w] \in Nat /\ \A v \in Writers \ {w} : m[v] = n[v] /\ m[v] \in Nat
  OBVIOUS
<1>3. /\ \A i \in 1 .. Len(s) : \E v \in Writers : \E k \in 0 .. n[v] - 1 : s[i] = <<v, k>>
      /\ \A i, k \in 1 .. Len(s) : i < k /\ s[i][1] = s[k][1] => s[i][2] < s[k][2]
      /\ \A v \in Writers : \A k \in 0 .. n[v] - 1 : \E i \in 1 .. Len(s) : s[i] = <<v, k>>
  BY DEF Merged
<1> HIDE DEF t, m
<1>4. \A v \in Writers : 0 .. n[v] - 1 \subseteq 0 .. m[v] - 1
  BY <1>2
<1>5. ASSUME NEW i \in 1 .. Len(t)
      PROVE  \E v \in Writers : \E k \in 0 .. m[v] - 1 : t[i] = <<v, k>>
  <2>1. CASE i = Len(s) + 1
    <3>1. n[w] \in 0 .. m[w] - 1
      BY <1>2
    <3> QED BY <1>1, <2>1, <3>1
  <2>2. CASE i \in 1 .. Len(s)
    <3>1. PICK v \in Writers : \E k \in 0 .. n[v] - 1 : s[i] = <<v, k>>
      BY <1>3, <2>2
    <3> QED BY <1>1, <1>4, <2>2, <3>1
  <2> QED BY <1>1, <2>1, <2>2
<1>6. ASSUME NEW i \in 1 .. Len(t), NEW k \in 1 .. Len(t), i < k, t[i][1] = t[k][1]
      PROVE  t[i][2] < t[k][2]
  <2>1. i \in 1 .. Len(s) /\ t[i] = s[i]
    BY <1>1, <1>6
  <2>2. CASE k = Len(s) + 1
    <3>1. PICK v \in Writers : \E d \in 0 .. n[v] - 1 : s[i] = <<v, d>>
      BY <1>3, <2>1
    <3>2. PICK d \in 0 .. n[v] - 1 : s[i] = <<v, d>>
      BY <3>1
    <3>3. v = w /\ t[k][2] = n[w] /\ t[i][2] = d
      BY <1>1, <1>6, <2>1, <2>2, <3>2
    <3> QED BY <1>2, <3>2, <3>3
  <2>3. CASE k \in 1 .. Len(s)
    BY <1>1, <1>3, <1>6, <2>1, <2>3
  <2> QED BY <1>1, <2>2, <2>3
<1>7. ASSUME NEW v \in Writers, NEW k \in 0 .. m[v] - 1
      PROVE  \E i \in 1 .. Len(t) : t[i] = <<v, k>>
  <2>1. CASE v = w /\ k = n[w]
    BY <1>1, <2>1
  <2>2. CASE k \in 0 .. n[v] - 1
    <3>1. PICK i \in 1 .. Len(s) : s[i] = <<v, k>>
      BY <1>3, <2>2
    <3> QED BY <1>1, <3>1
  <2> QED BY <1>2, <2>1, <2>2
<1>8. Merged(t, m)
  BY <1>5, <1>6, <1>7 DEF Merged
<1> QED BY <1>8 DEF t, m

LEMMA OutTypes == FifoTypes => Out \in Seq(Items) /\ WrittenBy \in [Writers -> Nat]
BY ProcAssumption DEF FifoTypes, Out, WrittenBy, Written

\* What has left the ring and what is in it.
LEMMA AllPutIs ==
  ASSUME FifoTypes, InUse \in Nat
  PROVE  /\ AllPut \in Seq(Items)
         /\ Len(AllPut) = Len(Out) + Len(Ring)
         /\ \A i \in 1 .. Len(Out) : AllPut[i] = Out[i]
BY OutTypes, RingIs DEF AllPut

LEMMA StreamPut ==
  ASSUME FifoTypes, InUse \in Nat, StreamInv, NEW w \in Writers, PutStep(w)
  PROVE  StreamInv'
<1>1. Out \in Seq(Items) /\ Ring \in Seq(Items) /\ WrittenBy \in [Writers -> Nat]
  BY OutTypes, RingIs
<1> DEFINE x == <<w, WrittenBy[w]>>
<1>2. x \in Items
  BY <1>1, ProcAssumption DEF Items
<1>3. AllPut' = Append(AllPut, x)
  <2>1. AllPut' = Out \o Append(Ring, x)
    BY DEF AllPut, PutStep
  <2> HIDE DEF x
  <2> QED BY <1>1, <1>2, <2>1 DEF AllPut
<1>4. Merged(Append(AllPut, x), [WrittenBy EXCEPT ![w] = @ + 1])
  BY <1>1, AllPutIs, MergedPut DEF StreamInv
<1> QED BY <1>3, <1>4 DEF StreamInv, PutStep

LEMMA StreamGet ==
  ASSUME FifoTypes, InUse \in Nat, StreamInv, GetStep
  PROVE  StreamInv'
<1>1. Out \in Seq(Items) /\ Ring \in Seq(Items) /\ Ring # <<>>
  BY OutTypes, RingIs DEF GetStep
<1>2. Append(Out, Head(Ring)) \o Tail(Ring) = Out \o Ring
  <2>1. Append(Out, Head(Ring)) \in Seq(Items) /\ Tail(Ring) \in Seq(Items)
        /\ Len(Ring) \in Nat /\ Len(Ring) > 0 /\ Len(Tail(Ring)) = Len(Ring) - 1
        /\ Len(Append(Out, Head(Ring))) = Len(Out) + 1
    BY <1>1
  <2> DEFINE a == Append(Out, Head(Ring)) \o Tail(Ring)
             b == Out \o Ring
  <2>2. a \in Seq(Items) /\ b \in Seq(Items) /\ Len(a) = Len(Out) + Len(Ring)
        /\ Len(b) = Len(Out) + Len(Ring)
    BY <1>1, <2>1
  <2>3. \A i \in 1 .. Len(Out) + Len(Ring) : a[i] = b[i]
    BY <1>1, <2>1
  <2> HIDE DEF a, b
  <2>4. a = b
    BY <2>2, <2>3, SeqEqual
  <2> QED BY <2>4 DEF a, b
<1>3. AllPut' = AllPut
  BY <1>2 DEF AllPut, GetStep
<1> QED BY <1>3 DEF StreamInv, GetStep

LEMMA FInvInit == Init => FInv
<1> SUFFICES ASSUME Init PROVE FInv
  OBVIOUS
<1>1. IInv
  BY InitInv DEF Init
<1>2. Places
  BY TypesInit, AtInit, AccessInit, ReadyInit, PlacesInit DEF Places
<1>3. AllPut = <<>> /\ WrittenBy = [w \in Writers |-> 0]
  BY RingInit DEF AllPut
<1>4. StreamInv
  BY <1>3 DEF StreamInv, Merged
<1> QED BY <1>1, <1>2, <1>4 DEF FInv

LEMMA FInvStep == FInv /\ [Next]_vars => FInv'
<1> SUFFICES ASSUME FInv, [Next]_vars PROVE FInv'
  OBVIOUS
<1>1. IInv /\ Places /\ StreamInv /\ FifoTypes /\ PlacesConserved
  BY DEF FInv, Places
<1>2. IInv' /\ Places'
  BY <1>1, SemsInv, PlacesStep
<1>3. InUse \in Nat
  BY <1>1, InUseBounded, Sizes
<1>4. (\E w \in Writers : PutStep(w)) \/ GetStep \/ QStutter
  BY <1>1, <1>2, StepQueue DEF Places
<1>5. ASSUME QStutter PROVE StreamInv'
  <2>1. AllPut' = AllPut /\ WrittenBy' = WrittenBy
    BY <1>5 DEF QStutter, AllPut
  <2> QED BY <1>1, <2>1 DEF StreamInv
<1>6. ASSUME GetStep PROVE StreamInv'
  BY <1>1, <1>3, <1>6, StreamGet
<1>7. ASSUME NEW w \in Writers, PutStep(w) PROVE StreamInv'
  BY <1>1, <1>3, <1>7, StreamPut
<1>8. StreamInv'
  BY <1>4, <1>5, <1>6, <1>7
<1> QED BY <1>2, <1>8 DEF FInv

\* The inductive invariant of the fifo: the semaphores keep theirs, access is
\* a mutual exclusion, the counts of read and write account for the ring, and
\* what was received and what is in the ring is an interleaving of the streams
\* (fifo.c:18-37, main.c:28-49).
THEOREM FifoInvariance == Spec => []FInv
BY FInvInit, FInvStep, PTL DEF Spec

\* No place of the ring is lost or announced twice (fifo.c:18-37).
THEOREM PlacesAreConserved == Spec => []PlacesConserved
<1>1. FInv => PlacesConserved
  BY DEF FInv, Places
<1> QED BY <1>1, FifoInvariance, PTL

------------------------------------------------------------------------------
(***************************************************************************)
(* What the reader gets.                                                   *)
(***************************************************************************)
\* The items of w among the first d are 0 .. c-1, in this order: there are c
\* of them.
LEMMA CountsUp ==
  ASSUME NEW w, NEW c \in Nat, NEW d \in Nat,
         \A k \in FromBefore(w, d) : received[k][2] \in 0 .. c - 1,
         \A k, h \in FromBefore(w, d) : k < h => received[k][2] < received[h][2],
         \A m \in 0 .. c - 1 : \E k \in 1 .. d : received[k] = <<w, m>>
  PROVE  Cardinality(FromBefore(w, d)) = c
<1> DEFINE S == FromBefore(w, d)
           f == [k \in S |-> received[k][2]]
<1>1. S \subseteq 1 .. d
  BY DEF FromBefore
<1>2. IsFiniteSet(S)
  <2>1. IsFiniteSet(1 .. d)
    <3>1. 1 \in Int /\ d \in Int
      OBVIOUS
    <3> QED BY <3>1, FS_Interval
  <2> HIDE DEF S
  <2> QED BY <1>1, <2>1, FS_Subset
<1>3. f \in [S -> 0 .. c - 1]
  OBVIOUS
<1>4. ASSUME NEW k \in S, NEW h \in S, k # h PROVE received[k][2] # received[h][2]
  <2>1. k \in Int /\ h \in Int
    BY <1>1
  <2>2. received[k][2] \in Int /\ received[h][2] \in Int
    OBVIOUS
  <2>3. CASE k < h
    BY <2>2, <2>3
  <2>4. CASE h < k
    BY <2>2, <2>4
  <2> QED BY <1>4, <2>1, <2>3, <2>4
<1>5. ASSUME NEW m \in 0 .. c - 1 PROVE \E k \in S : received[k][2] = m
  <2>1. PICK k \in 1 .. d : received[k] = <<w, m>>
    OBVIOUS
  <2>2. k \in S /\ received[k][2] = m
    BY <2>1 DEF FromBefore
  <2> QED BY <2>2
<1>6. /\ \A k, h \in S : f[k] = f[h] => k = h
      /\ \A m \in 0 .. c - 1 : \E k \in S : f[k] = m
  BY <1>4, <1>5
<1> HIDE DEF S, f
<1>7. f \in Bijection(S, 0 .. c - 1)
  BY <1>3, <1>6, Fun_IsBij
<1>8. ExistsBijection(S, 0 .. c - 1)
  BY <1>7 DEF ExistsBijection
<1>9. Cardinality(0 .. c - 1) = Cardinality(S)
  BY <1>2, <1>8, FS_Bijection
<1>10. Cardinality(0 .. c - 1) = c
  <2>1. 0 \in Int /\ c - 1 \in Int
    OBVIOUS
  <2>2. Cardinality(0 .. c - 1) = IF 0 > c - 1 THEN 0 ELSE (c - 1) - 0 + 1
    BY <2>1, FS_Interval
  <2> QED BY <2>2
<1> QED BY <1>9, <1>10 DEF S

\* What the reader has is the beginning of everything that was put.
LEMMA ReceivedIs ==
  ASSUME FInv
  PROVE  /\ received \in Seq(Items) /\ Len(received) <= Len(AllPut)
         /\ AllPut \in Seq(Items)
         /\ \A i \in 1 .. Len(received) : received[i] = AllPut[i]
         /\ at[Reader] = "exit" => Len(received) = Total
<1>1. FifoTypes /\ Ready /\ InUse \in Nat
  BY InUseBounded, Sizes DEF FInv, Places
<1>2. Out \in Seq(Items) /\ Len(Ring) \in Nat /\ received \in Seq(Items)
  BY <1>1, OutTypes, RingIs DEF FifoTypes
<1>3. Len(received) <= Len(Out) /\ \A i \in 1 .. Len(received) : received[i] = Out[i]
  BY <1>1 DEF Out, FifoTypes
<1> QED BY <1>1, <1>2, <1>3, AllPutIs DEF Ready

LEMMA StreamsOf ==
  ASSUME FInv, NEW w \in Writers
  PROVE  \A i \in DOMAIN received :
            received[i][1] = w => received[i][2] = Cardinality(FromBefore(w, i - 1))
<1> SUFFICES ASSUME NEW i \in DOMAIN received, received[i][1] = w
             PROVE  received[i][2] = Cardinality(FromBefore(w, i - 1))
  OBVIOUS
<1> DEFINE a == AllPut
           L == Len(received)
           n == WrittenBy
<1>1. i \in 1 .. L /\ L \in Nat /\ L <= Len(a) /\ Len(a) \in Nat
      /\ \A k \in 1 .. L : received[k] = a[k]
  BY ReceivedIs
<1>2. /\ \A k \in 1 .. Len(a) : \E v \in Writers : \E m \in 0 .. n[v] - 1 : a[k] = <<v, m>>
      /\ \A k, h \in 1 .. Len(a) : k < h /\ a[k][1] = a[h][1] => a[k][2] < a[h][2]
      /\ \A v \in Writers : \A m \in 0 .. n[v] - 1 : \E k \in 1 .. Len(a) : a[k] = <<v, m>>
  BY DEF FInv, StreamInv, Merged
<1>3. \A v \in Writers : n[v] \in Nat
  BY OutTypes DEF FInv, Places
<1>4. FromBefore(w, i - 1) = {k \in 1 .. i - 1 : received[k][1] = w}
  BY DEF FromBefore
<1> HIDE DEF a, L, n
<1>5. \A k \in 1 .. L : \E v \in Writers : \E m \in 0 .. n[v] - 1 : received[k] = <<v, m>>
  <2> SUFFICES ASSUME NEW k \in 1 .. L
               PROVE  \E v \in Writers : \E m \in 0 .. n[v] - 1 : received[k] = <<v, m>>
    OBVIOUS
  <2>1. k \in 1 .. Len(a) /\ received[k] = a[k]
    BY <1>1
  <2> QED BY <1>2, <2>1
<1>6. PICK c \in 0 .. n[w] - 1 : received[i] = <<w, c>>
  <2>1. PICK v \in Writers : \E m \in 0 .. n[v] - 1 : received[i] = <<v, m>>
    BY <1>1, <1>5
  <2>2. v = w
    BY <2>1
  <2> QED BY <2>1, <2>2
<1>7. c \in Nat /\ i - 1 \in Nat /\ n[w] \in Nat
  BY <1>1, <1>3, <1>6
<1>8. \A k \in FromBefore(w, i - 1) : k \in 1 .. L /\ k < i /\ received[k][1] = w
                                      /\ received[k][2] \in 0 .. n[w] - 1
  <2> SUFFICES ASSUME NEW k \in FromBefore(w, i - 1)
               PROVE  k \in 1 .. L /\ k < i /\ received[k][1] = w
                      /\ received[k][2] \in 0 .. n[w] - 1
    OBVIOUS
  <2>1. k \in 1 .. L /\ k < i /\ received[k][1] = w
    BY <1>1, <1>4
  <2>2. PICK v \in Writers : \E m \in 0 .. n[v] - 1 : received[k] = <<v, m>>
    BY <1>5, <2>1
  <2>3. v = w
    BY <2>1, <2>2
  <2> QED BY <2>1, <2>2, <2>3
<1>9. ASSUME NEW k \in 1 .. L, NEW h \in 1 .. L, k < h, received[k][1] = received[h][1]
      PROVE  received[k][2] < received[h][2]
  <2>1. k \in 1 .. Len(a) /\ h \in 1 .. Len(a) /\ received[k] = a[k] /\ received[h] = a[h]
    BY <1>1
  <2> QED BY <1>2, <1>9, <2>1
<1>10. ASSUME NEW k \in FromBefore(w, i - 1) PROVE received[k][2] \in 0 .. c - 1
  <2>1. k \in 1 .. L /\ k < i /\ received[k][1] = w /\ received[k][2] \in 0 .. n[w] - 1
    BY <1>8
  <2>2. received[k][2] < received[i][2]
    BY <1>1, <1>6, <1>9, <2>1
  <2> QED BY <1>6, <1>7, <2>1, <2>2
<1>11. \A k, h \in FromBefore(w, i - 1) : k < h => received[k][2] < received[h][2]
  BY <1>8, <1>9
<1>12. ASSUME NEW m \in 0 .. c - 1 PROVE \E k \in 1 .. i - 1 : received[k] = <<w, m>>
  <2>1. m \in 0 .. n[w] - 1
    BY <1>6, <1>7
  <2>2. PICK k \in 1 .. Len(a) : a[k] = <<w, m>>
    BY <1>2, <2>1
  <2>3. a[i] = <<w, c>> /\ i \in 1 .. Len(a)
    BY <1>1, <1>6
  <2>4. ~(i < k)
    <3>1. i < k /\ a[i][1] = a[k][1] => a[i][2] < a[k][2]
      BY <1>2, <2>3
    <3> QED BY <1>7, <2>2, <2>3, <3>1
  <2>5. i # k
    BY <1>7, <2>2, <2>3
  <2>6. k \in 1 .. i - 1
    BY <1>1, <2>4, <2>5
  <2> QED BY <1>1, <2>2, <2>6
<1> DEFINE d == i - 1
<1>13. /\ c \in Nat /\ d \in Nat
       /\ \A k \in FromBefore(w, d) : received[k][2] \in 0 .. c - 1
       /\ \A k, h \in FromBefore(w, d) : k < h => received[k][2] < received[h][2]
       /\ \A m \in 0 .. c - 1 : \E k \in 1 .. d : received[k] = <<w, m>>
  BY <1>7, <1>10, <1>11, <1>12
<1> HIDE DEF d
<1>14. Cardinality(FromBefore(w, d)) = c
  BY ONLY <1>13, CountsUp, Zenon
<1> QED BY <1>6, <1>14 DEF d

\* The Total items the reader has when it exits are all different, and there
\* are no more than Total to be had: it has them all.
LEMMA AllReceived ==
  ASSUME FInv, at[Reader] = "exit", NEW w \in Writers, NEW m \in 0 .. NumElems - 1
  PROVE  \E i \in 1 .. Len(received) : received[i] = <<w, m>>
<1> DEFINE a == AllPut
           L == Len(received)
           n == WrittenBy
           All == Writers \X (0 .. NumElems - 1)
           f == [i \in 1 .. L |-> received[i]]
<1>1. L \in Nat /\ L <= Len(a) /\ Len(a) \in Nat /\ L = Total
      /\ \A k \in 1 .. L : received[k] = a[k]
  BY ReceivedIs
<1>2. /\ \A k \in 1 .. Len(a) : \E v \in Writers : \E x \in 0 .. n[v] - 1 : a[k] = <<v, x>>
      /\ \A k, h \in 1 .. Len(a) : k < h /\ a[k][1] = a[h][1] => a[k][2] < a[h][2]
  BY DEF FInv, StreamInv, Merged
<1>3. \A v \in Writers : n[v] \in Nat /\ n[v] <= NumElems
  <2> SUFFICES ASSUME NEW v \in Writers PROVE n[v] \in Nat /\ n[v] <= NumElems
    OBVIOUS
  <2>1. v \in Procs /\ j[v] \in Nat
    BY ProcAssumption DEF FInv, Places, FifoTypes
  <2>2. j[v] <= NumElems /\ (at[v] \in {"wr_incaccess", "wr_incread"} => j[v] < NumElems)
    BY DEF FInv, Places, Ready
  <2> QED BY <2>1, <2>2, Sizes DEF WrittenBy, Written
<1>4. NumElems \in Nat
  BY Sizes
<1>5. Total = NumElems * Cardinality(Writers)
  BY DEF Total
<1> HIDE DEF a, L, n
<1>6. ASSUME NEW k \in 1 .. L PROVE received[k] \in All
  <2>1. k \in 1 .. Len(a) /\ received[k] = a[k]
    BY <1>1
  <2>2. PICK v \in Writers : \E x \in 0 .. n[v] - 1 : a[k] = <<v, x>>
    BY <1>2, <2>1
  <2>3. PICK x \in 0 .. n[v] - 1 : a[k] = <<v, x>>
    BY <2>2
  <2>4. x \in 0 .. NumElems - 1
    BY <1>3, <1>4, <2>3
  <2> QED BY <2>1, <2>3, <2>4
<1>7. ASSUME NEW k \in 1 .. L, NEW h \in 1 .. L, k < h PROVE received[k] # received[h]
  <2>1. k \in 1 .. Len(a) /\ h \in 1 .. Len(a) /\ received[k] = a[k] /\ received[h] = a[h]
    BY <1>1
  <2>2. a[h][1] = a[k][1] => a[k][2] < a[h][2]
    BY <1>2, <1>7, <2>1
  <2>3. received[h] \in All
    BY <1>6
  <2>4. received[h][2] \in Int
    BY <2>3
  <2> QED BY <2>1, <2>2, <2>4
<1>8. \A k, h \in 1 .. L : f[k] = f[h] => k = h
  <2> SUFFICES ASSUME NEW k \in 1 .. L, NEW h \in 1 .. L, k # h PROVE f[k] # f[h]
    OBVIOUS
  <2>1. k < h \/ h < k
    OBVIOUS
  <2> QED BY <1>7, <2>1
<1>9. f \in [1 .. L -> All]
  BY <1>6
<1>10. \A k \in 1 .. L : f[k] = received[k]
  OBVIOUS
<1>11. IsFiniteSet(0 .. NumElems - 1) /\ Cardinality(0 .. NumElems - 1) = NumElems
  <2>1. 0 \in Int /\ NumElems - 1 \in Int
    BY <1>4
  <2>2. /\ IsFiniteSet(0 .. NumElems - 1)
        /\ Cardinality(0 .. NumElems - 1) = IF 0 > NumElems - 1 THEN 0 ELSE (NumElems - 1) - 0 + 1
    BY <2>1, FS_Interval
  <2> QED BY <1>4, <2>2
<1>12. IsFiniteSet(All) /\ Cardinality(All) = Cardinality(Writers) * NumElems
  BY <1>11, ProcAssumption, FS_Product
<1>13. IsFiniteSet(1 .. L) /\ Cardinality(1 .. L) = L
  <2>1. 1 \in Int /\ L \in Int
    BY <1>1
  <2>2. /\ IsFiniteSet(1 .. L)
        /\ Cardinality(1 .. L) = IF 1 > L THEN 0 ELSE L - 1 + 1
    BY <2>1, FS_Interval
  <2> QED BY <1>1, <2>2
<1>14. Cardinality(Writers) \in Nat
  BY ProcAssumption, FS_CardinalityType
<1>15. Cardinality(1 .. L) = Cardinality(All)
  BY <1>1, <1>4, <1>5, <1>12, <1>13, <1>14
<1>16. <<w, m>> \in All
  OBVIOUS
<1> HIDE DEF All, f
<1>17. f \in Injection(1 .. L, All)
  BY <1>8, <1>9, Fun_IsInj
<1>18. f \in Surjection(1 .. L, All)
  BY <1>12, <1>15, <1>17, FS_Injection
<1>19. PICK i \in 1 .. L : f[i] = <<w, m>>
  BY <1>16, <1>18 DEF Surjection
<1> QED BY <1>10, <1>19 DEF L

LEMMA StreamComplete ==
  ASSUME FInv, at[Reader] = "exit", NEW w \in Writers
  PROVE  Cardinality(FromBefore(w, Len(received))) = NumElems
<1> DEFINE d == Len(received)
           c == NumElems
<1>1. c \in Nat /\ d \in Nat
  BY ReceivedIs, Sizes
<1>2. d <= Len(AllPut) /\ Len(AllPut) \in Nat /\ \A k \in 1 .. d : received[k] = AllPut[k]
  BY ReceivedIs
<1>3. /\ \A k \in 1 .. Len(AllPut) : \E v \in Writers : \E x \in 0 .. WrittenBy[v] - 1 :
             AllPut[k] = <<v, x>>
      /\ \A k, h \in 1 .. Len(AllPut) :
             k < h /\ AllPut[k][1] = AllPut[h][1] => AllPut[k][2] < AllPut[h][2]
  BY DEF FInv, StreamInv, Merged
<1>4. WrittenBy[w] \in Nat /\ WrittenBy[w] <= NumElems
  <2>1. w \in Procs /\ j[w] \in Nat
    BY ProcAssumption DEF FInv, Places, FifoTypes
  <2>2. j[w] <= NumElems /\ (at[w] \in {"wr_incaccess", "wr_incread"} => j[w] < NumElems)
    BY DEF FInv, Places, Ready
  <2> QED BY <2>1, <2>2, Sizes DEF WrittenBy, Written
<1>5. \A k \in FromBefore(w, d) : k \in 1 .. d /\ received[k][1] = w
  BY DEF FromBefore
<1>6. \A m \in 0 .. c - 1 : \E k \in 1 .. d : received[k] = <<w, m>>
  BY AllReceived
<1> HIDE DEF c, d
<1>7. ASSUME NEW k \in FromBefore(w, d) PROVE received[k][2] \in 0 .. c - 1
  <2>1. k \in 1 .. d /\ k \in 1 .. Len(AllPut) /\ received[k] = AllPut[k] /\ received[k][1] = w
    BY <1>1, <1>2, <1>5
  <2>2. PICK v \in Writers : \E x \in 0 .. WrittenBy[v] - 1 : AllPut[k] = <<v, x>>
    BY <1>3, <2>1
  <2>3. v = w
    BY <2>1, <2>2
  <2>4. received[k][2] \in 0 .. WrittenBy[w] - 1
    BY <2>1, <2>2, <2>3
  <2> QED BY <1>4, <2>4, Sizes DEF c
<1>8. ASSUME NEW k \in FromBefore(w, d), NEW h \in FromBefore(w, d), k < h
      PROVE  received[k][2] < received[h][2]
  <2>1. /\ k \in 1 .. Len(AllPut) /\ received[k] = AllPut[k] /\ received[k][1] = w
        /\ h \in 1 .. Len(AllPut) /\ received[h] = AllPut[h] /\ received[h][1] = w
    BY <1>1, <1>2, <1>5
  <2> QED BY <1>3, <1>8, <2>1
<1>9. /\ c \in Nat /\ d \in Nat
      /\ \A k \in FromBefore(w, d) : received[k][2] \in 0 .. c - 1
      /\ \A k, h \in FromBefore(w, d) : k < h => received[k][2] < received[h][2]
      /\ \A m \in 0 .. c - 1 : \E k \in 1 .. d : received[k] = <<w, m>>
  BY <1>1, <1>6, <1>7, <1>8
<1>10. Cardinality(FromBefore(w, d)) = c
  BY ONLY <1>9, CountsUp, Zenon
<1> QED BY <1>10 DEF c, d

\* The reader gets the stream of each writer complete, in sequence, with no
\* missing or duplicated items (pset-w07.ps:375-381), for any number of writers
\* and items and any ring.
THEOREM StreamsAreIntact == Spec => []StreamsIntact
<1>1. FInv => StreamsIntact
  BY StreamsOf, StreamComplete DEF StreamsIntact
<1> QED BY <1>1, FifoInvariance, PTL

------------------------------------------------------------------------------
(***************************************************************************)
(* Refinement.                                                             *)
(***************************************************************************)
LEMMA QueueInit == Init => Queue!Init
BY RingInit DEF Queue!Init, WrittenBy, Out

LEMMA QueueStep == FInv /\ FInv' /\ [Next]_vars
                     => [Queue!Next]_<<Ring, [w \in Writers |-> Written(w)],
                                       IF Got(Reader) THEN Append(received, l) ELSE received>>
<1> SUFFICES ASSUME FInv, FInv', [Next]_vars
             PROVE  Queue!Next \/ QStutter
  BY DEF QStutter, WrittenBy, Out
<1>1. (\E w \in Writers : PutStep(w)) \/ GetStep \/ QStutter
  BY StepQueue DEF FInv, Places
<1>2. ASSUME NEW w \in Writers, PutStep(w) PROVE Queue!Next
  BY <1>2 DEF PutStep, WrittenBy, Out, Queue!Next, Queue!Put
<1>3. ASSUME GetStep PROVE Queue!Next
  BY <1>3 DEF GetStep, WrittenBy, Out, Queue!Next, Queue!Get
<1> QED BY <1>1, <1>2, <1>3

\* The ring and its two indices, which wrap, are a bounded queue: end++ puts an
\* item, beg++ gets one and nothing else shows (fifo.c:18-37).
THEOREM RefinesQueueHolds == Spec => RefinesQueue
BY QueueInit, QueueStep, FifoInvariance, PTL DEF Spec, RefinesQueue, Queue!Spec
==============================================================================
