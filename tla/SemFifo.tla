------------------------------- MODULE SemFifo -------------------------------
(***************************************************************************)
(* Operating Systems/Project7-Semaphore_FIFO: the fifo of fifo.c on top of *)
(* the semaphores of Semaphore.tla, driven by the processes of main.c:     *)
(* every writer forked by main writes NumElems items with fifo_wr, the     *)
(* parent reads all of them with fifo_rd, and each of them then exits.     *)
(*                                                                         *)
(* A process outside the semaphore code (pc = "idle") is at one of the     *)
(* program points at[p]; a call of sem_wait or sem_inc hands it to the     *)
(* actions of Semaphore until pc is "idle" again.  An item i|(j<<6) is the *)
(* pair of its writer and its number.                                      *)
(***************************************************************************)
EXTENDS Semaphore, SequencesExt

CONSTANTS Writers,    \* the procs-1 forked processes
          Reader,     \* the parent
          NumElems,   \* argv[2]
          BufSize,    \* MYFIFO_BUFSIZ
          UIntMod     \* 2^32: beg and end are unsigned int

ASSUME ProcAssumption == /\ Procs = Writers \cup {Reader} /\ Reader \notin Writers
                         /\ IsFiniteSet(Writers)
ASSUME SizeAssumption == /\ BufSize \in Nat \ {0}
                         /\ UIntMod \in Nat /\ UIntMod > BufSize
                         /\ UIntMod % BufSize = 0
                         /\ NumElems \in Nat
ASSUME FifoSems == Sems = {"access", "write", "read"}

\* Fault: the ring is announced one place too large.
FifoCountsTooMany == [access |-> 1, write |-> BufSize + 1, read |-> 0]

\* fifo_init: the counts given to sem_init.
FifoCounts == [access |-> 1, write |-> BufSize, read |-> 0]
ASSUME FifoInit == InitCount = FifoCounts

VARIABLES addr,      \* f->addr, the ring of BufSize items
          beg,       \* f->beg, next place to read from
          end,       \* f->end, next place to write to
          at,        \* where each process is, outside the semaphores
          j,         \* how many items it has written or read
          l,         \* the item the reader has loaded
          received   \* what fifo_rd has returned, in order

fifoVars == <<addr, beg, end, at, j, l, received>>
vars == <<semVars, fifoVars>>

NoItem == <<NoPid, 0>>
Total  == NumElems * Cardinality(Writers)

Init == /\ SemInit
        /\ addr = [i \in 0 .. BufSize - 1 |-> NoItem]
        /\ beg = 0
        /\ end = 0
        /\ at = [p \in Procs |-> IF p = Reader THEN "rd" ELSE "wr"]
        /\ j = [p \in Procs |-> 0]
        /\ l = NoItem
        /\ received = <<>>

Move(p, a, b) == /\ at[p] = a
                 /\ at' = [at EXCEPT ![p] = b]

\* A process outside the semaphores touches the ring; no semaphore changes.
Outside(p) == pc[p] = "idle" /\ UNCHANGED semVars

\* The loop counter of main.c is advanced when the call it guards starts its
\* last operation.
Count(p) == j' = [j EXCEPT ![p] = @ + 1]

------------------------------------------------------------------------------
\* fifo_wr, in the loop of a writer

WrWaitWrite(w) == /\ Move(w, "wr", "wr_access")
                  /\ j[w] < NumElems
                  /\ CallWait(w, "write")
                  /\ UNCHANGED <<addr, beg, end, j, l, received>>

WrWaitAccess(w) == /\ Move(w, "wr_access", "wr_store")
                   /\ CallWait(w, "access")
                   /\ UNCHANGED <<addr, beg, end, j, l, received>>

\* f->addr[f->end%MYFIFO_BUFSIZ]=d
WrStore(w) == /\ Move(w, "wr_store", "wr_end")
              /\ addr' = [addr EXCEPT ![end % BufSize] = <<w, j[w]>>]
              /\ Outside(w)
              /\ UNCHANGED <<beg, end, j, l, received>>

\* f->end++
WrEnd(w) == /\ Move(w, "wr_end", "wr_incaccess")
            /\ end' = (end + 1) % UIntMod
            /\ Outside(w)
            /\ UNCHANGED <<addr, beg, j, l, received>>

WrIncAccess(w) == /\ Move(w, "wr_incaccess", "wr_incread")
                  /\ CallInc(w, "access")
                  /\ UNCHANGED <<addr, beg, end, j, l, received>>

WrIncRead(w) == /\ Move(w, "wr_incread", "wr")
                /\ CallInc(w, "read")
                /\ Count(w)
                /\ UNCHANGED <<addr, beg, end, l, received>>

WrExit(w) == /\ Move(w, "wr", "exit")
             /\ j[w] = NumElems
             /\ Outside(w)
             /\ UNCHANGED <<addr, beg, end, j, l, received>>

Write(w) == \/ WrWaitWrite(w) \/ WrWaitAccess(w) \/ WrStore(w) \/ WrEnd(w)
            \/ WrIncAccess(w) \/ WrIncRead(w) \/ WrExit(w)

------------------------------------------------------------------------------
\* fifo_rd, in the loop of the parent

RdWaitRead(p) == /\ Move(p, "rd", "rd_access")
                 /\ j[p] < Total
                 /\ CallWait(p, "read")
                 /\ UNCHANGED <<addr, beg, end, j, l, received>>

RdWaitAccess(p) == /\ Move(p, "rd_access", "rd_load")
                   /\ CallWait(p, "access")
                   /\ UNCHANGED <<addr, beg, end, j, l, received>>

\* Fault: the index is advanced before the item is read.
RdLoadNext(p) == /\ Move(p, "rd_load", "rd_beg")
                 /\ l' = addr[(beg + 1) % BufSize]
                 /\ Outside(p)
                 /\ UNCHANGED <<addr, beg, end, j, received>>

\* l=f->addr[f->beg%MYFIFO_BUFSIZ]
RdLoad(p) == /\ Move(p, "rd_load", "rd_beg")
             /\ l' = addr[beg % BufSize]
             /\ Outside(p)
             /\ UNCHANGED <<addr, beg, end, j, received>>

\* f->beg++
RdBeg(p) == /\ Move(p, "rd_beg", "rd_incaccess")
            /\ beg' = (beg + 1) % UIntMod
            /\ Outside(p)
            /\ UNCHANGED <<addr, end, j, l, received>>

RdIncAccess(p) == /\ Move(p, "rd_incaccess", "rd_incwrite")
                  /\ CallInc(p, "access")
                  /\ UNCHANGED <<addr, beg, end, j, l, received>>

\* Fault: fifo_rd gives back a read instead of a write.
RdIncWriteSwapped(p) == /\ Move(p, "rd_incwrite", "rd_return")
                        /\ CallInc(p, "read")
                        /\ UNCHANGED <<addr, beg, end, j, l, received>>

RdIncWrite(p) == /\ Move(p, "rd_incwrite", "rd_return")
                 /\ CallInc(p, "write")
                 /\ UNCHANGED <<addr, beg, end, j, l, received>>

\* return l, and the loop of main
RdReturn(p) == /\ Move(p, "rd_return", "rd")
               /\ received' = Append(received, l)
               /\ Count(p)
               /\ Outside(p)
               /\ UNCHANGED <<addr, beg, end, l>>

RdExit(p) == /\ Move(p, "rd", "exit")
             /\ j[p] = Total
             /\ Outside(p)
             /\ UNCHANGED <<addr, beg, end, j, l, received>>

Read(p) == \/ RdWaitRead(p) \/ RdWaitAccess(p) \/ RdLoad(p) \/ RdBeg(p)
           \/ RdIncAccess(p) \/ RdIncWrite(p) \/ RdReturn(p) \/ RdExit(p)

------------------------------------------------------------------------------
Main(p) == \/ p \in Writers /\ Write(p)
           \/ p = Reader /\ Read(p)

Process(p) == Main(p) \/ (SemStep(p) /\ UNCHANGED fifoVars)
Signal(p)  == Deliver(p) /\ UNCHANGED fifoVars

Next == \E p \in Procs : Process(p) \/ Signal(p)

\* The operating system runs every process that can run and delivers every
\* signal.  Nothing more is assumed: a process that spins on a lock may find
\* it taken as often as the others take it.
Fairness == \A p \in Procs : WF_vars(Process(p)) /\ WF_vars(Signal(p))

Spec == Init /\ [][Next]_vars
FairSpec == Spec /\ Fairness

------------------------------------------------------------------------------
\* The items in the ring, oldest first.
InUse == (end - beg) % UIntMod
Ring  == [k \in 1 .. InUse |-> addr[(beg + k - 1) % BufSize]]

\* Inside sem_inc(s), before the unit is there, with the next program point b.
Giving(p, b, s) == at[p] = b /\ cur[p] = s /\ pc[p] \in {"i_tas", "i_load", "i_store"}

\* Has returned from the count-- of the first sem_wait, with the next point b.
Taken(p, b) == at[p] = b /\ pc[p] \in {"w_unl", "idle"}

\* A writer that has filled a place and has not yet given its read; the
\* reader that has taken a read and has not yet emptied the place.
OwesRead(p)  == at[p] \in {"wr_incaccess", "wr_incread"} \/ Giving(p, "wr", "read")
HoldsRead(p) == Taken(p, "rd_access") \/ at[p] \in {"rd_load", "rd_beg"}

\* The same with the places that are free.
OwesWrite(p)  == at[p] \in {"rd_incaccess", "rd_incwrite"} \/ Giving(p, "rd_return", "write")
HoldsWrite(p) == Taken(p, "wr_access") \/ at[p] \in {"wr_store", "wr_end"}

\* Every item in the ring is accounted for by exactly one of: a unit of read,
\* a writer about to give it, the reader that has taken it; and every free
\* place by a unit of write, the reader, or a writer.  So no place is lost
\* and none is announced twice, whatever the processes are in the middle of
\* (fifo.c:18-37).
PlacesConserved ==
    /\ InUse = count["read"]
               + Cardinality({p \in Procs : OwesRead(p)})
               + Cardinality({p \in Procs : HoldsRead(p)})
    /\ BufSize - InUse = count["write"]
                         + Cardinality({p \in Procs : OwesWrite(p)})
                         + Cardinality({p \in Procs : HoldsWrite(p)})

\* The items of w among the first n received.
FromBefore(w, n) == {k \in 1 .. n : received[k][1] = w}

\* The reader gets the stream of each writer complete, in sequence, with no
\* missing or duplicated items (pset-w07.ps:375-381): at every moment what it
\* got from a writer is 0, 1, 2, ... in this order, each item being preceded by
\* as many of its writer as its number says, and when it exits it is the whole
\* stream.
StreamsIntact ==
    \A w \in Writers :
        /\ \A i \in DOMAIN received :
              received[i][1] = w => received[i][2] = Cardinality(FromBefore(w, i - 1))
        /\ at[Reader] = "exit" => Cardinality(FromBefore(w, Len(received))) = NumElems

Got(p) == at[p] \in {"rd_incaccess", "rd_incwrite", "rd_return"}

Written(w) == IF at[w] \in {"wr_incaccess", "wr_incread"} THEN j[w] + 1 ELSE j[w]

Queue == INSTANCE BoundedQueue
            WITH queue <- Ring, next <- [w \in Writers |-> Written(w)],
                 received <- IF Got(Reader) THEN Append(received, l) ELSE received,
                 Capacity <- BufSize

\* The ring and its two indices, which wrap at 2^32, are a bounded queue: an
\* item is put by end++ and got by beg++, the ring never overflows, no item
\* is overwritten before it is read and no place is read before it is written.
RefinesQueue == Queue!Spec

Finished == \A p \in Procs : at[p] = "exit"

\* The lost wake-up is the only way to hang: every run ends with all the
\* processes finished or with one of them asleep for good.
FinishedOrStranded == <>(Finished \/ \E p \in Procs : Stranded(p))

\* "all processes will eventually run to completion and exit (no hanging)",
\* pset-w07.ps:379-381.
RunToCompletion == <>Finished

==============================================================================
