---------------------------- MODULE BoundedQueue ----------------------------
(***************************************************************************)
(* What fifo.h promises (pset-w07.ps:354-360, 375-381): a queue of bounded *)
(* capacity.  Each writer puts its own stream 0 .. NumElems-1, a full      *)
(* queue holds writers back, and the reader gets the items in the order    *)
(* they were put.  SemFifo.tla is the code that is meant to implement it.  *)
(***************************************************************************)
EXTENDS Integers, Sequences

CONSTANTS Writers, NumElems, Capacity

VARIABLES queue,     \* the items put and not yet got
          next,      \* the next item of each writer
          received   \* the items got, in order

Init == /\ queue = <<>>
        /\ next = [w \in Writers |-> 0]
        /\ received = <<>>

Put(w) == /\ next[w] < NumElems
          /\ Len(queue) < Capacity
          /\ queue' = Append(queue, <<w, next[w]>>)
          /\ next' = [next EXCEPT ![w] = @ + 1]
          /\ UNCHANGED received

Get == /\ queue # <<>>
       /\ received' = Append(received, Head(queue))
       /\ queue' = Tail(queue)
       /\ UNCHANGED next

Next == Get \/ \E w \in Writers : Put(w)

Spec == Init /\ [][Next]_<<queue, next, received>>
==============================================================================
