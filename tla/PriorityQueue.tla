---------------------------- MODULE PriorityQueue ----------------------------
(***************************************************************************)
(* What heap.h:18-70 promises: a bounded set of ids, each with a key, from *)
(* which the least key can be taken.  BinaryHeap.tla is the code that is   *)
(* meant to implement it.                                                  *)
(***************************************************************************)
EXTENDS Integers, FiniteSets

CONSTANTS Ids, KeyValues, Absent, Capacity

VARIABLES key,        \* the key of every id, or Absent
          answer      \* the last call and what it returned

Held == {i \in Ids : key[i] # Absent}

Init == /\ key = [i \in Ids |-> Absent]
        /\ answer = <<"none">>

\* Each answer comes first: it tells what has to be so.
Insert(i, k) ==
    \/ /\ answer' = <<"insert", 0>>
       /\ Cardinality(Held) < Capacity /\ i \notin Held
       /\ key' = [key EXCEPT ![i] = k]
    \/ /\ answer' = <<"insert", 2>>
       /\ Cardinality(Held) < Capacity /\ i \in Held
       /\ UNCHANGED key
    \/ /\ answer' = <<"insert", 1>>
       /\ Cardinality(Held) = Capacity
       /\ UNCHANGED key

SetKey(i, k) ==
    \/ /\ answer' = <<"setKey", 0>>
       /\ i \in Held
       /\ key' = [key EXCEPT ![i] = k]
    \/ /\ answer' = <<"setKey", 1>>
       /\ i \notin Held
       /\ UNCHANGED key

\* Of several ids with the least key any may be taken.
DeleteMin ==
    \/ \E i \in Ids : /\ answer' = <<"deleteMin", 0, i, key[i]>>
                      /\ i \in Held /\ \A n \in Held : key[i] <= key[n]
                      /\ key' = [key EXCEPT ![i] = Absent]
    \/ /\ answer' = <<"deleteMin", 1>>
       /\ Held = {}
       /\ UNCHANGED key

Remove(i) ==
    \/ /\ answer' = <<"remove", 0, i, key[i]>>
       /\ i \in Held
       /\ key' = [key EXCEPT ![i] = Absent]
    \/ /\ answer' = <<"remove", 1>>
       /\ i \notin Held
       /\ UNCHANGED key

Next == \/ DeleteMin
        \/ \E i \in Ids : Remove(i) \/ \E k \in KeyValues : Insert(i, k) \/ SetKey(i, k)
==============================================================================
