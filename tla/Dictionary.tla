------------------------------ MODULE Dictionary ------------------------------
(***************************************************************************)
(* What hash.h:29-56 promises: a map from keys to pointers.  HashMap.tla   *)
(* is the code that is meant to implement it.                              *)
(***************************************************************************)
EXTENDS Integers

CONSTANTS Keys, Pointers, Absent

VARIABLES map,        \* the pointer of every key, or Absent
          answer      \* the last call: function, key, what it returned

Init == /\ map = [k \in Keys |-> Absent]
        /\ answer = <<"none">>

Insert(k, pv) ==
    \/ /\ answer' = <<"insert", k, 0>>
       /\ map[k] = Absent
       /\ map' = [map EXCEPT ![k] = pv]
    \/ /\ answer' = <<"insert", k, 1>>
       /\ map[k] # Absent
       /\ UNCHANGED map
    \/ /\ answer' = <<"insert", k, 2>>         \* "2 if rehash fails"
       /\ UNCHANGED map

SetPointer(k, pv) ==
    \/ /\ answer' = <<"setPointer", k, 0>>
       /\ map[k] # Absent
       /\ map' = [map EXCEPT ![k] = pv]
    \/ /\ answer' = <<"setPointer", k, 1>>
       /\ map[k] = Absent
       /\ UNCHANGED map

Remove(k) == /\ answer' = <<"remove", k, IF map[k] # Absent THEN 1 ELSE 0>>
             /\ map' = [map EXCEPT ![k] = Absent]

GetPointer(k) == answer' = <<"getPointer", k, map[k]>> /\ UNCHANGED map

Next == \E k \in Keys : \/ Remove(k) \/ GetPointer(k)
                        \/ \E pv \in Pointers : Insert(k, pv) \/ SetPointer(k, pv)
==============================================================================
