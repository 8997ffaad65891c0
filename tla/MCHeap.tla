-------------------------------- MODULE MCHeap --------------------------------
\* Small instances of BinaryHeap for TLC.  Ids are numbers.
EXTENDS BinaryHeap

\* All ids collide; their first entry is 4 in a table of 7, 12 in one of 13
\* and 2 in one of 23.
Collide == [id \in Keys |-> 25]

SmallPrimes == <<7, 13, 23>>

\* Since all ids collide they are interchangeable, and the new ones can as
\* well be taken in the order of the numbers.
Used(map, id) == \E i \in DOMAIN map.item : map.item[i].key = id
NewIdsInOrder == \A id \in Keys : Used(mapping', id) =>
                    \A n \in 1 .. id - 1 : Used(mapping, n) \/ Used(mapping', n)

\* Nothing depends on the last answer, so states that differ in it are one.
ButAnswer == <<data, size, mapping, crashed, inserts, moves, grown>>
==============================================================================
