------------------------------ MODULE MCDijkstra ------------------------------
\* Small instances of Dijkstra for TLC.  Ids are numbers.
EXTENDS Dijkstra

\* All ids collide, before and after the table grows.
Collide == [id \in Keys |-> 25]

\* A first table for four vertices: one more makes it grow.
SmallPrimes == <<9, 13, 23>>

\* Since all ids collide they are interchangeable, and can as well be numbered
\* in the order in which the file names them.
Seen          == Cardinality(UNION {{e.from, e.to} : e \in file})
NewIdsInOrder == \A e \in file' \ file :
                    e.from <= Seen + 1 /\ e.to <= Sets!Max({Seen, e.from}) + 1
==============================================================================
